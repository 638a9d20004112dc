\* One session of two replaced frames, without failures, with every failure but
\* timeouts, and with every failure, at every point; the game stops at its last
\* frame, so the system may stop.
SPECIFICATION FairSpec
CONSTANTS
    MaxFrames = 4
    Limit = 2
    Scenarios <- MCScenarios
CHECK_DEADLOCK FALSE
INVARIANTS BuffersExclusive LeaseAgrees ReleasedIsIdle
PROPERTIES PreviewSpec CallbackReturns TakenIsReplaced
