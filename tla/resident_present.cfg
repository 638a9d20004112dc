\* Two swap chains, a session of one frame, resizes and stops at any point; the
\* game stops at its last frame, so the system may stop.
SPECIFICATION FairSpec
CONSTANTS
    Swaps = {"game", "tool"}
    Frames <- MCFrames
    Limit = 1
    MayFail = {"gpu", "ipc", "resize", "odd"}
CHECK_DEADLOCK FALSE
INVARIANTS ShownIsOwn WithinLimit SurfaceRetained
PROPERTIES EndsForGood PresentReturns
