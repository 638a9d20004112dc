\* Two frames, on one list or two, a session of one frame; a game that renders all its
\* frames or a session that is never started may stop.
SPECIFICATION FairSpec
CONSTANTS
    Lists <- MCLists
    MaxFrame = 2
    Plans <- MCPlans
    Limit = 1
    Scenarios <- MCScenarios
CHECK_DEADLOCK FALSE
INVARIANTS ConsumerFindsOwn SurfaceOutlivesWork ReaderFindsReadable WindowBounds
PROPERTIES ExecuteReturns ChosenCompletes
