\* A worker that serves two surfaces, three requests from two game processes, with
\* nothing or everything going wrong; the game need not ask, so the system may stop.
SPECIFICATION FairSpec
CONSTANTS
    Sizes <- MCSizes
    Tile <- MCTile
    MaxFrames = 2
    MaxAsked = 3
    MaxClients = 2
    Scenarios <- MCScenarios
INVARIANTS TypeOK AnswersOwn FreedIsIdle
PROPERTIES InputPinned ServiceSpec RunReturns RequestAnswered
CHECK_DEADLOCK FALSE
