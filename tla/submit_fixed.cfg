\* The fixed sequence with its host synchronizations, any HIP call may fail.
SPECIFICATION FairSpec
CONSTANTS
    MaxFrames = 3
    Calls = {"v3", "ext"}
    GraphTable = 3
    StaticIO = FALSE
    FixedHost = TRUE
    Stages = 2
    Failures = {"enqueue", "sync"}
    RetryAfterFailure = FALSE
    InputAfterReturn = FALSE
PROPERTY CallReturns
