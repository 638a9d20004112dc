\* The v2 path: static input and output buffers shared by the frames.
SPECIFICATION Spec
CONSTANTS
    MaxFrames = 3
    Calls = {"v2"}
    GraphTable = 2
    StaticIO = TRUE
    FixedHost = FALSE
    Stages = 1
    Failures = {"enqueue", "sync"}
    RetryAfterFailure = FALSE
    InputAfterReturn = FALSE
INVARIANT IdleMeansQuiet
PROPERTY ServiceSpec
