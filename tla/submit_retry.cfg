\* A caller that submits again after a failed submission without a reset.
SPECIFICATION Spec
CONSTANTS
    MaxFrames = 2
    Calls = {"v3"}
    GraphTable = 3
    StaticIO = FALSE
    FixedHost = FALSE
    Stages = 1
    Failures = {"enqueue"}
    RetryAfterFailure = TRUE
    InputAfterReturn = FALSE
PROPERTY PinnedBlockImmutable
