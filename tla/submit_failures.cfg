\* The graph path with and without events and fences; resets and destruction at
\* any point, any enqueue and any synchronization may fail.
SPECIFICATION FairSpec
CONSTANTS
    MaxFrames = 3
    Calls = {"v3", "ext"}
    GraphTable = 3
    StaticIO = FALSE
    FixedHost = FALSE
    Stages = 1
    Failures = {"enqueue", "sync"}
    RetryAfterFailure = FALSE
    InputAfterReturn = FALSE
INVARIANTS Inductive FrameIsolation SampleIsOneFrame
PROPERTIES PinnedBlockImmutable ServiceFairSpec
