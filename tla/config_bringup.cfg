\* The bring-up order of the scripts: settings first, then arena, shape,
\* recorders, parts and debug transitions in any order, with whole and partial
\* record lists and one that only has the right size, in both modes; an
\* allocation, a launch in the middle of the network or the late part of
\* Finalize fails and the caller retries.
SPECIFICATION Spec
CONSTANTS
    StageLists <- MCStageLists
    SplitLists <- MCSplitLists
    Profiles = {"approx_fp8"}
    Modes = {"graph", "fixed"}
    BoundaryFlags = {TRUE, FALSE}
    InitialWeights = {"none", "allocated"}
    ArenaCalls = {TRUE, FALSE}
    Recorders = {"v1", "v3"}
    DebugAnchors <- MCDebugAnchors
    SettingsFirst = TRUE
    Faults <- MCFaults
    Failures = {"alloc", "late"}
    WholeOnly = FALSE
INVARIANTS LabelMissesAtMostOne OneTopology NoRecordTwice CompleteRuns FramesRunNetwork
