\* Pre and Head configured in fixed-sequence mode, then the mode changed.
SPECIFICATION Spec
CONSTANTS
    StageLists <- MCStageLists
    SplitLists <- MCSplitLists
    Profiles = {"approx_fp8"}
    Modes = {"graph", "fixed"}
    BoundaryFlags = {TRUE, FALSE}
    InitialWeights = {"none"}
    ArenaCalls = {TRUE}
    Recorders = {}
    DebugAnchors <- MCDebugAnchors
    SettingsFirst = FALSE
    Faults = {}
    Failures = {}
    WholeOnly = TRUE
INVARIANTS HeadConsumesBody
