\* Two launches of different scripts, with one output directory or two; the record
\* is edited twice.
SPECIFICATION Spec
CONSTANTS
    l1 = l1
    l2 = l2
    d1 = d1
    d2 = d2
    Launches = {l1, l2}
    Dirs = {d1, d2}
    CommandLines <- MCCommandLines
    Scenarios <- MCScenarios
    MaxEdits = 2
CHECK_DEADLOCK FALSE
INVARIANTS PassIsClean OwnEvidence
PROPERTY HaltHolds
