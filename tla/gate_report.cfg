\* A result with a NaN, or a child that is still writing its result when the parent
\* stops waiting.
SPECIFICATION FairSpec
CONSTANTS
    l1 = l1
    l2 = l2
    d1 = d1
    d2 = d2
    Launches = {l1, l2}
    Dirs = {d1, d2}
    CommandLines <- MCCommandLines
    Scenarios <- MCNan
    MaxEdits = 0
PROPERTY SupervisedIsReported
CHECK_DEADLOCK FALSE
