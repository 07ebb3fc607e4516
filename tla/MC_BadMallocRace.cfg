CONSTANTS
    t1 = t1
    t2 = t2
    Threads <- MCTwoThreads
    GRACE = 1
    MaxCalls = 3
    MaxNesting = 2

SYMMETRY MCSymmetry
SPECIFICATION Spec
INVARIANT NestedCallsNeverFail
