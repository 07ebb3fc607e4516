CONSTANTS
    t1 = t1
    t2 = t2
    Threads <- MCOneThread
    GRACE = 1
    MaxCalls = 4
    MaxNesting = 2

SPECIFICATION Spec
INVARIANT TypeOK
INVARIANT RecursionDepthCounts
INVARIANT NestedCallsNeverFail
