\* One connection, a writer that keeps changing the document, and one
\* EWOULDBLOCK: does the auto-retry bound hold across re-entries?
CONSTANTS
    c1 = c1
    c2 = c2
    NULL = NULL
    Conns <- MCOneConn
    Commands <- MCMutators
    ClientCas <- MCNoCas
    Datatypes <- MCJsonOnly
    SubdocErrors <- MCNoErrors
    NotifyStatus <- MCNotifySuccess
    Faults <- MCWouldBlock
    MAXIMUM_ATTEMPTS = 2
    MaxCommands = 1
    MaxExternalWrites = 3
    FaultBudget = 1

SPECIFICATION Spec

INVARIANT RetryBounded
