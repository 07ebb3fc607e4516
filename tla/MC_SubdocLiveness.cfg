\* One connection with every engine fault, notify status and concurrent
\* write: every command ends in a response or a closed connection.
\* No symmetry: it is not sound with a liveness property.
CONSTANTS
    c1 = c1
    c2 = c2
    NULL = NULL
    Conns <- MCOneConn
    Commands <- MCCommands
    ClientCas <- MCClientCas
    Datatypes <- MCDatatypes
    SubdocErrors <- MCSubdocErrors
    NotifyStatus <- MCNotifyStatus
    Faults <- MCFaults
    MAXIMUM_ATTEMPTS = 2
    MaxCommands = 1
    MaxExternalWrites = 2
    FaultBudget = 2

SPECIFICATION FairSpec

PROPERTY CommandAnswered
