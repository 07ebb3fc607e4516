\* Two connections racing sub-document commands on one key while another
\* client writes it; safety properties of the executor.
CONSTANTS
    c1 = c1
    c2 = c2
    NULL = NULL
    Conns <- MCConns
    Commands <- MCCommands
    ClientCas <- MCClientCas
    Datatypes <- MCDatatypes
    SubdocErrors <- MCSubdocErrors
    NotifyStatus <- MCNotifyStatus
    Faults <- MCFaults
    MAXIMUM_ATTEMPTS = 2
    MaxCommands = 1
    MaxExternalWrites = 2
    FaultBudget = 1

SPECIFICATION Spec
SYMMETRY MCSymmetry

INVARIANT TypeOK
INVARIANT NoConflictWithoutCas
INVARIANT RetriesAreCausedByWrites
INVARIANT ResponseCasIsVersion
INVARIANT NoItemLeak

PROPERTY NoLostUpdate
PROPERTY ClientCasHonoured
