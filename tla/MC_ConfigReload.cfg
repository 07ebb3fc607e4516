\* Start-up load, then two reloads or validations of files giving each key
\* at most once, interfaces included.
CONSTANTS
    BAD = BAD
    NULL = NULL
    DEFAULT_THREADS = 4
    MaxBufs = 32
    MaxOps = 2
    ExistingFiles <- MCExistingFiles
    SslProtocols <- MCSslProtocols
    Files <- ReloadFiles
    StartFiles <- StartFilesMC

SPECIFICATION Spec
VIEW ProgramState
INVARIANT TypeOK
INVARIANT NoLeak
PROPERTY RefusedReloadChangesNothing
