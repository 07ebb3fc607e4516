CONSTANTS
    BAD = BAD
    NULL = NULL
    DEFAULT_THREADS = 4
    MaxBufs = 10
    MaxOps = 2
    ExistingFiles <- MCExistingFiles
    SslProtocols <- MCSslProtocols
    Files <- DistinctKeyFiles
    StartFiles <- DistinctKeyFiles

SPECIFICATION Spec
VIEW ProgramState
INVARIANT NoDanglingSetting
