\* A server started with one interface, then a reload of a file that does
\* not mention interfaces.
CONSTANTS
    BAD = BAD
    NULL = NULL
    DEFAULT_THREADS = 4
    MaxBufs = 24
    MaxOps = 1
    ExistingFiles <- MCExistingFiles
    SslProtocols <- MCSslProtocols
    Files <- CrashFiles
    StartFiles <- CrashFiles

SPECIFICATION Spec
VIEW ProgramState
INVARIANT NoCrash
