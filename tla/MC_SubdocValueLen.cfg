\* Single-path packets whose body holds extras and key: does an accepted
\* packet's path and value lie within its body?
CONSTANTS
    SingleOpcodes <- MCSingleOpcodes
    SUBDOC_PATH_MAX_LENGTH <- MCPathMax
    MULTI_MAX_PATHS <- MCMaxPaths
    UINT32 <- MCUint32
    SinglePackets <- MCFramedSinglePackets
    MultiPackets <- MCNoPackets

SPECIFICATION Spec

INVARIANT SingleAcceptedFitsBody
