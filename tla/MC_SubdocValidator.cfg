\* Every bounded multi-lookup packet against the protocol's rules.
CONSTANTS
    SingleOpcodes <- MCSingleOpcodes
    SUBDOC_PATH_MAX_LENGTH <- MCPathMax
    MULTI_MAX_PATHS <- MCMaxPaths
    UINT32 <- MCUint32
    SinglePackets <- MCSinglePackets
    MultiPackets <- MCMultiPackets

SPECIFICATION Spec

INVARIANT TypeOK
INVARIANT MultiLookupValidatorCorrect
