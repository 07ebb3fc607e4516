\* A list node cannot be allocated after the key was emplaced.
CONSTANTS
    k1 = k1
    k2 = k2
    k3 = k3
    k4 = k4
    Keys <- MCKeys
    ShardOf <- MCShardOf
    AllocFailures <- MCPushFrontFails
    NUM_SHARDS = 8
    MaxKeys = 2
    MaxTime = 2
    MaxUpdates = 6

SPECIFICATION Spec

INVARIANT HashListConsistent

