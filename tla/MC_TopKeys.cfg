\* updateKey, stats and allocation failures that leave the shard intact.
CONSTANTS
    k1 = k1
    k2 = k2
    k3 = k3
    k4 = k4
    Keys <- MCKeys
    ShardOf <- MCShardOf
    AllocFailures <- MCAllocFailures
    NUM_SHARDS = 8
    MaxKeys = 2
    MaxTime = 2
    MaxUpdates = 6

SPECIFICATION Spec

INVARIANT TypeOK
INVARIANT HashListConsistent

PROPERTY LRURefinement
