------------------------------ MODULE MC_TopKeys ------------------------------
(***************************************************************************)
(* Four keys over the eight shards: k1, k2 and k3 hash to shard 0, which  *)
(* holds two keys, so eviction, re-insertion of an evicted key and hits on *)
(* the head and the tail all happen; k4 lives alone in shard 5.            *)
(***************************************************************************)
EXTENDS TopKeys

CONSTANTS k1, k2, k3, k4

MCKeys == {k1, k2, k3, k4}
MCShardOf == (k1 :> 0) @@ (k2 :> 0) @@ (k3 :> 0) @@ (k4 :> 5)

MCAllocFailures == {"key_str", "emplace"}
MCPushFrontFails == {"push_front"}
MCNoAllocFailures == {}
=============================================================================
