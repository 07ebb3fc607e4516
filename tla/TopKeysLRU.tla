----------------------------- MODULE TopKeysLRU -----------------------------
(***************************************************************************)
(* What the topkeys statistics promise: per shard, the MaxKeys keys most   *)
(* recently accessed, in order of recency.  An access of a key either      *)
(* records it (moving it to the front and dropping the least recently used *)
(* key if the shard is over capacity) or, when memory runs out, changes    *)
(* nothing.                                                                 *)
(***************************************************************************)
EXTENDS Naturals, Sequences, SequencesExt

CONSTANTS Keys, Shards, ShardOf, MaxKeys

VARIABLES
    lru,   \* lru[s]: the keys tracked by shard s, most recent first
    hits   \* hits[k]: accesses of k recorded since it was last tracked

\* The shard's keys after an access of k.
Accessed(order, k) ==
    LET moved == <<k>> \o Remove(order, k)
    IN IF Len(moved) > MaxKeys THEN Front(moved) ELSE moved

LRUInit ==
    /\ lru = [s \in Shards |-> <<>>]
    /\ hits = [k \in Keys |-> 0]

\* A recorded access of k: an untracked key starts counting afresh, a key
\* that drops out of its shard loses its count.
Access(k) ==
    /\ lru' = [lru EXCEPT ![ShardOf[k]] = Accessed(@, k)]
    /\ hits' = [j \in Keys |->
                  CASE ~Contains(lru'[ShardOf[j]], j) -> 0
                    [] j = k                         -> hits[j] + 1
                    [] OTHER                         -> hits[j]]

LRUNext == \E k \in Keys : Access(k)

LRUSpec == LRUInit /\ [][LRUNext]_<<lru, hits>>
=============================================================================
