------------------------------ MODULE TopKeys ------------------------------
(***************************************************************************)
(* The topkeys statistics (TopKeys in src/unnamed/part_002): keys are      *)
(* spread over NUM_SHARDS shards by hash; each shard keeps an unordered   *)
(* map from key to topkey_item_t and a list of the keys, most recently     *)
(* used first, and evicts the list's tail when the map grows past max_keys.*)
(* Each Shard::updateKey and each visit runs under the shard's mutex, so   *)
(* each is one atomic step.                                                *)
(*                                                                         *)
(* std::bad_alloc may be thrown where the code allocates: building the     *)
(* key string, the map node (emplace, which then inserts nothing) and the  *)
(* list node (push_front).  AllocFailures says where a run lets it happen. *)
(***************************************************************************)
EXTENDS Naturals, Sequences, SequencesExt, FiniteSets, Functions, TLC

CONSTANTS
    Keys,          \* keys the clients access
    NUM_SHARDS,    \* 8 in the code
    ShardOf,       \* ShardOf[k]: std::hash of k, & 0x7
    MaxKeys,       \* max_keys of every shard (the mkeys of the constructor)
    AllocFailures, \* subset of {"key_str", "emplace", "push_front"}
    MaxTime,       \* bound: rel_time_t reached by the clock
    MaxUpdates     \* bound: calls of updateKey

ASSUME AllocFailures \subseteq {"key_str", "emplace", "push_front"}

Shards == 0..NUM_SHARDS - 1

VARIABLES
    hash,      \* hash[s]: the shard's map, a function from its keys
    list,      \* list[s]: the shard's list of keys, front first
    now,       \* current rel_time_t, passed as the operation time
    report,    \* the entries of the last stats call
    updates,   \* calls of updateKey so far
    aborted    \* the process crashed in undefined behaviour

vars == <<hash, list, now, report, updates, aborted>>

\* getShard(): the shard a key belongs to.
GetShard(k) == ShardOf[k]

\* The map node emplace() creates: topkey_item_t built from the time.
NewItem(ct) == [ti_ctime |-> ct, ti_access_count |-> 0]

\* Mutant: the access count is not incremented.
TouchNoCount(it) == it

\* ti_access_count++ of the accessed key.
Touch(it) == [it EXCEPT !.ti_access_count = @ + 1]

\* Mutant: the victim is popped off the list but left in the map.
EvictKeepMap(h, l) == [hash |-> h, list |-> Front(l)]

\* The least recently used key leaves the map and the list.
Evict(h, l) ==
    [hash |-> Restrict(h, DOMAIN h \ {Last(l)}), list |-> Front(l)]

\* Mutant: a key already present is not moved to the head of the list.
SpliceToFrontMissing(l, k) == l

\* list.splice(list.begin(), list, std::find(..., k)).  When k is not in the
\* list, find returns end(); splicing end() before begin() is undefined,
\* and both libstdc++ and libc++ return early since next(end()) = begin().
SpliceToFront(l, k) == IF Contains(l, k) THEN <<k>> \o Remove(l, k) ELSE l

Init ==
    /\ hash = [s \in Shards |-> <<>>]
    /\ list = [s \in Shards |-> <<>>]
    /\ now = 0
    /\ report = {}
    /\ updates = 0
    /\ aborted = FALSE

(***************************************************************************)
(* TopKeys::updateKey(key, nkey, operation_time), with Shard::updateKey.   *)
(* A new key is emplaced first, then the tail is evicted if the map is     *)
(* over max_keys, then the key is pushed on the list; list.back() of an    *)
(* empty list reads the list's sentinel as a key and the process crashes.  *)
(***************************************************************************)
ShardUpdateKey(k) ==
    LET s == GetShard(k)
        h == hash[s]
        l == list[s]
        ins == (k :> NewItem(now)) @@ h
        over == Cardinality(DOMAIN ins) > MaxKeys
        ev == IF over THEN Evict(ins, l) ELSE [hash |-> ins, list |-> l]
    IN
    \/ /\ k \notin DOMAIN h
       /\ "emplace" \in AllocFailures
       /\ UNCHANGED <<hash, list, aborted>>
    \/ /\ k \notin DOMAIN h
       /\ over /\ l = <<>>
       /\ aborted' = TRUE
       /\ UNCHANGED <<hash, list>>
    \/ /\ k \notin DOMAIN h
       /\ ~(over /\ l = <<>>)
       /\ hash' = [hash EXCEPT ![s] = [ev.hash EXCEPT ![k] = Touch(@)]]
       /\ list' = [list EXCEPT ![s] = <<k>> \o ev.list]
       /\ UNCHANGED aborted
    \/ /\ k \notin DOMAIN h
       /\ ~(over /\ l = <<>>)
       /\ "push_front" \in AllocFailures
       /\ hash' = [hash EXCEPT ![s] = ev.hash]
       /\ list' = [list EXCEPT ![s] = ev.list]
       /\ UNCHANGED aborted
    \/ /\ k \in DOMAIN h
       /\ hash' = [hash EXCEPT ![s][k] = Touch(@)]
       /\ list' = [list EXCEPT ![s] = SpliceToFront(l, k)]
       /\ UNCHANGED aborted

UpdateKey(k) ==
    /\ ~aborted
    /\ updates < MaxUpdates
    /\ updates' = updates + 1
    /\ \/ /\ "key_str" \in AllocFailures
          /\ UNCHANGED <<hash, list, aborted>>
       \/ ShardUpdateKey(k)
    /\ UNCHANGED <<now, report>>

\* tk_iterfunc: the entry reported for key k, with the ctime also
\* printed as atime.
TkIterfunc(k, it) ==
    [key |-> k, get_hits |-> it.ti_access_count,
     ctime |-> now - it.ti_ctime, atime |-> now - it.ti_ctime]

\* TopKeys::stats (and json_stats): every shard's accept_visitor walks its
\* list and looks each key up with hash.at().
Stats ==
    /\ ~aborted
    /\ report' = UNION {{TkIterfunc(k, hash[s][k]) : k \in ToSet(list[s])} :
                        s \in Shards}
    /\ UNCHANGED <<hash, list, now, updates, aborted>>

\* The server clock advances.
Tick ==
    /\ ~aborted
    /\ now < MaxTime
    /\ now' = now + 1
    /\ UNCHANGED <<hash, list, report, updates, aborted>>

\* No further work is offered: the clock and the update budget are spent.
Finished ==
    /\ now = MaxTime /\ updates = MaxUpdates
    /\ UNCHANGED vars

Next == (\E k \in Keys : UpdateKey(k)) \/ Stats \/ Tick \/ Finished

Spec == Init /\ [][Next]_vars
-----------------------------------------------------------------------------
Item == [ti_ctime : 0..MaxTime, ti_access_count : 1..MaxUpdates]

TypeOK ==
    /\ \A s \in Shards :
          /\ DOMAIN hash[s] \subseteq Keys
          /\ \A k \in DOMAIN hash[s] : hash[s][k] \in Item
          /\ list[s] \in Seq(Keys)
    /\ now \in 0..MaxTime
    /\ updates \in 0..MaxUpdates
    /\ aborted \in BOOLEAN

(***************************************************************************)
(* The map and the list of every shard hold the same keys, each once, and  *)
(* no more than max_keys of them, whatever updateKey calls ran and wherever*)
(* std::bad_alloc interrupted one: eviction, stats and the splice of a     *)
(* known key rely on it.                                                   *)
(***************************************************************************)
HashListConsistent ==
    \A s \in Shards :
        /\ IsInjective(list[s])
        /\ ToSet(list[s]) = DOMAIN hash[s]
        /\ Len(list[s]) <= MaxKeys

(***************************************************************************)
(* The shards implement the LRU promise of TopKeysLRU: the lists are the   *)
(* abstract recency orders and the access counts the recorded accesses,   *)
(* and every updateKey call either records the access as TopKeysLRU's      *)
(* Access does or, failing, changes nothing.                               *)
(***************************************************************************)
\* The access count of a key in its shard's map, 0 when it has none.
TrackedHits ==
    [k \in Keys |-> IF k \in DOMAIN hash[GetShard(k)]
                    THEN hash[GetShard(k)][k].ti_access_count ELSE 0]

LRU == INSTANCE TopKeysLRU WITH lru <- list, hits <- TrackedHits,
                                Shards <- Shards

LRURefinement == LRU!LRUSpec
=============================================================================
