----------------------------- MODULE BadMalloc -----------------------------
(***************************************************************************)
(* The badmalloc failure-injection library (src/unnamed/part_004): malloc  *)
(* and realloc are interposed; after a grace period each call may fail at  *)
(* random, except a call made while the same thread is already inside the  *)
(* library (recursion_depth > 1), such as the allocations of the fprintf   *)
(* and print_backtrace_to_file that report a failure.                     *)
(*                                                                         *)
(* recursion_depth and grace_period are plain ints shared by every thread. *)
(* An increment or decrement of either is a load and a store, so each is  *)
(* two steps here; with several threads this is a data race, and the      *)
(* interleavings of the loads and stores are the outcomes it can have.     *)
(* malloc and realloc run the same code and are one call here.            *)
(***************************************************************************)
EXTENDS Integers, SequencesExt

CONSTANTS
    Threads,     \* threads calling malloc or realloc
    GRACE,       \* the initial grace_period (1000 in the code)
    MaxCalls,    \* bound: top-level calls made by all threads
    MaxNesting   \* bound: depth of calls nested in a failure report

VARIABLES
    recursion_depth,
    grace_period,
    loaded,   \* badMalloc != nullptr: init_alloc_hooks has run
    stack,    \* stack[t]: the thread's active calls, innermost last,
              \* each [pc, fail]
    reg,      \* reg[t]: the value the thread last loaded
    calls     \* top-level calls so far

vars == <<recursion_depth, grace_period, loaded, stack, reg, calls>>

\* The innermost call of thread t.
Top(t) == stack[t][Len(stack[t])]

\* Move the innermost call of t to pc.
Goto(t, pc) == stack' = [stack EXCEPT ![t][Len(stack[t])].pc = pc]

At(t, pc) == stack[t] # <<>> /\ Top(t).pc = pc

Init ==
    /\ recursion_depth = 0
    /\ grace_period = GRACE
    /\ loaded = FALSE
    /\ stack = [t \in Threads |-> <<>>]
    /\ reg = [t \in Threads |-> 0]
    /\ calls = 0

\* init_alloc_hooks: badMalloc.reset(new BadMalloc()).
InitAllocHooks ==
    /\ ~loaded
    /\ loaded' = TRUE
    /\ UNCHANGED <<recursion_depth, grace_period, stack, reg, calls>>

\* A thread calls malloc or realloc.
Call(t) ==
    /\ stack[t] = <<>> /\ calls < MaxCalls
    /\ stack' = [stack EXCEPT ![t] = <<[pc |-> "inc_load", fail |-> FALSE]>>]
    /\ calls' = calls + 1
    /\ UNCHANGED <<recursion_depth, grace_period, loaded, reg>>

\* recursion_depth++, its load and its store.
IncLoad(t) ==
    /\ At(t, "inc_load")
    /\ reg' = [reg EXCEPT ![t] = recursion_depth]
    /\ Goto(t, "inc_store")
    /\ UNCHANGED <<recursion_depth, grace_period, loaded, calls>>

IncStore(t) ==
    /\ At(t, "inc_store")
    /\ recursion_depth' = reg[t] + 1
    /\ Goto(t, "check")
    /\ UNCHANGED <<grace_period, loaded, reg, calls>>

\* badMalloc != nullptr && badMalloc->shouldFail() ...
CheckLoaded(t) ==
    /\ At(t, "check")
    /\ Goto(t, IF loaded THEN "grace_load" ELSE "dec_load")
    /\ UNCHANGED <<recursion_depth, grace_period, loaded, reg, calls>>

\* Mutant: the grace period also lets through the call that finds it at 0.
GraceLoadOffByOne(t) ==
    /\ At(t, "grace_load")
    /\ reg' = [reg EXCEPT ![t] = grace_period]
    /\ Goto(t, IF grace_period >= 0 THEN "grace_store" ELSE "depth_check")
    /\ UNCHANGED <<recursion_depth, grace_period, loaded, calls>>

\* shouldFail: if (grace_period > 0) { grace_period--; return false; }
GraceLoad(t) ==
    /\ At(t, "grace_load")
    /\ reg' = [reg EXCEPT ![t] = grace_period]
    /\ Goto(t, IF grace_period > 0 THEN "grace_store" ELSE "depth_check")
    /\ UNCHANGED <<recursion_depth, grace_period, loaded, calls>>

GraceStore(t) ==
    /\ At(t, "grace_store")
    /\ grace_period' = reg[t] - 1
    /\ Goto(t, "dec_load")
    /\ UNCHANGED <<recursion_depth, loaded, reg, calls>>

\* Mutant: the recursion guard lets a call at depth 2 fail.
DepthCheckOffByOne(t) ==
    /\ At(t, "depth_check")
    /\ \/ recursion_depth > 2 /\ Goto(t, "dec_load")
       \/ recursion_depth <= 2
          /\ \E fail \in BOOLEAN :
                stack' = [stack EXCEPT ![t][Len(stack[t])] =
                            [pc |-> IF fail THEN "report" ELSE "dec_load",
                             fail |-> fail]]
    /\ UNCHANGED <<recursion_depth, grace_period, loaded, reg, calls>>

\* shouldFail: no failure when called recursively, else the bernoulli draw.
DepthCheck(t) ==
    /\ At(t, "depth_check")
    /\ \/ recursion_depth > 1 /\ Goto(t, "dec_load")
       \/ recursion_depth <= 1
          /\ \E fail \in BOOLEAN :
                stack' = [stack EXCEPT ![t][Len(stack[t])] =
                            [pc |-> IF fail THEN "report" ELSE "dec_load",
                             fail |-> fail]]
    /\ UNCHANGED <<recursion_depth, grace_period, loaded, reg, calls>>

\* fprintf and print_backtrace_to_file allocate: a nested call.
ReportAllocates(t) ==
    /\ At(t, "report") /\ Len(stack[t]) < MaxNesting
    /\ stack' = [stack EXCEPT ![t] = Append(@, [pc |-> "inc_load", fail |-> FALSE])]
    /\ UNCHANGED <<recursion_depth, grace_period, loaded, reg, calls>>

\* Mutant: the failure path returns nullptr without recursion_depth--.
ReportNoDecrement(t) ==
    /\ At(t, "report")
    /\ stack' = [stack EXCEPT ![t] = Front(@)]
    /\ UNCHANGED <<recursion_depth, grace_period, loaded, reg, calls>>

\* The report is written; recursion_depth-- and return nullptr follow.
Report(t) ==
    /\ At(t, "report")
    /\ Goto(t, "dec_load")
    /\ UNCHANGED <<recursion_depth, grace_period, loaded, reg, calls>>

\* recursion_depth--, then return nullptr or real_malloc(size).
DecLoad(t) ==
    /\ At(t, "dec_load")
    /\ reg' = [reg EXCEPT ![t] = recursion_depth]
    /\ Goto(t, "dec_store")
    /\ UNCHANGED <<recursion_depth, grace_period, loaded, calls>>

DecStore(t) ==
    /\ At(t, "dec_store")
    /\ recursion_depth' = reg[t] - 1
    /\ stack' = [stack EXCEPT ![t] = Front(@)]
    /\ UNCHANGED <<grace_period, loaded, reg, calls>>

\* Every call has returned and no more are made.
Finished ==
    /\ calls = MaxCalls /\ \A t \in Threads : stack[t] = <<>>
    /\ UNCHANGED vars

Step(t) ==
    \/ Call(t) \/ IncLoad(t) \/ IncStore(t) \/ CheckLoaded(t)
    \/ GraceLoad(t) \/ GraceStore(t) \/ DepthCheck(t)
    \/ ReportAllocates(t) \/ Report(t) \/ DecLoad(t) \/ DecStore(t)

Next == InitAllocHooks \/ (\E t \in Threads : Step(t)) \/ Finished

Spec == Init /\ [][Next]_vars
-----------------------------------------------------------------------------
PCs == {"inc_load", "inc_store", "check", "grace_load", "grace_store",
        "depth_check", "report", "dec_load", "dec_store"}

TypeOK ==
    /\ recursion_depth \in Int
    /\ grace_period \in 0..GRACE
    /\ loaded \in BOOLEAN
    /\ \A t \in Threads :
          /\ stack[t] \in Seq([pc : PCs, fail : BOOLEAN])
          /\ Len(stack[t]) <= MaxNesting
    /\ calls \in 0..MaxCalls

\* The calls of t that have stored their increment and not yet their
\* decrement.
Counted(t) ==
    Len(SelectSeq(stack[t], LAMBDA f : f.pc \notin {"inc_load", "inc_store"}))

(***************************************************************************)
(* recursion_depth counts the calls currently inside malloc or realloc,    *)
(* over every thread: each increment is undone by exactly one decrement,   *)
(* on the failure path as on the success path.                             *)
(***************************************************************************)
RecursionDepthCounts == recursion_depth = MapThenSumSet(Counted, Threads)

(***************************************************************************)
(* A call made while its thread is reporting a failure, which is what the  *)
(* recursion guard is for, never fails.                                    *)
(***************************************************************************)
NestedCallsNeverFail ==
    \A t \in Threads : \A i \in DOMAIN stack[t] : i > 1 => ~stack[t][i].fail
====
