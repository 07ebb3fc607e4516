--------------------------- MODULE SubdocExecutor ---------------------------
(***************************************************************************)
(* The single-path sub-document executor of memcached                     *)
(* (src/daemon/subdocument.cc: subdoc_executor, subdoc_fetch,             *)
(* subdoc_operate, subdoc_update, subdoc_response) running on several     *)
(* connections against one key of a storage engine, while other clients  *)
(* overwrite or delete that key.                                          *)
(*                                                                         *)
(* Each connection is a record holding the Connection fields the executor *)
(* uses (item, aiostat, cas, the SubdocCmdContext) and the locals of the  *)
(* current invocation of subdoc_executor (ret, attempts).  An engine call *)
(* (get, allocate, store) is one atomic step; the executor's local work   *)
(* between two engine calls is one step.  EWOULDBLOCK parks the command   *)
(* until the engine notifies it; the executor is then entered again from  *)
(* the top, as the code does.                                             *)
(*                                                                         *)
(* Document contents are abstracted to their CAS: an item records the CAS *)
(* of the document it was derived from (base) and the connection that     *)
(* wrote it (writer), which is what the properties need.                  *)
(***************************************************************************)
EXTENDS Naturals

CONSTANTS
    Conns,             \* connections issuing sub-document commands
    Commands,          \* sub-document opcodes the clients send
    ClientCas,         \* CAS values a request may carry (0 = none)
    Datatypes,         \* datatype flags other clients may store
    SubdocErrors,      \* errors the JSON library (subjson) may return
    NotifyStatus,      \* statuses the engine passes to notify_io_complete
    Faults,            \* engine results that suspend or drop the command
    MAXIMUM_ATTEMPTS,  \* auto-retry bound of subdoc_executor (100 in the code)
    MaxCommands,       \* bound: commands per connection
    MaxExternalWrites, \* bound: writes and deletes by other clients
    FaultBudget,       \* bound: engine faults injected per command
    NULL

ASSUME Faults \subseteq {"EWOULDBLOCK", "DISCONNECT"}
ASSUME MAXIMUM_ATTEMPTS \in Nat \ {0}

VARIABLES
    doc,        \* the engine's item stored under the key
    nextCas,    \* the engine's CAS counter
    extWrites,  \* writes done so far by other clients
    conn        \* conn[c]: connection c and its executor invocation

vars == <<doc, nextCas, extWrites, conn>>

Statuses == {"SUCCESS", "KEY_EEXISTS", "KEY_ENOENT", "NOT_STORED", "ENOMEM",
             "TMPFAIL", "EINTERNAL", "E2BIG", "SUBDOC_DOC_NOTJSON",
             "SUBDOC_PATH_ENOENT", "SUBDOC_PATH_MISMATCH", "SUBDOC_DOC_E2DEEP",
             "SUBDOC_PATH_EINVAL", "SUBDOC_PATH_EEXISTS", "SUBDOC_PATH_E2BIG",
             "SUBDOC_NUM_ERANGE", "SUBDOC_DELTA_ERANGE",
             "SUBDOC_VALUE_CANTINSERT", "SUBDOC_VALUE_ETOODEEP"}

PCs == {"idle", "entry", "fetch", "operate", "update", "store", "blocked",
        "done", "closing", "closed"}

(***************************************************************************)
(* cmd_traits<>: the lookups are the only non-mutators.                   *)
(***************************************************************************)
IsMutator(op) == op \notin {"SUBDOC_GET", "SUBDOC_EXISTS"}

IsCompressed(dt) == dt \in {"COMPRESSED", "COMPRESSED_JSON"}

\* The payloads a client may store with datatype dt: a compressed datatype
\* may be set on bytes that are not snappy.
Encodings(dt) == IF IsCompressed(dt) THEN {"plain", "snappy"} ELSE {"plain"}

Item == [exists : BOOLEAN, cas : Nat, datatype : Datatypes \cup {"JSON"},
         enc : {"plain", "snappy"}, base : Nat, writer : Conns \cup {NULL}]

Context == [in_doc : BOOLEAN, in_cas : Nat, out : Item \cup {NULL}]

(***************************************************************************)
(* The subjson error codes subdoc_operate maps to protocol statuses; any   *)
(* other error becomes EINTERNAL.                                          *)
(***************************************************************************)
SubdocStatus ==
    [PATH_ENOENT      |-> "SUBDOC_PATH_ENOENT",
     PATH_MISMATCH    |-> "SUBDOC_PATH_MISMATCH",
     DOC_ETOODEEP     |-> "SUBDOC_DOC_E2DEEP",
     PATH_EINVAL      |-> "SUBDOC_PATH_EINVAL",
     DOC_EEXISTS      |-> "SUBDOC_PATH_EEXISTS",
     PATH_E2BIG       |-> "SUBDOC_PATH_E2BIG",
     NUM_E2BIG        |-> "SUBDOC_NUM_ERANGE",
     DELTA_E2BIG      |-> "SUBDOC_DELTA_ERANGE",
     VALUE_CANTINSERT |-> "SUBDOC_VALUE_CANTINSERT",
     VALUE_ETOODEEP   |-> "SUBDOC_VALUE_ETOODEEP"]

OpStatus(e) == IF e \in DOMAIN SubdocStatus THEN SubdocStatus[e] ELSE "EINTERNAL"

(***************************************************************************)
(* get_document_for_searching: the statuses obtaining a flat JSON buffer   *)
(* from item it can end in.  get_item_info may fail, or give more than one *)
(* iovec (EINTERNAL), before anything else is looked at.  A client CAS that differs from the item's is  *)
(* refused before the datatype is looked at.  A COMPRESSED_JSON item is    *)
(* inflated into the connection's dynamic buffer, which may fail to grow   *)
(* (E2BIG); bytes that are not snappy fail to inflate (EINTERNAL).         *)
(***************************************************************************)
\* Mutant: the client CAS is not compared with the item's.
MaterializeNoCasCheck(it, ccas) ==
    {"EINTERNAL"} \cup
    CASE it.datatype = "JSON"            -> {"SUCCESS"}
      [] it.datatype = "COMPRESSED_JSON" ->
             IF it.enc = "snappy" THEN {"SUCCESS", "E2BIG"}
                                  ELSE {"EINTERNAL", "E2BIG"}
      [] OTHER                           -> {"SUBDOC_DOC_NOTJSON"}

Materialize(it, ccas) ==
    {"EINTERNAL"} \cup
    IF ccas # 0 /\ ccas # it.cas THEN {"KEY_EEXISTS"}
    ELSE CASE it.datatype = "JSON"            -> {"SUCCESS"}
           [] it.datatype = "COMPRESSED_JSON" ->
                  IF it.enc = "snappy" THEN {"SUCCESS", "E2BIG"}
                                       ELSE {"EINTERNAL", "E2BIG"}
           [] OTHER                           -> {"SUBDOC_DOC_NOTJSON"}

(***************************************************************************)
(* The item subdoc_update allocates for the new document: datatype JSON,   *)
(* uncompressed, its CAS set by item_set_cas to the CAS of the input       *)
(* document in_cas so that the REPLACE only succeeds on that version.      *)
(***************************************************************************)
\* Mutant: the item_set_cas call is missing, so out_doc keeps CAS 0.
NewDocNoCas(c, in, in_cas) ==
    [exists |-> TRUE, cas |-> 0, datatype |-> "JSON", enc |-> "plain",
     base |-> in_cas, writer |-> c]

NewDoc(c, in, in_cas) ==
    [exists |-> TRUE, cas |-> in_cas, datatype |-> "JSON", enc |-> "plain",
     base |-> in_cas, writer |-> c]

NewContext == [in_doc |-> FALSE, in_cas |-> 0, out |-> NULL]

(***************************************************************************)
(* Engine results (the engine interface of spec section 1).  Faults are    *)
(* injected at most FaultBudget times per command.                         *)
(***************************************************************************)
EngineFaults(cn) == IF cn.faults < FaultBudget THEN Faults ELSE {}

EngineGet(cn) ==
    (IF doc.exists THEN {"SUCCESS"} ELSE {"KEY_ENOENT"}) \cup EngineFaults(cn)

EngineAllocate(cn) == {"SUCCESS", "ENOMEM"} \cup EngineFaults(cn)

\* store(OPERATION_REPLACE) of item it: a non-zero item CAS must match.
EngineStore(cn, it) ==
    (CASE ~doc.exists                      -> {"NOT_STORED"}
       [] it.cas # 0 /\ it.cas # doc.cas   -> {"KEY_EEXISTS"}
       [] OTHER                            -> {"SUCCESS"})
    \cup EngineFaults(cn)

(***************************************************************************)
(* Transformers of a connection record.                                    *)
(***************************************************************************)
\* write_bin_packet(c, st): the executor returns and the response is sent.
Reply(cn, st) ==
    [cn EXCEPT !.pc = "done",
               !.resp = [status |-> st,
                         cas |-> IF st = "SUCCESS" THEN cn.cas ELSE 0]]

\* Mutant: setEwouldblock(true) is missing, so the connection goes on to
\* read its next request and the suspended command is never resumed.
FaultNoEwouldblock(cn, r) ==
    [cn EXCEPT !.pc = IF r = "EWOULDBLOCK" THEN "idle" ELSE "closing",
               !.faults = @ + 1]

\* An engine call returned EWOULDBLOCK (setEwouldblock) or DISCONNECT
\* (conn_closing); the executor returns without a response.
Fault(cn, r) ==
    [cn EXCEPT !.pc = IF r = "EWOULDBLOCK" THEN "blocked" ELSE "closing",
               !.faults = @ + 1]

Released(cn) ==
    (IF cn.item # NULL THEN 1 ELSE 0)
    + (IF cn.ctx # NULL /\ cn.ctx.out # NULL THEN 1 ELSE 0)

\* Mutant: c->item is released but the context is dropped without
\* releasing out_doc.
ReleaseItemOnly(cn) ==
    [cn EXCEPT !.item = NULL, !.ctx = NULL,
               !.held = @ - (IF cn.item # NULL THEN 1 ELSE 0)]

\* Release c->item and destroy the command context, whose destructor
\* releases out_doc.
ReleaseAll(cn) ==
    [cn EXCEPT !.item = NULL, !.ctx = NULL, !.held = @ - Released(cn)]

(***************************************************************************)
(* subdoc_executor after step 3: what it does with the result r of         *)
(* subdoc_update.  KEY_EEXISTS with auto-retry (client CAS 0) releases the *)
(* fetched item, resets the command context (whose destructor releases    *)
(* out_doc) and loops while attempts < MAXIMUM_ATTEMPTS, then TMPFAIL.     *)
(* Success updates the stats and sends subdoc_response.                    *)
(***************************************************************************)
\* Mutant: the retry loop does not reset ret to ENGINE_SUCCESS.
AfterUpdateKeepRet(cn, r) ==
    CASE r = "KEY_EEXISTS" /\ cn.ccas = 0 ->
            LET rc == [ReleaseAll(cn) EXCEPT !.ret = r, !.retries = @ + 1]
            IN IF rc.attempts < MAXIMUM_ATTEMPTS
               THEN [rc EXCEPT !.pc = "fetch"]
               ELSE Reply(rc, "TMPFAIL")
      [] r = "KEY_EEXISTS" -> Reply([cn EXCEPT !.ret = r], "KEY_EEXISTS")
      [] OTHER             -> Reply([cn EXCEPT !.ret = r], "SUCCESS")

\* Mutant: the retry loop continues without releasing c->item and
\* resetting the command context.
AfterUpdateNoReset(cn, r) ==
    CASE r = "KEY_EEXISTS" /\ cn.ccas = 0 ->
            LET rc == [cn EXCEPT !.ret = "SUCCESS", !.retries = @ + 1]
            IN IF rc.attempts < MAXIMUM_ATTEMPTS
               THEN [rc EXCEPT !.pc = "fetch"]
               ELSE Reply(rc, "TMPFAIL")
      [] r = "KEY_EEXISTS" -> Reply([cn EXCEPT !.ret = r], "KEY_EEXISTS")
      [] OTHER             -> Reply([cn EXCEPT !.ret = r], "SUCCESS")

\* Mutant: the loop condition lets one attempt more than MAXIMUM_ATTEMPTS.
AfterUpdateOffByOne(cn, r) ==
    CASE r = "KEY_EEXISTS" /\ cn.ccas = 0 ->
            LET rc == [ReleaseAll(cn) EXCEPT !.ret = "SUCCESS",
                                             !.retries = @ + 1]
            IN IF rc.attempts <= MAXIMUM_ATTEMPTS
               THEN [rc EXCEPT !.pc = "fetch"]
               ELSE Reply(rc, "TMPFAIL")
      [] r = "KEY_EEXISTS" -> Reply([cn EXCEPT !.ret = r], "KEY_EEXISTS")
      [] OTHER             -> Reply([cn EXCEPT !.ret = r], "SUCCESS")

AfterUpdate(cn, r) ==
    CASE r = "KEY_EEXISTS" /\ cn.ccas = 0 ->
            LET rc == [ReleaseAll(cn) EXCEPT !.ret = "SUCCESS",
                                             !.retries = @ + 1]
            IN IF rc.attempts < MAXIMUM_ATTEMPTS
               THEN [rc EXCEPT !.pc = "fetch"]
               ELSE Reply(rc, "TMPFAIL")
      [] r = "KEY_EEXISTS" -> Reply([cn EXCEPT !.ret = r], "KEY_EEXISTS")
      [] OTHER             -> Reply([cn EXCEPT !.ret = r], "SUCCESS")

\* Mutant: a lookup leaves c->cas as it was.
LookupDoneStaleCas(cn) == AfterUpdate(cn, "SUCCESS")

\* subdoc_update of a lookup: the response CAS is the input document's.
LookupDone(cn) == AfterUpdate([cn EXCEPT !.cas = cn.ctx.in_cas], "SUCCESS")

-----------------------------------------------------------------------------
IdleConn ==
    [pc |-> "idle", op |-> NULL, ccas |-> 0, ret |-> "SUCCESS",
     attempts |-> 0, aiostat |-> "SUCCESS", item |-> NULL, ctx |-> NULL,
     cas |-> 0, resp |-> NULL, held |-> 0, ncmds |-> 0, faults |-> 0,
     retries |-> 0, start |-> 0]

Init ==
    /\ \E dt \in Datatypes : \E enc \in Encodings(dt) :
          doc = [exists |-> TRUE, cas |-> 1, datatype |-> dt, enc |-> enc,
                 base |-> 0, writer |-> NULL]
    /\ nextCas = 2
    /\ extWrites = 0
    /\ conn = [c \in Conns |-> IdleConn]

\* A request that passed its validator reaches the executor.
NewCommand(c) ==
    /\ conn[c].pc = "idle"
    /\ conn[c].ncmds < MaxCommands
    /\ \E op \in Commands, cc \in ClientCas :
          conn' = [conn EXCEPT ![c] =
                     [@ EXCEPT !.pc = "entry", !.op = op, !.ccas = cc,
                               !.aiostat = "SUCCESS", !.resp = NULL,
                               !.ncmds = @ + 1, !.faults = 0,
                               !.retries = 0, !.start = nextCas]]
    /\ UNCHANGED <<doc, nextCas, extWrites>>

\* Top of subdoc_executor: ret takes the status the engine notified with.
Entry(c) ==
    /\ conn[c].pc = "entry"
    /\ conn' = [conn EXCEPT ![c] =
                  [@ EXCEPT !.ret = conn[c].aiostat, !.aiostat = "SUCCESS",
                            !.attempts = 0, !.pc = "fetch"]]
    /\ UNCHANGED <<doc, nextCas, extWrites>>

\* attempts++ and subdoc_fetch: get the item unless one is already held.
Fetch(c) ==
    LET cn == [conn[c] EXCEPT !.attempts = @ + 1] IN
    /\ conn[c].pc = "fetch"
    /\ \/ /\ cn.item # NULL
          /\ conn' = [conn EXCEPT ![c] = [cn EXCEPT !.pc = "operate"]]
       \/ /\ cn.item = NULL
          /\ \E r \in IF cn.ret = "SUCCESS" THEN EngineGet(cn) ELSE {cn.ret} :
               conn' = [conn EXCEPT ![c] =
                 CASE r = "SUCCESS" ->
                        [cn EXCEPT !.item = doc, !.ctx = NewContext,
                                   !.held = @ + 1, !.pc = "operate"]
                   [] r \in Faults -> Fault(cn, r)
                   [] OTHER        -> Reply(cn, r)]
    /\ UNCHANGED <<doc, nextCas, extWrites>>

\* subdoc_operate: materialize the document and run the path operation,
\* unless a previous invocation already did.
Operate(c) ==
    LET cn == conn[c] IN
    /\ cn.pc = "operate"
    /\ \/ /\ cn.ctx.in_doc
          /\ conn' = [conn EXCEPT ![c].pc = "update"]
       \/ /\ ~cn.ctx.in_doc
          /\ \E st \in Materialize(cn.item, cn.ccas),
                e \in {"SUCCESS"} \cup SubdocErrors :
               conn' = [conn EXCEPT ![c] =
                 CASE st # "SUCCESS" -> Reply(cn, st)
                   [] e # "SUCCESS"  -> Reply(cn, OpStatus(e))
                   [] OTHER ->
                        [cn EXCEPT !.ctx.in_doc = TRUE,
                                   !.ctx.in_cas = cn.item.cas,
                                   !.pc = "update"]]
    /\ UNCHANGED <<doc, nextCas, extWrites>>

\* subdoc_update up to the store: lookups only take the input CAS for the
\* response; mutations allocate the new item unless one is already held.
\* The allocated item is kept in the context at once, so when get_item_info
\* then fails (EINTERNAL) the context still releases it.
Update(c) ==
    LET cn == conn[c] IN
    /\ cn.pc = "update"
    /\ \/ /\ ~IsMutator(cn.op)
          /\ conn' = [conn EXCEPT ![c] =
                        LookupDone(cn)]
       \/ /\ IsMutator(cn.op)
          /\ cn.ctx.out # NULL
          /\ conn' = [conn EXCEPT ![c].pc = "store"]
       \/ /\ IsMutator(cn.op)
          /\ cn.ctx.out = NULL
          /\ \E r \in IF cn.ret = "SUCCESS" THEN EngineAllocate(cn) ELSE {cn.ret},
                info_ok \in BOOLEAN :
               conn' = [conn EXCEPT ![c] =
                 CASE r = "SUCCESS" ->
                        LET ca == [cn EXCEPT !.ctx.out = NewDoc(c, cn.item, cn.ctx.in_cas),
                                             !.held = @ + 1]
                        IN IF info_ok THEN [ca EXCEPT !.pc = "store"]
                                      ELSE Reply(ca, "EINTERNAL")
                   [] r \in Faults -> Fault(cn, r)
                   [] OTHER        -> Reply(cn, r)]
    /\ UNCHANGED <<doc, nextCas, extWrites>>

\* The REPLACE of out_doc, and what subdoc_executor does with its result.
Store(c) ==
    LET cn  == conn[c]
        out == conn[c].ctx.out
    IN
    /\ cn.pc = "store"
    /\ \E r \in EngineStore(cn, out) :
          /\ conn' = [conn EXCEPT ![c] =
               CASE r = "SUCCESS"     -> AfterUpdate([cn EXCEPT !.cas = nextCas], r)
                 [] r = "KEY_EEXISTS" -> AfterUpdate(cn, r)
                 [] r \in Faults      -> Fault(cn, r)
                 [] OTHER             -> Reply(cn, r)]
          /\ IF r = "SUCCESS"
             THEN /\ doc' = [out EXCEPT !.cas = nextCas]
                  /\ nextCas' = nextCas + 1
             ELSE UNCHANGED <<doc, nextCas>>
    /\ UNCHANGED extWrites

\* The engine completes a parked call and notifies the connection.
Notify(c) ==
    /\ conn[c].pc = "blocked"
    /\ \E s \in NotifyStatus :
          conn' = [conn EXCEPT ![c] = [@ EXCEPT !.aiostat = s, !.pc = "entry"]]
    /\ UNCHANGED <<doc, nextCas, extWrites>>

\* The response is written; preparing for the next command releases
\* c->item and destroys the command context, which releases out_doc.
\* The executor's locals and the request die with the command.
Complete(c) ==
    /\ conn[c].pc = "done"
    /\ conn' = [conn EXCEPT ![c] =
                  [ReleaseAll(conn[c]) EXCEPT
                      !.pc = "idle", !.op = NULL, !.ccas = 0, !.ret = "SUCCESS",
                      !.attempts = 0, !.resp = NULL, !.faults = 0]]
    /\ UNCHANGED <<doc, nextCas, extWrites>>

\* conn_closing: the connection is torn down, releasing what it holds.
Close(c) ==
    /\ conn[c].pc = "closing"
    /\ conn' = [conn EXCEPT ![c] =
                  [ReleaseAll(conn[c]) EXCEPT !.pc = "closed"]]
    /\ UNCHANGED <<doc, nextCas, extWrites>>

\* Another client stores the key (SET) with any datatype and payload.
ExternalWrite ==
    /\ extWrites < MaxExternalWrites
    /\ \E dt \in Datatypes : \E enc \in Encodings(dt) :
          doc' = [exists |-> TRUE, cas |-> nextCas, datatype |-> dt,
                  enc |-> enc, base |-> 0, writer |-> NULL]
    /\ nextCas' = nextCas + 1
    /\ extWrites' = extWrites + 1
    /\ UNCHANGED conn

\* Another client deletes the key.
ExternalDelete ==
    /\ extWrites < MaxExternalWrites
    /\ doc.exists
    /\ doc' = [doc EXCEPT !.exists = FALSE]
    /\ extWrites' = extWrites + 1
    /\ UNCHANGED <<nextCas, conn>>

\* Every connection has finished its commands.
Terminated ==
    /\ \A c \in Conns : \/ conn[c].pc = "closed"
                        \/ conn[c].pc = "idle" /\ conn[c].ncmds = MaxCommands
    /\ UNCHANGED vars

Next ==
    \/ \E c \in Conns :
          \/ NewCommand(c) \/ Entry(c) \/ Fetch(c) \/ Operate(c)
          \/ Update(c) \/ Store(c) \/ Notify(c) \/ Complete(c) \/ Close(c)
    \/ ExternalWrite
    \/ ExternalDelete
    \/ Terminated

Spec == Init /\ [][Next]_vars

\* The worker thread runs a connection whenever it has work, and the engine
\* calls notify_io_complete for every EWOULDBLOCK it returned.  Clients
\* (NewCommand) and other writers are not obliged to act.
Worker(c) ==
    Entry(c) \/ Fetch(c) \/ Operate(c) \/ Update(c) \/ Store(c) \/ Complete(c)
    \/ Close(c)

FairSpec ==
    /\ Spec
    /\ \A c \in Conns : WF_vars(Worker(c)) /\ WF_vars(Notify(c))

-----------------------------------------------------------------------------
TypeOK ==
    /\ doc \in Item
    /\ nextCas \in Nat \ {0, 1}
    /\ extWrites \in 0..MaxExternalWrites
    /\ \A c \in Conns :
         LET cn == conn[c] IN
         /\ cn.pc \in PCs
         /\ cn.op \in Commands \cup {NULL}
         /\ cn.ccas \in ClientCas
         /\ cn.ret \in Statuses \cup Faults \cup NotifyStatus
         /\ cn.aiostat \in NotifyStatus \cup {"SUCCESS"}
         /\ cn.attempts \in 0..MAXIMUM_ATTEMPTS
         /\ cn.item \in Item \cup {NULL}
         /\ cn.ctx \in Context \cup {NULL}
         /\ cn.resp \in [status : Statuses \cup NotifyStatus, cas : Nat] \cup {NULL}
         /\ cn.held \in Nat
         /\ cn.retries \in Nat

(***************************************************************************)
(* No lost update.  A sub-document mutation stores its new document only   *)
(* over the very version it was derived from: a step in which connection c *)
(* replaces the document replaces the version whose CAS is the base of c's *)
(* new document.  This is what item_set_cas(in_cas) before the REPLACE in  *)
(* subdoc_update buys against concurrent writers.                          *)
(***************************************************************************)
NoLostUpdate ==
    [][\A c \in Conns :
          (doc'.writer = c /\ doc'.cas # doc.cas)
             => doc.exists /\ doc'.base = doc.cas]_doc

(***************************************************************************)
(* A client CAS is honoured: a mutation sent with a non-zero CAS X only    *)
(* ever replaces the document whose CAS is X, however the fetched item and *)
(* concurrent writers interleave (get_document_for_searching's check plus  *)
(* the CAS of out_doc).                                                    *)
(***************************************************************************)
ClientCasHonoured ==
    [][\A c \in Conns :
          (doc'.writer = c /\ doc'.cas # doc.cas /\ conn[c].ccas # 0)
             => doc.cas = conn[c].ccas]_<<doc, conn>>

(***************************************************************************)
(* Auto-retry hides conflicts: a command sent without a CAS never answers  *)
(* KEY_EEXISTS; a conflicting concurrent write is retried or, after        *)
(* MAXIMUM_ATTEMPTS, answered TMPFAIL (subdoc_executor's retry loop).      *)
(***************************************************************************)
NoConflictWithoutCas ==
    \A c \in Conns :
        (conn[c].resp # NULL /\ conn[c].ccas = 0)
            => conn[c].resp.status # "KEY_EEXISTS"

(***************************************************************************)
(* Every auto-retry was forced by a distinct write to the document during  *)
(* the command: the number of KEY_EEXISTS retries never exceeds the number *)
(* of writes since the command arrived.  A retry that reuses a stale item  *)
(* or context fails on its own and breaks this.                            *)
(***************************************************************************)
RetriesAreCausedByWrites ==
    \A c \in Conns : conn[c].retries <= nextCas - conn[c].start

(***************************************************************************)
(* The CAS in a successful response identifies a version of the document:  *)
(* for a lookup the version it read (c->item), for a mutation the version  *)
(* it created, which is newer than the one it read.  A CAS left over from  *)
(* an earlier command on the connection breaks this.                       *)
(***************************************************************************)
ResponseCasIsVersion ==
    \A c \in Conns :
        LET cn == conn[c] IN
        (cn.pc = "done" /\ cn.resp.status = "SUCCESS")
            => IF IsMutator(cn.op) THEN cn.resp.cas > cn.item.cas
                                   ELSE cn.resp.cas = cn.item.cas

(***************************************************************************)
(* No item leaks: on every path, including EWOULDBLOCK re-entry, retries,  *)
(* errors and disconnects, the items connection c has checked out of the  *)
(* engine are exactly c->item and the context's out_doc.                   *)
(***************************************************************************)
NoItemLeak ==
    \A c \in Conns : conn[c].held = Released(conn[c])

(***************************************************************************)
(* Every command that reaches the executor is eventually answered or its   *)
(* connection closed: EWOULDBLOCK suspensions are resumed, the auto-retry  *)
(* loop ends, and no path returns from subdoc_executor without a response, *)
(* a suspension or conn_closing.                                           *)
(***************************************************************************)
CommandAnswered ==
    \A c \in Conns :
        (conn[c].pc = "entry") ~> (conn[c].resp # NULL \/ conn[c].pc = "closed")

(***************************************************************************)
(* The auto-retry bound as spec section 4.5 states it: a command is        *)
(* retried after KEY_EEXISTS at most MAXIMUM_ATTEMPTS times in all.        *)
(***************************************************************************)
RetryBounded ==
    \A c \in Conns : conn[c].retries <= MAXIMUM_ATTEMPTS
=============================================================================
