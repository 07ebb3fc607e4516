---------------------------- MODULE ConfigReload ----------------------------
(***************************************************************************)
(* Loading and reloading of the JSON configuration file                    *)
(* (src/daemon/config_parse.cc), modelled for the ownership of the strings *)
(* the settings point to and for the two phases of a reload: every         *)
(* handler's dynamic_validate first, then, only if all pass, every         *)
(* dynamic_reconfig.                                                       *)
(*                                                                         *)
(* The settings stand for the kinds of handler:                           *)
(*   admin, rbac_file   static strings (cb_strdup'ed),                     *)
(*   ssl_cipher_list, ssl_minimum_protocol                                 *)
(*                      dynamic strings whose pointer is handed over,      *)
(*   sasl_mechanisms    a string that may not change,                      *)
(*   threads            a static integer,                                  *)
(*   verbosity          a dynamic integer,                                 *)
(*   breakpad           an object, its minidump_dir copied on reconfig,    *)
(*   extensions, interfaces                                                *)
(*                      cb_calloc'ed arrays of structs owning strings.     *)
(* Strings live in buffers of an abstract heap; cb_free of a buffer that   *)
(* is already freed is a double free, which aborts the process.  Freed     *)
(* buffers are never handed out again, so a dangling pointer stays visible.*)
(*                                                                         *)
(* Each public function (load_config_file, validate_proposed_config_changes*)
(* and reload_config_file) is one step: they run on one thread, and the    *)
(* intermediate new_settings is private to the call.                       *)
(***************************************************************************)
EXTENDS Naturals, Sequences, SequencesExt, FiniteSets

CONSTANTS
    Files,          \* the configuration files the operator may write
    StartFiles,     \* the files the server may be started with
    BAD,            \* a JSON value of the wrong type for its key
    DEFAULT_THREADS,\* settings.num_threads before the file is read
    MaxBufs,        \* bound: buffers the heap can hand out
    MaxOps,         \* bound: reloads and validations after start-up
    ExistingFiles,  \* the paths stat() finds (ssl key and certificate files)
    SslProtocols,   \* the names decode_ssl_protocol accepts (not in this tree)
    NULL

VARIABLES
    phase,    \* "init", "running" or "exited" (load_config_file failed)
    heap,     \* heap[b]: "unused", "live" or "freed"
    val,      \* val[b]: the string held by buffer b
    settings, \* the global struct settings
    fault,    \* "none"; "double_free" once cb_free hit a freed buffer,
              \* "segv" once a NULL pointer was dereferenced
    listening,\* listening[i]: the listening port of interface i, its
              \* maxconns and the TCP_NODELAY of its sockets
    ops,      \* reloads and validations so far
    reloaded  \* history: the file the last step reloaded, NULL if that
              \* step was not a reload

vars == <<phase, heap, val, settings, fault, listening, ops, reloaded>>

\* The program's state, without the history variable: the VIEW under which
\* TLC tells states apart.
ProgramState == <<phase, heap, val, settings, fault, listening, ops>>

Bufs == 1..MaxBufs

\* The integer and boolean settings other than threads and verbosity, held
\* in the function sc of the settings struct.
IntScalars == {"default_reqs_per_event", "reqs_per_event_high_priority",
               "reqs_per_event_med_priority", "reqs_per_event_low_priority",
               "connection_idle_time", "bio_drain_buffer_sz", "max_packet_size"}
BoolScalars == {"rbac_privilege_debug", "require_init", "require_sasl",
                "datatype_support", "stdin_listen", "exit_on_connection_close",
                "dedupe_nmvb_maps"}
ScalarKeys == IntScalars \cup BoolScalars

Keys == {"admin", "ssl_cipher_list", "threads", "verbosity", "interfaces",
         "rbac_file", "ssl_minimum_protocol", "sasl_mechanisms", "breakpad",
         "extensions", "engine", "audit_file", "root"} \cup ScalarKeys

\* A zeroed struct settings: what {0} gives new_settings.  interfaces is the
\* cb_calloc'ed array and ifaces its elements (num_interfaces is their count),
\* pending_extensions and exts likewise.
ZeroSettings ==
    [admin |-> NULL, ssl_cipher_list |-> NULL, config |-> NULL,
     interfaces |-> NULL, ifaces |-> <<>>, rbac_file |-> NULL,
     audit_file |-> NULL, root |-> NULL,
     sc |-> [k \in ScalarKeys |-> IF k \in BoolScalars THEN FALSE ELSE 0],
     pending_extensions |-> NULL, exts |-> <<>>,
     ssl_minimum_protocol |-> NULL, sasl_mechanisms |-> NULL,
     breakpad |-> [enabled |-> FALSE, minidump_dir |-> NULL, content |-> "default"],
     num_threads |-> 0, verbose |-> 0, has |-> {}]

\* A zeroed struct interface, as cb_calloc leaves it.
ZeroIface ==
    [host |-> NULL, port |-> 0, maxconn |-> 0, backlog |-> 0,
     tcp_nodelay |-> FALSE, ipv4 |-> FALSE, ipv6 |-> FALSE,
     management |-> FALSE, key |-> NULL, cert |-> NULL]

(***************************************************************************)
(* The heap, as seen by one call: m is [heap, val, fault, s], s being the  *)
(* settings struct the call fills in.                                      *)
(***************************************************************************)
NewBuf(h) == CHOOSE b \in Bufs : h[b] = "unused"

\* An allocation holding v: [m, p], p the new buffer.
Alloc(m, v) ==
    LET b == NewBuf(m.heap) IN
    [m |-> [m EXCEPT !.heap[b] = "live", !.val[b] = v], p |-> b]

\* cb_strdup of v into a fresh buffer, stored in field f of m.s.
StrdupInto(m, f, v) ==
    LET a == Alloc(m, v) IN [a.m EXCEPT !.s[f] = a.p]

\* cb_free(p).
CbFree(m, p) ==
    IF p = NULL THEN m
    ELSE IF m.heap[p] = "live" THEN [m EXCEPT !.heap[p] = "freed"]
    ELSE [m EXCEPT !.fault = "double_free"]

\* get_admin: strdup the value, free the old one, an empty string disables.
GetAdmin(m, v) ==
    LET old == m.s.admin
        m1  == CbFree(StrdupInto(m, "admin", v), old)
    IN IF v = "" THEN [CbFree(m1, m1.s.admin) EXCEPT !.s.admin = NULL]
                 ELSE m1

\* get_ssl_cipher_list: strdup the value over the old pointer.
GetSslCipherList(m, v) ==
    LET m1 == StrdupInto(m, "ssl_cipher_list", v) IN
    IF v = "" THEN [CbFree(m1, m1.s.ssl_cipher_list)
                      EXCEPT !.s.ssl_cipher_list = NULL]
              ELSE m1

\* get_ssl_minimum_protocol: as get_ssl_cipher_list.
GetSslMinimumProtocol(m, v) ==
    LET m1 == StrdupInto(m, "ssl_minimum_protocol", v) IN
    IF v = "" THEN [CbFree(m1, m1.s.ssl_minimum_protocol)
                      EXCEPT !.s.ssl_minimum_protocol = NULL]
              ELSE m1

\* get_file_value (the path must exist), then get_absolute_file's cb_strdup
\* into field f over the old pointer.
GetFileInto(m, f, v) ==
    IF v \in ExistingFiles THEN [ok |-> TRUE, m |-> StrdupInto(m, f, v)]
    ELSE [ok |-> FALSE, m |-> m]

\* get_rbac_file, get_audit_file and get_root.
GetRbacFile(m, v)  == GetFileInto(m, "rbac_file", v)
GetAuditFile(m, v) == GetFileInto(m, "audit_file", v)
GetRoot(m, v)      == GetFileInto(m, "root", v)

Ok(m)   == [ok |-> TRUE, m |-> m]
Fail(m) == [ok |-> FALSE, m |-> m]

(***************************************************************************)
(* Interfaces.  The JSON value of "interfaces" is a sequence of objects,   *)
(* each a sequence of [key, value] members in file order; a value of the  *)
(* wrong type is BAD.  An ssl value is [key, cert], NULL for an absent    *)
(* member ("ssl": false and {} do the same), or BAD.  Paths are absolute, *)
(* so get_absolute_file is a cb_strdup.                                   *)
(***************************************************************************)
\* Field f of interface idx of m.s.
SetIface(m, idx, f, x) == [m EXCEPT !.s.ifaces[idx][f] = x]

\* get_int_value: a JSON integer, or a string safe_strtol reads.
GetIntValue(v) == v # BAD

\* get_bool_value: JSON true or false.
GetBoolValue(v) == v # BAD

\* get_in_port_value: an integer in [0, 65535].
GetInPortValue(v) == GetIntValue(v) /\ 0 <= v /\ v <= 65535

\* get_absolute_file into member f of interface idx: a cb_strdup of the path.
GetAbsoluteFile(m, idx, f, path) ==
    LET a == Alloc(m, path) IN SetIface(a.m, idx, f, a.p)

\* get_interface_host: get_string_value's cb_strdup; no earlier host is freed.
GetInterfaceHost(m, idx, v) ==
    IF v = BAD THEN Fail(m)
    ELSE LET a == Alloc(m, v) IN Ok(SetIface(a.m, idx, "host", a.p))

\* get_interface_protocol: the string is cb_strdup'ed, compared, cb_freed.
GetInterfaceProtocol(m, v) ==
    IF v = BAD THEN Fail(m)
    ELSE LET a == Alloc(m, v) IN
         [ok |-> v \in {"memcached", "greenstack"}, m |-> CbFree(a.m, a.p)]

\* get_interface_ssl: both members must name a file stat() finds; key and
\* cert are then strdup'ed together, one alone is refused.
GetInterfaceSsl(m, idx, v) ==
    CASE v = BAD -> Fail(m)
      [] \E f \in {"key", "cert"} : v[f] # NULL /\ v[f] \notin ExistingFiles ->
            Fail(m)
      [] v.key # NULL /\ v.cert # NULL ->
            Ok(GetAbsoluteFile(GetAbsoluteFile(m, idx, "key", v.key),
                               idx, "cert", v.cert))
      [] OTHER -> [ok |-> v.key = NULL /\ v.cert = NULL, m |-> m]

\* The handlers[] of handle_interface, for member a of interface idx.  An
\* unknown member formats an error message into *error_msg and goes on;
\* parse_JSON_config later overwrites the pointer, so the message leaks.
HandleIfaceMember(m, idx, a) ==
    LET k == a.key
        v == a.value
    IN
    CASE k \in {"maxconn", "backlog"} ->
            IF GetIntValue(v) THEN Ok(SetIface(m, idx, k, v)) ELSE Fail(m)
      [] k = "port" ->
            IF GetInPortValue(v) THEN Ok(SetIface(m, idx, k, v)) ELSE Fail(m)
      [] k \in {"ipv4", "ipv6", "tcp_nodelay", "management"} ->
            IF GetBoolValue(v) THEN Ok(SetIface(m, idx, k, v)) ELSE Fail(m)
      [] k = "host"     -> GetInterfaceHost(m, idx, v)
      [] k = "protocol" -> GetInterfaceProtocol(m, v)
      [] k = "ssl"      -> GetInterfaceSsl(m, idx, v)
      [] OTHER          -> Ok(Alloc(m, "error_msg").m)

\* The member loop of handle_interface: stops at the first failing handler.
HandleIfaceMembers(m, idx, as) ==
    FoldLeft(LAMBDA r, a : IF r.ok THEN HandleIfaceMember(r.m, idx, a) ELSE r,
             Ok(m), as)

\* The checks after the member loop, on its result r.
CheckInterface(r, idx) ==
    LET i == r.m.s.ifaces[idx] IN
    IF ~r.ok THEN r
    ELSE [ok |-> /\ i.ipv4 \/ i.ipv6
                 /\ \A j \in 1..idx - 1 :
                       r.m.s.ifaces[j].port # i.port \/ i.port = 0,
          m |-> r.m]

\* handle_interface: defaults, the members, then the checks that need them
\* all: one of IPv4 and IPv6, and a port no earlier interface uses.
HandleInterface(m, idx, obj) ==
    LET m1 == [m EXCEPT !.s.ifaces[idx] =
                  [@ EXCEPT !.backlog = 1024, !.ipv4 = TRUE, !.ipv6 = TRUE,
                            !.tcp_nodelay = TRUE, !.management = FALSE]]
    IN
    IF obj = BAD THEN Fail(m1)
    ELSE CheckInterface(HandleIfaceMembers(m1, idx, obj), idx)

\* The loop of get_interfaces: stops at the first interface that fails.
HandleInterfaces(m, objs) ==
    FoldLeftDomain(LAMBDA r, idx :
                      IF r.ok THEN HandleInterface(r.m, idx, objs[idx]) ELSE r,
                   Ok(m), objs)

\* get_interfaces: cb_calloc one struct per child of the value (a value
\* that is not an array has none), then handle_interface on each.
GetInterfaces(m, v) ==
    LET objs == IF v = BAD THEN <<>> ELSE v
        a    == Alloc(m, "interfaces")
    IN HandleInterfaces([a.m EXCEPT !.s.interfaces = a.p,
                                    !.s.ifaces = [i \in 1..Len(objs) |-> ZeroIface]],
                        objs)

(***************************************************************************)
(* Extensions.  The value of "extensions" is a sequence of objects, each a *)
(* sequence of [key, value] members; pending_extensions is the cb_calloc'ed*)
(* array and exts its elements [soname, config].                          *)
(***************************************************************************)
\* One member of get_extension's loop: module and config are
\* get_string_value'd over the old pointer, anything else fails.
ExtensionMember(r, idx, a) ==
    CASE ~r.ok -> r
      [] a.key \in {"module", "config"} /\ a.value # BAD ->
            LET x == Alloc(r.m, a.value)
                f == IF a.key = "module" THEN "soname" ELSE "config"
            IN Ok([x.m EXCEPT !.s.exts[idx][f] = x.p])
      [] OTHER -> Fail(r.m)

\* get_extension: an object, whose members are read until one fails.
GetExtension(m, idx, obj) ==
    IF obj = BAD THEN Fail(m)
    ELSE FoldLeft(LAMBDA r, a : ExtensionMember(r, idx, a), Ok(m), obj)

\* get_extensions: cb_calloc one struct per child of the value, then
\* get_extension on each until one fails.
GetExtensions(m, v) ==
    LET objs == IF v = BAD THEN <<>> ELSE v
        a    == Alloc(m, "pending_extensions")
        m1   == [a.m EXCEPT !.s.pending_extensions = a.p,
                            !.s.exts = [i \in 1..Len(objs) |->
                                          [soname |-> NULL, config |-> NULL]]]
    IN FoldLeftDomain(LAMBDA r, idx :
                         IF r.ok THEN GetExtension(r.m, idx, objs[idx]) ELSE r,
                      Ok(m1), objs)

(***************************************************************************)
(* The integer and boolean handlers: get_int_value or get_bool_value into  *)
(* the field; the has flag is set by Handle.                               *)
(***************************************************************************)
GetIntInto(m, k, v)  == IF GetIntValue(v) THEN Ok([m EXCEPT !.s.sc[k] = v]) ELSE Fail(m)
GetBoolInto(m, k, v) == IF GetBoolValue(v) THEN Ok([m EXCEPT !.s.sc[k] = v]) ELSE Fail(m)

GetDefaultReqsPerEvent(m, v)      == GetIntInto(m, "default_reqs_per_event", v)
GetReqsPerEventHighPriority(m, v) == GetIntInto(m, "reqs_per_event_high_priority", v)
GetReqsPerEventMedPriority(m, v)  == GetIntInto(m, "reqs_per_event_med_priority", v)
GetReqsPerEventLowPriority(m, v)  == GetIntInto(m, "reqs_per_event_low_priority", v)

\* get_connection_idle_time and get_bio_drain_sz: (size_t) of the int, the
\* same number for the non-negative values the model gives.
GetConnectionIdleTime(m, v) == GetIntInto(m, "connection_idle_time", v)
GetBioDrainSz(m, v)         == GetIntInto(m, "bio_drain_buffer_sz", v)

\* (uint32_t)max_packet_size * 1024 * 1024, in MiB: the product wraps every
\* 2^32 / 2^20 = 4096 MiB.
MaxPacketSizeMiB(v) == v % 4096

\* get_max_packet_size.
GetMaxPacketSize(m, v) ==
    IF GetIntValue(v) THEN Ok([m EXCEPT !.s.sc.max_packet_size = MaxPacketSizeMiB(v)])
    ELSE Fail(m)

GetRbacPrivilegeDebug(m, v)    == GetBoolInto(m, "rbac_privilege_debug", v)
GetRequireInit(m, v)           == GetBoolInto(m, "require_init", v)
GetRequireSasl(m, v)           == GetBoolInto(m, "require_sasl", v)
GetDatatype(m, v)              == GetBoolInto(m, "datatype_support", v)
GetStdinListen(m, v)           == GetBoolInto(m, "stdin_listen", v)
GetExitOnConnectionClose(m, v) == GetBoolInto(m, "exit_on_connection_close", v)
GetDedupeNmvbMaps(m, v)        == GetBoolInto(m, "dedupe_nmvb_maps", v)

\* get_threads and get_verbosity: get_int_value into num_threads or verbose.
GetThreads(m, v) ==
    IF GetIntValue(v) THEN Ok([m EXCEPT !.s.num_threads = v]) ELSE Fail(m)
GetVerbosity(m, v) ==
    IF GetIntValue(v) THEN Ok([m EXCEPT !.s.verbose = v]) ELSE Fail(m)

\* get_sasl_mechanisms: get_string_value's cb_strdup; an earlier string is
\* not freed.
GetSaslMechanisms(m, v) ==
    IF v = BAD THEN Fail(m) ELSE Ok(StrdupInto(m, "sasl_mechanisms", v))

\* get_engine: the obsolete key is accepted and ignored.
GetEngine(m) == Ok(m)

(***************************************************************************)
(* parse_breakpad.  The members are read into locals [m, enabled, dir,     *)
(* cstr, error]; the loop stops at the first error.                       *)
(***************************************************************************)
BreakpadMember(l, a) ==
    LET Str(f) == IF a.value = BAD THEN [l EXCEPT !.error = TRUE]
                  ELSE LET x == Alloc(l.m, a.value) IN [l EXCEPT !.m = x.m, ![f] = x.p]
    IN
    CASE l.error               -> l
      [] a.key = "enabled"      ->
            IF GetBoolValue(a.value) THEN [l EXCEPT !.enabled = a.value]
            ELSE [l EXCEPT !.error = TRUE]
      [] a.key = "minidump_dir" -> Str("dir")
      [] a.key = "content"      -> Str("cstr")
      [] OTHER                  -> [l EXCEPT !.error = TRUE]

\* After the loop: an error, enabled without minidump_dir, or a content other
\* than "default" frees both strings and fails; else the content string is
\* freed and minidump_dir (cb_strdup("") if absent) is kept.
FinishBreakpad(l) ==
    LET m1 == CbFree(l.m, l.cstr) IN
    IF \/ l.error
       \/ l.enabled /\ l.dir = NULL
       \/ l.cstr # NULL /\ l.m.val[l.cstr] # "default"
    THEN Fail(CbFree(m1, l.dir))
    ELSE LET d == IF l.dir # NULL THEN [m |-> m1, p |-> l.dir] ELSE Alloc(m1, "") IN
         Ok([d.m EXCEPT !.s.breakpad = [enabled |-> l.enabled,
                                         minidump_dir |-> d.p,
                                         content |-> "default"]])

ParseBreakpad(m, v) ==
    IF v = BAD THEN Fail(m)
    ELSE FinishBreakpad(FoldLeft(BreakpadMember,
                                 [m |-> m, enabled |-> FALSE, dir |-> NULL,
                                  cstr |-> NULL, error |-> FALSE], v))

\* The config_handler of key k.
HandleKey(m, k, v) ==
    CASE k = "interfaces" -> GetInterfaces(m, v)
      [] k = "extensions" -> GetExtensions(m, v)
      [] k = "breakpad"   -> ParseBreakpad(m, v)
      [] k = "engine"          -> GetEngine(m)
      [] k = "rbac_privilege_debug" -> GetRbacPrivilegeDebug(m, v)
      [] k = "require_init"    -> GetRequireInit(m, v)
      [] k = "require_sasl"    -> GetRequireSasl(m, v)
      [] k = "default_reqs_per_event" -> GetDefaultReqsPerEvent(m, v)
      [] k = "reqs_per_event_high_priority" -> GetReqsPerEventHighPriority(m, v)
      [] k = "reqs_per_event_med_priority" -> GetReqsPerEventMedPriority(m, v)
      [] k = "reqs_per_event_low_priority" -> GetReqsPerEventLowPriority(m, v)
      [] k = "connection_idle_time" -> GetConnectionIdleTime(m, v)
      [] k = "bio_drain_buffer_sz" -> GetBioDrainSz(m, v)
      [] k = "datatype_support" -> GetDatatype(m, v)
      [] k = "max_packet_size" -> GetMaxPacketSize(m, v)
      [] k = "stdin_listen"    -> GetStdinListen(m, v)
      [] k = "exit_on_connection_close" -> GetExitOnConnectionClose(m, v)
      [] k = "dedupe_nmvb_maps" -> GetDedupeNmvbMaps(m, v)
      [] k = "threads"         -> GetThreads(m, v)
      [] k = "verbosity"       -> GetVerbosity(m, v)
      [] k = "sasl_mechanisms" -> GetSaslMechanisms(m, v)
      [] v = BAD -> Fail(m)
      [] k = "admin"           -> Ok(GetAdmin(m, v))
      [] k = "ssl_cipher_list" -> Ok(GetSslCipherList(m, v))
      [] k = "ssl_minimum_protocol" -> Ok(GetSslMinimumProtocol(m, v))
      [] k = "rbac_file"       -> GetRbacFile(m, v)
      [] k = "audit_file"      -> GetAuditFile(m, v)
      [] k = "root"            -> GetRoot(m, v)

\* Mutant: an unknown token is marked as given instead of being ignored.
HandleUnknownKey(m, e) ==
    IF e.key \notin Keys THEN Ok([m EXCEPT !.s.has = @ \cup {e.key}])
    ELSE LET r == HandleKey(m, e.key, e.value) IN
         IF r.ok THEN Ok([r.m EXCEPT !.s.has = @ \cup {e.key}]) ELSE r

\* The handler of one entry of the file: [ok, m] after it ran; an unknown
\* token is ignored, and a handler that succeeds sets its has flag.
Handle(m, e) ==
    IF e.key \notin Keys THEN Ok(m)
    ELSE LET r == HandleKey(m, e.key, e.value) IN
         IF r.ok THEN Ok([r.m EXCEPT !.s.has = @ \cup {e.key}]) ELSE r

\* The loop of parse_JSON_config: stops at the first handler that fails.
HandleEntries(m, es) ==
    FoldLeft(LAMBDA r, e : IF r.ok THEN Handle(r.m, e) ELSE r, Ok(m), es)

\* parse_config_file: config_load_file, then parse_JSON_config, whose first
\* act is to keep the printed JSON in s->config.
ParseConfigFile(m, f) ==
    IF ~f.readable THEN Fail(m)
    ELSE HandleEntries(StrdupInto(m, "config", "json"), f.entries)

\* The strings of one struct interface, in free_settings' order.
FreeIface(m, i) == CbFree(CbFree(CbFree(m, i.host), i.key), i.cert)

\* The strings of one struct extension_settings.
FreeExt(m, e) == CbFree(CbFree(m, e.soname), e.config)

\* Mutant: free_settings forgets the printed config.
FreeSettingsNoConfig(m) ==
    LET m1 == FoldLeft(FreeIface, CbFree(m, m.s.admin), m.s.ifaces)
        m2 == FoldLeft(FreeExt, CbFree(m1, m.s.interfaces), m.s.exts)
        m3 == CbFree(CbFree(CbFree(CbFree(m2, m.s.pending_extensions),
                                   m.s.rbac_file), m.s.root),
                     m.s.breakpad.minidump_dir)
    IN CbFree(CbFree(CbFree(CbFree(m3, m.s.ssl_cipher_list),
                            m.s.ssl_minimum_protocol), m.s.audit_file),
              m.s.sasl_mechanisms)

\* free_settings: cb_free of every string the struct owns, in code order.
FreeSettings(m) ==
    LET m1 == FoldLeft(FreeIface, CbFree(m, m.s.admin), m.s.ifaces)
        m2 == FoldLeft(FreeExt, CbFree(m1, m.s.interfaces), m.s.exts)
        m3 == CbFree(CbFree(CbFree(CbFree(CbFree(m2, m.s.pending_extensions),
                                          m.s.rbac_file), m.s.config), m.s.root),
                     m.s.breakpad.minidump_dir)
    IN CbFree(CbFree(CbFree(CbFree(m3, m.s.ssl_cipher_list),
                            m.s.ssl_minimum_protocol), m.s.audit_file),
              m.s.sasl_mechanisms)

\* The string a pointer of the running settings reads, "" for NULL.
Content(p) == IF p = NULL THEN "" ELSE val[p]

(***************************************************************************)
(* Validation: the dynamic_validate of every handler, comparing the new    *)
(* struct ns (whose strings are in m) with the running settings.  Static *)
(* settings refuse a change; ssl_minimum_protocol refuses a name it does  *)
(* not know.                                                               *)
(***************************************************************************)
\* The test of a static string: both set and strcmp-equal, or both NULL.
SameOrBothNull(m, p, q) ==
    \/ p # NULL /\ q # NULL /\ m.val[p] = m.val[q]
    \/ p = NULL /\ q = NULL

\* strcmp of two strings of m.
SameString(m, p, q) == m.val[p] = m.val[q]

\* dyna_validate_admin: unchanged, or both NULL.
DynaValidateAdmin(m, ns) ==
    "admin" \notin ns.has \/ SameOrBothNull(m, settings.admin, ns.admin)

\* dyna_validate_rbac_file: the same test.
DynaValidateRbacFile(m, ns) ==
    "rbac_file" \notin ns.has \/ SameOrBothNull(m, settings.rbac_file, ns.rbac_file)

\* dyna_validate_ssl_minimum_protocol: decode_ssl_protocol must accept it.
\* An empty value leaves NULL, which decode_ssl_protocol (not in this tree)
\* is taken to refuse.
DynaValidateSslMinimumProtocol(m, ns) ==
    \/ "ssl_minimum_protocol" \notin ns.has
    \/ /\ ns.ssl_minimum_protocol # NULL
       /\ m.val[ns.ssl_minimum_protocol] \in SslProtocols

\* dyna_reconfig_sasl_mechanisms (a validator despite its name): refused if
\* the server runs without sasl_mechanisms, else it must be strcmp-equal.
DynaValidateSaslMechanisms(m, ns) ==
    \/ "sasl_mechanisms" \notin ns.has
    \/ /\ settings.sasl_mechanisms # NULL
       /\ SameString(m, ns.sasl_mechanisms, settings.sasl_mechanisms)

\* dyna_validate_audit_file and dyna_validate_root: as rbac_file.
DynaValidateAuditFile(m, ns) ==
    "audit_file" \notin ns.has \/ SameOrBothNull(m, settings.audit_file, ns.audit_file)
DynaValidateRoot(m, ns) ==
    "root" \notin ns.has \/ SameOrBothNull(m, settings.root, ns.root)

\* The validator of a static integer or boolean: given, it must equal the
\* running value.
DynaValidateScalar(ns, k) == k \notin ns.has \/ ns.sc[k] = settings.sc[k]

DynaValidateRequireInit(ns)   == DynaValidateScalar(ns, "require_init")
DynaValidateRequireSasl(ns)   == DynaValidateScalar(ns, "require_sasl")
DynaValidateBioDrainSz(ns)    == DynaValidateScalar(ns, "bio_drain_buffer_sz")
DynaValidateDatatype(ns)      == DynaValidateScalar(ns, "datatype_support")
\* Compares the wrapped byte counts, so 0 and 4096 MiB are "unchanged".
DynaValidateMaxPacketSize(ns) == DynaValidateScalar(ns, "max_packet_size")
\* dyna_reconfig_stdin_listen and dyna_reconfig_exit_on_connection_close are
\* validators despite their names.
DynaValidateStdinListen(ns)   == DynaValidateScalar(ns, "stdin_listen")
DynaValidateExitOnConnectionClose(ns) ==
    DynaValidateScalar(ns, "exit_on_connection_close")

\* dyna_validate_threads: num_threads is not dynamic.
DynaValidateThreads(ns) ==
    "threads" \notin ns.has \/ ns.num_threads = settings.num_threads

\* dyna_reconfig_verbosity, on the running struct g.s.
DynaReconfigVerbosity(g, ns) ==
    IF "verbosity" \in ns.has /\ ns.verbose # g.s.verbose
    THEN [g EXCEPT !.s.verbose = ns.verbose] ELSE g

\* The reconfig of a dynamic integer: copied when given and different.
DynaReconfigScalar(g, ns, k) ==
    IF k \in ns.has /\ ns.sc[k] # g.s.sc[k]
    THEN [g EXCEPT !.s.sc[k] = ns.sc[k]] ELSE g

DynaReconfigDefaultReqsPerEvent(g, ns) ==
    DynaReconfigScalar(g, ns, "default_reqs_per_event")
DynaReconfigReqsPerEventHighPriority(g, ns) ==
    DynaReconfigScalar(g, ns, "reqs_per_event_high_priority")
DynaReconfigReqsPerEventMedPriority(g, ns) ==
    DynaReconfigScalar(g, ns, "reqs_per_event_med_priority")
DynaReconfigReqsPerEventLowPriority(g, ns) ==
    DynaReconfigScalar(g, ns, "reqs_per_event_low_priority")
DynaReconfigConnectionIdleTime(g, ns) ==
    DynaReconfigScalar(g, ns, "connection_idle_time")

\* The reconfig of a dynamic boolean: copied whenever given, and the running
\* has flag set.
DynaReconfigFlag(g, ns, k) ==
    IF k \in ns.has
    THEN [g EXCEPT !.s.sc[k] = ns.sc[k], !.s.has = @ \cup {k}] ELSE g

DynaReconfigRbacPrivilegeDebug(g, ns) == DynaReconfigFlag(g, ns, "rbac_privilege_debug")
DynaReconfigDedupeNmvbMaps(g, ns)     == DynaReconfigFlag(g, ns, "dedupe_nmvb_maps")

\* dyna_reconfig_ssl_cipher_list: frees the running list and takes over the
\* new struct's pointer.
DynaReconfigSslCipherList(g, ns) ==
    IF "ssl_cipher_list" \in ns.has
    THEN [CbFree(g, g.s.ssl_cipher_list)
            EXCEPT !.s.ssl_cipher_list = ns.ssl_cipher_list,
                   !.s.has = @ \cup {"ssl_cipher_list"}]
    ELSE g

\* The process dies of SIGSEGV.
Segv(g) == [g EXCEPT !.fault = "segv"]

\* dyna_reconfig_breakpad: enabled and content are copied; a different
\* minidump_dir is cb_strdup'ed into the running settings and the old one
\* freed.  The strcmp reads the running minidump_dir, NULL in a server
\* started without "breakpad".
DynaReconfigBreakpad(g, ns) ==
    LET cur == g.s.breakpad.minidump_dir
        new == ns.breakpad
    IN
    CASE "breakpad" \notin ns.has -> g
      [] cur = NULL               -> Segv(g)
      [] SameString(g, new.minidump_dir, cur) ->
            [g EXCEPT !.s.breakpad.enabled = new.enabled]
      [] OTHER ->
            LET a == Alloc(g, g.val[new.minidump_dir]) IN
            [CbFree(a.m, cur) EXCEPT !.s.breakpad.enabled = new.enabled,
                                     !.s.breakpad.minidump_dir = a.p]

\* dyna_reconfig_ssl_minimum_protocol: as dyna_reconfig_ssl_cipher_list.
DynaReconfigSslMinimumProtocol(g, ns) ==
    IF "ssl_minimum_protocol" \in ns.has
    THEN [CbFree(g, g.s.ssl_minimum_protocol)
            EXCEPT !.s.ssl_minimum_protocol = ns.ssl_minimum_protocol,
                   !.s.has = @ \cup {"ssl_minimum_protocol"}]
    ELSE g

\* dyna_validate_interfaces: the number of interfaces, and host, port, IPv4
\* and IPv6 of each one with a fixed port on both sides, cannot change.
DynaValidateInterfaces(m, ns) ==
    LET cur == settings.ifaces
        new == ns.ifaces
    IN
    \/ "interfaces" \notin ns.has
    \/ /\ Len(new) = Len(cur)
       /\ \A i \in DOMAIN cur :
             \/ cur[i].port = 0 \/ new[i].port = 0
             \/ /\ SameString(m, new[i].host, cur[i].host)
                /\ new[i].port = cur[i].port
                /\ new[i].ipv4 = cur[i].ipv4 /\ new[i].ipv6 = cur[i].ipv6

\* The strcmp of dyna_validate_interfaces is handed a NULL host (an interface
\* without "host"): the process dies of SIGSEGV.
ValidateInterfacesSegv(ns) ==
    LET cur == settings.ifaces
        new == ns.ifaces
    IN
    /\ "interfaces" \in ns.has /\ Len(new) = Len(cur)
    /\ \E i \in DOMAIN cur :
          /\ cur[i].port # 0 /\ new[i].port # 0
          /\ NULL \in {new[i].host, cur[i].host}

\* dyna_validate_extensions: the same number of extensions, each with a
\* module strcmp-equal to the running one, and a config equal to the running
\* one unless the running one is NULL.
DynaValidateExtensions(m, ns) ==
    LET cur == settings.exts
        new == ns.exts
    IN
    \/ "extensions" \notin ns.has
    \/ /\ Len(new) = Len(cur)
       /\ \A i \in DOMAIN cur :
             /\ new[i].soname # NULL
             /\ SameString(m, new[i].soname, cur[i].soname)
             /\ \/ cur[i].config = NULL
                \/ /\ new[i].config # NULL
                   /\ SameString(m, new[i].config, cur[i].config)

\* The strcmp of dyna_validate_extensions is handed the NULL module of a
\* running extension that had none: the process dies of SIGSEGV.
ValidateExtensionsSegv(ns) ==
    LET cur == settings.exts
        new == ns.exts
    IN
    /\ "extensions" \in ns.has /\ Len(new) = Len(cur)
    /\ \E i \in DOMAIN cur : new[i].soname # NULL /\ cur[i].soname = NULL

\* Every validator runs (valid &= ...), so any strcmp of NULL is reached.
ValidateSegv(ns) == ValidateInterfacesSegv(ns) \/ ValidateExtensionsSegv(ns)

\* The validate loop: every handler's dynamic_validate, and'ed together.  The
\* validators of rbac_privilege_debug, engine, the reqs_per_event settings,
\* verbosity, connection_idle_time, ssl_cipher_list, breakpad and
\* dedupe_nmvb_maps return true.
DynaValidate(m, ns) ==
    /\ DynaValidateAdmin(m, ns) /\ DynaValidateRbacFile(m, ns)
    /\ DynaValidateThreads(ns) /\ DynaValidateInterfaces(m, ns)
    /\ DynaValidateExtensions(m, ns)
    /\ DynaValidateAuditFile(m, ns) /\ DynaValidateRoot(m, ns)
    /\ DynaValidateRequireInit(ns) /\ DynaValidateRequireSasl(ns)
    /\ DynaValidateBioDrainSz(ns) /\ DynaValidateDatatype(ns)
    /\ DynaValidateMaxPacketSize(ns) /\ DynaValidateStdinListen(ns)
    /\ DynaValidateExitOnConnectionClose(ns)
    /\ DynaValidateSslMinimumProtocol(m, ns) /\ DynaValidateSaslMechanisms(m, ns)

\* dyna_reconfig_iface_ssl for member f ("cert", then "key"): only an
\* interface that already has one is changed, by strcmp with the new one.
ReconfigIfaceSsl(g, i, new, f) ==
    LET cur == g.s.ifaces[i][f] IN
    CASE cur = NULL       -> g
      [] new[f] = NULL    -> Segv(g)
      [] SameString(g, new[f], cur) -> g
      [] OTHER ->
            LET a == Alloc(g, g.val[new[f]]) IN CbFree(SetIface(a.m, i, f, a.p), cur)

\* The four dyna_reconfig_iface_* handlers on interface i.  g.l[i] is the
\* listening port of the interface: its maxconns, and TCP_NODELAY on its
\* sockets, which setsockopt sets only if sockok.
ReconfigIface(g, ns, i, sockok) ==
    LET new == ns.ifaces[i]
        cur == g.s.ifaces[i]
        g1 == IF new.maxconn # cur.maxconn
              THEN [g EXCEPT !.s.ifaces[i].maxconn = new.maxconn,
                             !.l[i].maxconns = new.maxconn]
              ELSE g
        g2 == IF new.backlog # cur.backlog
              THEN SetIface(g1, i, "backlog", new.backlog) ELSE g1
        g3 == IF new.tcp_nodelay # cur.tcp_nodelay
              THEN [g2 EXCEPT !.s.ifaces[i].tcp_nodelay = new.tcp_nodelay,
                              !.l[i].nodelay = IF sockok THEN new.tcp_nodelay
                                                         ELSE @]
              ELSE g2
        g4 == ReconfigIfaceSsl(g3, i, new, "cert")
    IN
    CASE new.port = 0       -> g
      [] g4.fault = "segv"  -> g4
      [] OTHER              -> ReconfigIfaceSsl(g4, i, new, "key")

\* dyna_reconfig_interfaces: for every running interface, whether or not
\* the file gave "interfaces"; without it new_settings->interfaces is NULL.
DynaReconfigInterfaces(g, ns, sockok) ==
    IF g.s.ifaces # <<>> /\ ns.interfaces = NULL THEN Segv(g)
    ELSE FoldLeftDomain(LAMBDA acc, i :
                          IF acc.fault = "segv" THEN acc
                          ELSE ReconfigIface(acc, ns, i, sockok),
                        g, g.s.ifaces)

\* The reconfig handlers after interfaces, in handlers[] order.
DynaReconfigAfterInterfaces(g, ns) ==
    LET g1 == DynaReconfigReqsPerEventLowPriority(
                DynaReconfigReqsPerEventMedPriority(
                  DynaReconfigReqsPerEventHighPriority(
                    DynaReconfigDefaultReqsPerEvent(g, ns), ns), ns), ns)
        g2 == DynaReconfigConnectionIdleTime(DynaReconfigVerbosity(g1, ns), ns)
        g3 == DynaReconfigBreakpad(DynaReconfigSslMinimumProtocol(
                DynaReconfigSslCipherList(g2, ns), ns), ns)
    IN DynaReconfigDedupeNmvbMaps(g3, ns)

\* The reconfig loop in handlers[] order: rbac_privilege_debug, interfaces,
\* then the rest.
DynaReconfig(g, ns, sockok) ==
    LET g1 == DynaReconfigInterfaces(DynaReconfigRbacPrivilegeDebug(g, ns), ns, sockok) IN
    IF g1.fault = "segv" THEN g1 ELSE DynaReconfigAfterInterfaces(g1, ns)

\* Mutant: each handler's change is applied as soon as it validates, so a
\* later refusal leaves the earlier changes in place.
ApplyReloadInterleaved(g, ns, sockok) ==
    LET g1 == DynaReconfigVerbosity(g, ns) IN
    CASE ValidateSegv(ns) -> Segv(g)
      [] DynaValidate(g, ns) ->
            LET g2 == DynaReconfigInterfaces(DynaReconfigRbacPrivilegeDebug(g1, ns),
                                             ns, sockok)
            IN IF g2.fault = "segv" THEN g2 ELSE DynaReconfigAfterInterfaces(g2, ns)
      [] OTHER -> g1

\* The validate loop of reload_config_file, then, if every handler agreed,
\* the reconfig loop.
ApplyReload(g, ns, sockok) ==
    CASE ValidateSegv(ns)   -> Segv(g)
      [] DynaValidate(g, ns) -> DynaReconfig(g, ns, sockok)
      [] OTHER               -> g

-----------------------------------------------------------------------------
\* The heap with the running settings, and with a zeroed new_settings.
Machine == [heap |-> heap, val |-> val, fault |-> fault, s |-> settings,
            l |-> listening]
Fresh   == [Machine EXCEPT !.s = ZeroSettings]

\* Buffers a parse of f may allocate, and the certificates and keys a
\* reconfig of its interfaces may copy.
EntryAllocs(e) ==
    IF e.key = "breakpad" /\ e.value # BAD THEN 1 + Len(e.value)
    ELSE IF e.key = "extensions" /\ e.value # BAD
    THEN 1 + FoldSeq(LAMBDA o, n : n + IF o = BAD THEN 0 ELSE Len(o), 0, e.value)
    ELSE IF e.key = "interfaces" /\ e.value # BAD
    THEN 1 + FoldSeq(LAMBDA o, n : n + 2 + IF o = BAD THEN 0 ELSE 2 * Len(o),
                     0, e.value)
    ELSE 1

HasRoom(f) ==
    Cardinality({b \in Bufs : heap[b] = "unused"})
        > FoldSeq(LAMBDA e, n : n + EntryAllocs(e), 0, f.entries)

\* Commit the heap of m and the running settings rs.
Commit(m, rs) ==
    /\ heap' = m.heap /\ val' = m.val /\ fault' = m.fault
    /\ settings' = rs /\ listening' = m.l

\* The process died of SIGSEGV: nothing after it happens.
Crash ==
    /\ fault' = "segv"
    /\ UNCHANGED <<heap, val, settings, listening>>

\* The listening ports the server opens for the interfaces of s.
Listen(s) ==
    [i \in DOMAIN s.ifaces |->
        [maxconns |-> s.ifaces[i].maxconn, nodelay |-> s.ifaces[i].tcp_nodelay]]

Init ==
    /\ phase = "init"
    /\ heap = [b \in Bufs |-> "unused"]
    /\ val = [b \in Bufs |-> ""]
    /\ settings = [ZeroSettings EXCEPT !.num_threads = DEFAULT_THREADS]
    /\ fault = "none"
    /\ listening = <<>>
    /\ ops = 0
    /\ reloaded = NULL

\* load_config_file: parse into the global settings; exit on failure.  The
\* server then opens a listening port per interface.
LoadConfigFile(f) ==
    LET r == ParseConfigFile(Machine, f) IN
    /\ phase = "init"
    /\ HasRoom(f)
    /\ phase' = IF r.ok THEN "running" ELSE "exited"
    /\ Commit([r.m EXCEPT !.l = Listen(r.m.s)], r.m.s)
    /\ UNCHANGED <<ops, reloaded>>

\* validate_proposed_config_changes: parse, validate and free; the running
\* settings are only read.  A file that is not JSON is refused at once.
ValidateProposedConfigChanges(f) ==
    LET r == ParseConfigFile(Fresh, f) IN
    /\ phase = "running" /\ fault = "none" /\ ops < MaxOps
    /\ HasRoom(f)
    /\ ops' = ops + 1
    /\ CASE ~f.readable -> UNCHANGED <<heap, val, fault, settings, listening>>
         [] r.ok /\ ValidateSegv(r.m.s) -> Crash
         [] OTHER -> Commit(FreeSettings(r.m), settings)
    /\ reloaded' = NULL
    /\ UNCHANGED phase

\* reload_config_file; sockok is whether setsockopt succeeds.
ReloadConfigFile(f) ==
    LET r  == ParseConfigFile(Fresh, f)
        ns == r.m.s
    IN
    /\ phase = "running" /\ fault = "none" /\ ops < MaxOps
    /\ HasRoom(f)
    /\ ops' = ops + 1
    /\ \E sockok \in BOOLEAN :
          LET g == ApplyReload([r.m EXCEPT !.s = settings], ns, sockok) IN
          CASE ~r.ok              -> Commit(FreeSettings(r.m), settings)
            [] g.fault = "segv"   -> Crash
            [] OTHER              -> Commit(FreeSettings([g EXCEPT !.s = ns]), g.s)
    /\ reloaded' = f
    /\ UNCHANGED phase

\* The process has exited or crashed, or the operator is done.
Halted ==
    /\ phase = "exited" \/ fault # "none" \/ ops = MaxOps
    /\ UNCHANGED vars

Next ==
    \/ \E f \in StartFiles : LoadConfigFile(f)
    \/ \E f \in Files : ValidateProposedConfigChanges(f)
    \/ \E f \in Files : ReloadConfigFile(f)
    \/ Halted

Spec == Init /\ [][Next]_vars
-----------------------------------------------------------------------------
Ptr == Bufs \cup {NULL}

TypeOK ==
    /\ phase \in {"init", "running", "exited"}
    /\ heap \in [Bufs -> {"unused", "live", "freed"}]
    /\ settings.admin \in Ptr /\ settings.ssl_cipher_list \in Ptr
    /\ settings.config \in Ptr /\ settings.interfaces \in Ptr
    /\ {settings.rbac_file, settings.ssl_minimum_protocol,
        settings.sasl_mechanisms, settings.breakpad.minidump_dir} \subseteq Ptr
    /\ \A i \in Range(settings.ifaces) :
          {i.host, i.key, i.cert} \subseteq Ptr
    /\ settings.pending_extensions \in Ptr
    /\ {settings.audit_file, settings.root} \subseteq Ptr
    /\ \A k \in IntScalars : settings.sc[k] \in Int
    /\ \A k \in BoolScalars : settings.sc[k] \in BOOLEAN
    /\ \A e \in Range(settings.exts) : {e.soname, e.config} \subseteq Ptr
    /\ settings.has \subseteq Keys
    /\ fault \in {"none", "double_free", "segv"}
    /\ listening \in Seq([maxconns : Int, nodelay : BOOLEAN])
    /\ ops \in 0..MaxOps
    /\ reloaded \in Files \cup {NULL}

\* The buffers the running settings point to.
Pointers(s) ==
    ({s.admin, s.ssl_cipher_list, s.config, s.interfaces, s.rbac_file,
      s.audit_file, s.root,
      s.ssl_minimum_protocol, s.sasl_mechanisms, s.breakpad.minidump_dir}
        \cup UNION {{i.host, i.key, i.cert} : i \in Range(s.ifaces)}
        \cup {s.pending_extensions}
        \cup UNION {{e.soname, e.config} : e \in Range(s.exts)})
    \ {NULL}

(***************************************************************************)
(* Every string buffer still allocated is owned by the running settings:  *)
(* load_config_file, a refused or failed reload, a validation and a        *)
(* successful reload each free what their parse allocated and the running *)
(* settings no longer use.                                                 *)
(***************************************************************************)
NoLeak ==
    phase = "running" => \A b \in Bufs : heap[b] = "live" => b \in Pointers(settings)

(***************************************************************************)
(* Every string the running settings point to is still allocated, so the  *)
(* server (and the next reload's cb_free) may use it.                      *)
(***************************************************************************)
NoDanglingSetting ==
    \A p \in Pointers(settings) : heap[p] = "live"

(***************************************************************************)
(* The server survives every reload and validation: none makes it         *)
(* dereference a NULL pointer (the interface handlers' strcmp and         *)
(* new_settings->interfaces) or cb_free a string twice.                   *)
(***************************************************************************)
NoCrash == fault = "none"

\* reload_config_file refuses f in the current state: its parse fails, or
\* a validator says no (and none of them dereferences NULL on the way).
Refused(f) ==
    LET r == ParseConfigFile(Fresh, f) IN
    ~r.ok \/ (~ValidateSegv(r.m.s) /\ ~DynaValidate(r.m, r.m.s))

(***************************************************************************)
(* reload_config_file validates every handler before it reconfigures any: *)
(* a reload whose parse fails or that some validator refuses leaves the    *)
(* running settings, the listening sockets and every string the settings  *)
(* point to exactly as they were, whatever the earlier handlers in         *)
(* handlers[] would have changed.                                         *)
(***************************************************************************)
RefusedReloadChangesNothing ==
    [][reloaded' # NULL /\ Refused(reloaded') =>
          /\ settings' = settings /\ listening' = listening
          /\ \A p \in Pointers(settings) : heap'[p] = heap[p] /\ val'[p] = val[p]]_vars
====
