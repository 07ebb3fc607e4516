--------------------------- MODULE MC_ConfigReload ---------------------------
EXTENDS ConfigReload, TLC

\* The values a file may give each setting; "" is the empty string.
Values == [admin |-> {"", "a1"}, ssl_cipher_list |-> {"", "c1"},
           threads |-> {4, 8}, verbosity |-> {0, 1}]

\* The keys whose files are combined pairwise.
CoreKeys == {"admin", "ssl_cipher_list", "threads", "verbosity"}

Entries == UNION {{[key |-> k, value |-> v] : v \in Values[k] \cup {BAD}} :
                    k \in CoreKeys}
           \cup {[key |-> "unknown", value |-> 0]}

\* The order of keys in a two-entry file: one order per pair of keys, so
\* that strings parsed before a failing entry are always possible.
Rank == [admin |-> 1, ssl_cipher_list |-> 2, threads |-> 3, verbosity |-> 4,
         unknown |-> 5]

\* Files of up to two entries, each key at most once.
DistinctKeyFiles ==
    {[readable |-> TRUE, entries |-> es] :
        es \in {es \in SeqOf(Entries, 2) :
                  Len(es) = 2 => Rank[es[1].key] < Rank[es[2].key]}}
    \cup {[readable |-> FALSE, entries |-> <<>>]}

\* Files of up to two entries, a key possibly repeated.
RepeatedKeyFiles ==
    {[readable |-> TRUE, entries |-> es] : es \in SeqOf(Entries, 2)}

(***************************************************************************)
(* Interfaces.  One interface on port 11210, whose host, maxconn,         *)
(* tcp_nodelay, backlog and certificates change between files, and the    *)
(* values each handle_interface check refuses.                            *)
(***************************************************************************)
MCExistingFiles == {"k1", "c1", "k2", "c2", "r1", "r2"}

MCSslProtocols == {"tlsv1", "tlsv1.1", "tlsv1.2"}

M(k, v) == [key |-> k, value |-> v]

SSL1 == [key |-> "k1", cert |-> "c1"]
SSL2 == [key |-> "k2", cert |-> "c2"]
NoSSL == [key |-> NULL, cert |-> NULL]

Iface(host, maxconn, nodelay, ssl) ==
    <<M("host", host), M("port", 11210), M("maxconn", maxconn),
      M("tcp_nodelay", nodelay), M("ssl", ssl)>>

Base == <<Iface("h1", 1, TRUE, SSL1)>>

IfaceValues ==
    { Base,
      <<Iface("h1", 2, FALSE, SSL2) \o <<M("backlog", 512), M("protocol", "memcached")>>>>,
      <<Iface("h2", 1, TRUE, SSL1)>>,
      <<Iface("h1", 1, TRUE, NoSSL)>>,
      <<Iface("h1", 1, TRUE, [key |-> "k1", cert |-> NULL])>>,
      <<Iface("h1", 1, TRUE, [key |-> "k3", cert |-> "c1"])>>,
      <<Iface("h1", 1, TRUE, SSL1) \o <<M("ipv4", FALSE), M("ipv6", FALSE)>>>>,
      <<Iface("h1", 1, TRUE, SSL1) \o <<M("protocol", "bogus")>>>>,
      <<<<M("port", 11210), M("maxconn", 1)>>>>,
      <<<<M("host", "h1"), M("port", 70000)>>>>,
      <<<<M("host", "h1"), M("port", 11210)>>, <<M("host", "h1"), M("port", 11210)>>>>,
      <<BAD>>,
      BAD }

\* A file giving interfaces, alone or with a verbosity change.
IfaceFiles ==
    {[readable |-> TRUE, entries |-> <<M("interfaces", v)>>] : v \in IfaceValues}
    \cup
    {[readable |-> TRUE, entries |-> <<M("interfaces", v), M("verbosity", 1)>>] :
        v \in IfaceValues}

(***************************************************************************)
(* The other string settings: a value, a changed value, a refused one     *)
(* (a missing rbac file, an unknown protocol) and BAD; each alone, with a  *)
(* dynamic change, and before an entry that fails, so that the string is  *)
(* parsed and the parse then abandoned.                                    *)
(***************************************************************************)
ExtraValues == [rbac_file |-> {"r1", "r2", "r9"},
                ssl_minimum_protocol |-> {"tlsv1.2", "tlsv1", "sslv2"},
                sasl_mechanisms |-> {"PLAIN", "SCRAM"},
                audit_file |-> {"r1", "r9"},
                root |-> {"r2", "r9"}]

ExtraEntries == UNION {{M(k, v) : v \in ExtraValues[k] \cup {BAD}} :
                         k \in DOMAIN ExtraValues}

ExtraFiles ==
    {[readable |-> TRUE, entries |-> es] :
        es \in UNION {{<<e>>, <<e, M("verbosity", 1)>>, <<e, M("threads", BAD)>>} :
                        e \in ExtraEntries}}

(***************************************************************************)
(* Breakpad objects: enabled with one of two directories, disabled, each  *)
(* check parse_breakpad makes (enabled without a directory, a content     *)
(* other than "default", a non-boolean enabled, an unknown member) and a  *)
(* value that is not an object; each member at most once.                 *)
(***************************************************************************)
BreakpadValues ==
    {<<>>,
     <<M("enabled", TRUE), M("minidump_dir", "d1")>>,
     <<M("enabled", TRUE), M("minidump_dir", "d2"), M("content", "default")>>,
     <<M("enabled", FALSE), M("minidump_dir", "d1")>>,
     <<M("enabled", TRUE)>>,
     <<M("minidump_dir", "d1"), M("content", "bogus")>>,
     <<M("minidump_dir", "d1"), M("enabled", BAD)>>,
     <<M("minidump_dir", "d1"), M("unknown", 0)>>,
     BAD}

BreakpadFiles ==
    {[readable |-> TRUE, entries |-> es] :
        es \in UNION {{<<M("breakpad", v)>>, <<M("breakpad", v), M("verbosity", 1)>>} :
                        v \in BreakpadValues}}

(***************************************************************************)
(* Extensions: none, one with a module and a config, the module or the    *)
(* config changed, the config left out, the module left out, an unknown   *)
(* member, a module of the wrong type, an element that is not an object,  *)
(* and a value that is not an array (which counts as none).               *)
(***************************************************************************)
ExtensionValues ==
    {<<>>,
     <<<<M("module", "e1"), M("config", "x")>>>>,
     <<<<M("module", "e2"), M("config", "x")>>>>,
     <<<<M("module", "e1"), M("config", "y")>>>>,
     <<<<M("module", "e1")>>>>,
     <<<<M("config", "x")>>>>,
     <<<<M("module", "e1"), M("unknown", 0)>>>>,
     <<<<M("module", BAD)>>>>,
     <<BAD>>,
     BAD}

ExtensionFiles ==
    {[readable |-> TRUE, entries |-> es] :
        es \in UNION {{<<M("extensions", v)>>, <<M("extensions", v), M("verbosity", 1)>>} :
                        v \in ExtensionValues}}

(***************************************************************************)
(* Integer and boolean settings: one value other than the zero default   *)
(* (4096 MiB for max_packet_size, which wraps to 0) or BAD, alone or with *)
(* a verbosity change; and the obsolete "engine", of any value.           *)
(***************************************************************************)
ScalarValue(k) ==
    CASE k = "max_packet_size" -> 4096
      [] k \in BoolScalars     -> TRUE
      [] OTHER                 -> 2

ScalarFiles ==
    {[readable |-> TRUE, entries |-> es] :
        es \in UNION {{<<e>>, <<e, M("verbosity", 1)>>} :
                        e \in UNION {{M(k, ScalarValue(k)), M(k, BAD)} : k \in ScalarKeys}
                              \cup {M("engine", BAD)}}}

(***************************************************************************)
(* The server starts with no setting; with the static strings, threads   *)
(* and a few scalars changed and every other string, breakpad and an      *)
(* extension set; with one interface (any reload without interfaces then  *)
(* crashes, see MC_ConfigCrash); with admin disabled, an unknown key and  *)
(* an extension without a module; or it exits: an unreadable file, or a  *)
(* bad value after a string was parsed.                                    *)
(***************************************************************************)
StartConfigs ==
    {<<>>,
     <<M("admin", "a1"), M("ssl_cipher_list", "c1"), M("threads", 8),
       M("rbac_file", "r1"), M("sasl_mechanisms", "PLAIN"),
       M("ssl_minimum_protocol", "tlsv1.2"),
       M("breakpad", <<M("enabled", TRUE), M("minidump_dir", "d1")>>),
       M("extensions", <<<<M("module", "e1"), M("config", "x")>>>>),
       M("audit_file", "r1"), M("root", "r2"), M("max_packet_size", 1),
       M("require_init", TRUE), M("rbac_privilege_debug", TRUE),
       M("default_reqs_per_event", 2)>>,
     <<M("interfaces", Base)>>,
     <<M("admin", ""), M("unknown", 0), M("verbosity", 1),
       M("extensions", <<<<M("config", "x")>>>>)>>,
     <<M("admin", "a1"), M("threads", BAD)>>}

StartFilesMC ==
    {[readable |-> TRUE, entries |-> es] : es \in StartConfigs}
    \cup {[readable |-> FALSE, entries |-> <<>>]}

ReloadFiles == DistinctKeyFiles \cup IfaceFiles \cup ExtraFiles \cup BreakpadFiles
               \cup ExtensionFiles \cup ScalarFiles

\* A server started with one interface, and a reload file without one.
CrashFiles ==
    {[readable |-> TRUE, entries |-> <<M("interfaces", Base)>>],
     [readable |-> TRUE, entries |-> <<M("verbosity", 1)>>]}
====
