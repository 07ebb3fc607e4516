------------------------- MODULE MC_SubdocExecutor -------------------------
(***************************************************************************)
(* Instantiation of SubdocExecutor for TLC: two connections, one lookup    *)
(* and one mutator opcode, client CAS 0 (auto-retry) or the initial CAS.   *)
(***************************************************************************)
EXTENDS SubdocExecutor, TLC

CONSTANTS c1, c2

MCConns == {c1, c2}
MCCommands == {"SUBDOC_GET", "SUBDOC_DICT_UPSERT"}
MCClientCas == {0, 1}
MCDatatypes == {"JSON", "COMPRESSED_JSON", "RAW"}
MCSubdocErrors == {"PATH_ENOENT"}
MCNotifyStatus == {"SUCCESS", "TMPFAIL"}
MCFaults == {"EWOULDBLOCK", "DISCONNECT"}

\* The connections are interchangeable.
MCSymmetry == Permutations(MCConns)

\* Single-connection setting for the auto-retry bound.
MCOneConn == {c1}
MCMutators == {"SUBDOC_DICT_UPSERT"}
MCNoCas == {0}
MCJsonOnly == {"JSON"}
MCNoErrors == {}
MCNotifySuccess == {"SUCCESS"}
MCWouldBlock == {"EWOULDBLOCK"}
=============================================================================
