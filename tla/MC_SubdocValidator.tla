------------------------ MODULE MC_SubdocValidator -------------------------
(***************************************************************************)
(* Bounded packets for SubdocValidator.  Path lengths are scaled down:    *)
(* SUBDOC_PATH_MAX_LENGTH is 2 here, so that 0, the maximum and the       *)
(* maximum plus one all occur; MULTI_MAX_PATHS is 2 so that 0, the cap    *)
(* and the cap plus one specs occur.  A header is either valid or wrong   *)
(* in exactly one of the fields the validators check.                     *)
(***************************************************************************)
EXTENDS SubdocValidator, SequencesExt

MCSingleOpcodes ==
    {"SUBDOC_GET", "SUBDOC_DELETE", "SUBDOC_DICT_UPSERT",
     "SUBDOC_ARRAY_PUSH_LAST"}

MCPathMax == 2
MCMaxPaths == 2
MCUint32 == 2^30

\* magic, extlen and datatype: all valid, or one of them wrong.
Headers(ext) ==
    {[magic |-> "REQ", extlen |-> ext, datatype |-> "RAW_BYTES"],
     [magic |-> "RES", extlen |-> ext, datatype |-> "RAW_BYTES"],
     [magic |-> "REQ", extlen |-> ext + 1, datatype |-> "RAW_BYTES"],
     [magic |-> "REQ", extlen |-> ext, datatype |-> "JSON"]}

FlagSets == {{}, {SUBDOC_FLAG_MKDIR_P}, {2}}

MCSinglePackets ==
    {h @@
     [kind |-> "single", opcode |-> op, keylen |-> k, pathlen |-> pl, flags |-> f,
      bodylen |-> b] :
        h \in Headers(3), op \in MCSingleOpcodes, k \in 0..1,
        pl \in 0..MCPathMax + 1, f \in FlagSets, b \in 0..8}

LookupSpecs ==
    [opcode : {"SUBDOC_GET", "SUBDOC_EXISTS", "SUBDOC_DICT_UPSERT"},
     flags : {{}, {SUBDOC_FLAG_MKDIR_P}}, pathlen : {0, 1, MCPathMax + 1}]

MCMultiPackets ==
    {h @@ [kind |-> "multi_lookup", keylen |-> k, specs |-> s, cut |-> c] :
        h \in Headers(0), k \in 0..1, s \in SeqOf(LookupSpecs, MCMaxPaths + 1),
        c \in 0..SPEC_HEADER_LEN - 1}
\* Single-path packets whose body holds at least the extras and the key:
\* only the path length can exceed what is left.
MCFramedSinglePackets ==
    {p \in MCSinglePackets : p.bodylen >= p.keylen + p.extlen}

MCNoPackets == {}
=============================================================================
