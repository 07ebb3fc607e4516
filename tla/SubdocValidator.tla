-------------------------- MODULE SubdocValidator --------------------------
(***************************************************************************)
(* The request validators of the sub-document commands                    *)
(* (src/daemon/subdocument_validators.cc): subdoc_validator<CMD> for the   *)
(* single-path opcodes and subdoc_multi_lookup_validator.  Both are pure   *)
(* functions of the packet; they are modelled as operators over an        *)
(* abstract packet that keeps the header fields and lengths they read     *)
(* (bytes of keys and paths play no part), and checked against the rules  *)
(* of the protocol over every packet of a bounded set.                     *)
(*                                                                         *)
(* The state machine only serves to enumerate packets: a packet arrives   *)
(* and the validator of its opcode gives its verdict (0 or -1).           *)
(***************************************************************************)
EXTENDS Naturals, Sequences, Functions

CONSTANTS
    SingleOpcodes,          \* single-path sub-document opcodes
    SUBDOC_PATH_MAX_LENGTH, \* 1024 in the code
    MULTI_MAX_PATHS,        \* PROTOCOL_BINARY_SUBDOC_MULTI_MAX_PATHS, 16
    UINT32,                 \* modulus of the validator's uint32_t arithmetic
    SinglePackets,          \* the single-path packets to validate
    MultiPackets            \* the multi-lookup packets to validate

VARIABLES
    pkt,      \* the packet received
    pathIndex, \* path_index when the multi-lookup spec loop ended
    verdict   \* "pending", or the validator's return value 0 / -1 as
              \* "accepted" / "rejected"

vars == <<pkt, pathIndex, verdict>>

SUBDOC_FLAG_MKDIR_P == 1

\* sizeof(protocol_binary_subdoc_multi_lookup_spec): opcode, flags, pathlen.
SPEC_HEADER_LEN == 4

(***************************************************************************)
(* cmd_traits<> of subdocument_traits.h (not part of this tree): whether a *)
(* request carries a value, the flags it may set, and whether the path may *)
(* be empty.                                                               *)
(***************************************************************************)
Traits(op) ==
    CASE op \in {"SUBDOC_GET", "SUBDOC_EXISTS", "SUBDOC_DELETE"} ->
            [request_has_value |-> FALSE,
             valid_flags |-> {}, allow_empty_path |-> FALSE]
      [] op \in {"SUBDOC_ARRAY_PUSH_LAST", "SUBDOC_ARRAY_PUSH_FIRST",
                 "SUBDOC_ARRAY_ADD_UNIQUE"} ->
            [request_has_value |-> TRUE, valid_flags |-> {SUBDOC_FLAG_MKDIR_P},
             allow_empty_path |-> TRUE]
      [] op \in {"SUBDOC_REPLACE", "SUBDOC_ARRAY_INSERT"} ->
            [request_has_value |-> TRUE, valid_flags |-> {},
             allow_empty_path |-> FALSE]
      [] OTHER ->
            [request_has_value |-> TRUE, valid_flags |-> {SUBDOC_FLAG_MKDIR_P},
             allow_empty_path |-> FALSE]

\* (flags & ~valid_flags) != 0, flags taken as a set of bits.
FlagsInvalid(flags, valid) == flags \ valid # {}

(***************************************************************************)
(* subdoc_validator<CMD>.  valuelen is computed in uint32_t, so a path     *)
(* longer than what remains of the body wraps around instead of going      *)
(* negative.                                                               *)
(***************************************************************************)
ValueLen(p) == (p.bodylen - p.keylen - p.extlen - p.pathlen) % UINT32

SubdocValidator(p) ==
    LET t == Traits(p.opcode) IN
    IF \/ p.magic # "REQ"
       \/ p.keylen = 0
       \/ p.extlen # 3
       \/ p.pathlen > SUBDOC_PATH_MAX_LENGTH
       \/ p.datatype # "RAW_BYTES"
    THEN -1
    ELSE IF t.request_has_value /\ ValueLen(p) = 0 THEN -1
    ELSE IF ~t.request_has_value /\ ValueLen(p) # 0 THEN -1
    ELSE IF FlagsInvalid(p.flags, t.valid_flags) THEN -1
    ELSE IF ~t.allow_empty_path /\ p.pathlen = 0 THEN -1
    ELSE 0

(***************************************************************************)
(* A multi-lookup body is the key followed by the lookup specs the client  *)
(* wrote, cut short by p.cut bytes: bodylen is the number of bytes that    *)
(* really follow the header.  Bytes the walker reads past bodylen are not  *)
(* part of the request; their value is whatever the specs say, which      *)
(* ranges over every header.                                               *)
(***************************************************************************)
SpecBytes(specs) == FoldFunction(LAMBDA s, n : n + SPEC_HEADER_LEN + s.pathlen,
                                 0, specs)

BodyLen(p) == p.keylen + SpecBytes(p.specs) - p.cut

\* The header check compares the bodylen field as it is on the wire
\* (network order) with the host value: on a little-endian host the field
\* reads as the byte-swapped length, which is below 2^8 only when the low
\* three bytes of the real length are zero.
RawBodyLenBelow(len, bound) == len % 2^24 = 0 /\ len \div 2^24 < bound

\* Steps 2a and 2b for one spec.
SpecInvalid(s) ==
    \/ s.opcode \notin {"SUBDOC_GET", "SUBDOC_EXISTS"}
    \/ s.pathlen = 0
    \/ s.pathlen > SUBDOC_PATH_MAX_LENGTH
    \/ FlagsInvalid(s.flags, Traits(s.opcode).valid_flags)

\* Mutant: the loop admits one path more than MULTI_MAX_PATHS.
RECURSIVE WalkSpecsOffByOne(_, _, _, _)
WalkSpecsOffByOne(specs, bodylen, idx, off) ==
    IF idx <= MULTI_MAX_PATHS /\ off < bodylen
    THEN IF SpecInvalid(specs[idx + 1])
         THEN [rejected |-> TRUE, idx |-> idx, off |-> off]
         ELSE WalkSpecsOffByOne(specs, bodylen, idx + 1,
                                off + SPEC_HEADER_LEN + specs[idx + 1].pathlen)
    ELSE [rejected |-> FALSE, idx |-> idx, off |-> off]

\* The spec loop: from offset off with path_index idx, where it ends:
\* [idx, off] at the loop exit, rejected if a spec made it return -1.
RECURSIVE WalkSpecs(_, _, _, _)
WalkSpecs(specs, bodylen, idx, off) ==
    IF idx < MULTI_MAX_PATHS /\ off < bodylen
    THEN IF SpecInvalid(specs[idx + 1])
         THEN [rejected |-> TRUE, idx |-> idx, off |-> off]
         ELSE WalkSpecs(specs, bodylen, idx + 1,
                        off + SPEC_HEADER_LEN + specs[idx + 1].pathlen)
    ELSE [rejected |-> FALSE, idx |-> idx, off |-> off]

\* The loop of a multi-lookup packet that passed the header checks.
MultiLookupWalk(p) == WalkSpecs(p.specs, BodyLen(p), 0, p.keylen)

\* Step 1, the simple static values.
MultiLookupHeaderInvalid(p) ==
    \/ p.magic # "REQ"
    \/ p.keylen = 0
    \/ p.extlen # 0
    \/ RawBodyLenBelow(BodyLen(p), SPEC_HEADER_LEN + 1)
    \/ p.datatype # "RAW_BYTES"

\* Mutant: a request with no lookup spec at all is not refused.
SubdocMultiLookupValidatorNoPaths(p) ==
    LET bodylen == BodyLen(p)
        walk    == MultiLookupWalk(p)
    IN
    IF MultiLookupHeaderInvalid(p) THEN -1
    ELSE IF walk.rejected THEN -1
    ELSE IF walk.idx <= MULTI_MAX_PATHS /\ walk.off = bodylen
         THEN 0
         ELSE -1

SubdocMultiLookupValidator(p) ==
    LET bodylen == BodyLen(p)
        walk    == MultiLookupWalk(p)
    IN
    IF MultiLookupHeaderInvalid(p) THEN -1
    ELSE IF walk.rejected THEN -1
    ELSE IF walk.idx > 0 /\ walk.idx <= MULTI_MAX_PATHS /\ walk.off = bodylen
         THEN 0
         ELSE -1

-----------------------------------------------------------------------------
Verdict(rc) == IF rc = 0 THEN "accepted" ELSE "rejected"

Init ==
    /\ pkt \in SinglePackets \cup MultiPackets
    /\ pathIndex = 0
    /\ verdict = "pending"

ValidateSingle ==
    /\ verdict = "pending"
    /\ pkt.kind = "single"
    /\ verdict' = Verdict(SubdocValidator(pkt))
    /\ UNCHANGED <<pkt, pathIndex>>

ValidateMultiLookup ==
    /\ verdict = "pending"
    /\ pkt.kind = "multi_lookup"
    /\ verdict' = Verdict(SubdocMultiLookupValidator(pkt))
    /\ pathIndex' = IF MultiLookupHeaderInvalid(pkt) THEN 0
                    ELSE MultiLookupWalk(pkt).idx
    /\ UNCHANGED pkt

\* The verdict is final.
Done ==
    /\ verdict # "pending"
    /\ UNCHANGED vars

Next == ValidateSingle \/ ValidateMultiLookup \/ Done

Spec == Init /\ [][Next]_vars

-----------------------------------------------------------------------------
TypeOK ==
    /\ pkt.kind \in {"single", "multi_lookup"}
    /\ pkt.magic \in {"REQ", "RES"}
    /\ pkt.keylen \in Nat /\ pkt.extlen \in Nat
    /\ pathIndex \in 0..MULTI_MAX_PATHS
    /\ verdict \in {"pending", "accepted", "rejected"}

(***************************************************************************)
(* The multi-lookup rules of the protocol: magic REQ, a key, no extras,    *)
(* datatype RAW, 1 to MULTI_MAX_PATHS specs, each a GET or EXISTS with a   *)
(* path of 1..SUBDOC_PATH_MAX_LENGTH bytes and only the flags its opcode   *)
(* allows, and a body that is exactly key plus specs, nothing cut off.     *)
(***************************************************************************)
MultiLookupWellFormed(p) ==
    /\ p.magic = "REQ" /\ p.keylen > 0 /\ p.extlen = 0
    /\ p.datatype = "RAW_BYTES"
    /\ Len(p.specs) \in 1..MULTI_MAX_PATHS
    /\ \A i \in DOMAIN p.specs : ~SpecInvalid(p.specs[i])
    /\ p.cut = 0

(***************************************************************************)
(* subdoc_multi_lookup_validator accepts exactly the well-formed           *)
(* multi-lookup packets, whatever the bytes it reads past a truncated body *)
(* and although its minimum-length check compares the length in network   *)
(* byte order: the spec walk, the 16-path cap and the final length match  *)
(* decide together.                                                        *)
(***************************************************************************)
MultiLookupValidatorCorrect ==
    (pkt.kind = "multi_lookup" /\ verdict # "pending")
        => (verdict = "accepted" <=> MultiLookupWellFormed(pkt))

(***************************************************************************)
(* A single-path request accepted by subdoc_validator has a body that      *)
(* holds its extras, key, path and value: the executor reads the path and  *)
(* vallen bytes of value from within the packet.                           *)
(***************************************************************************)
SingleAcceptedFitsBody ==
    (pkt.kind = "single" /\ verdict = "accepted")
        => pkt.keylen + pkt.extlen + pkt.pathlen + ValueLen(pkt) = pkt.bodylen
=============================================================================
