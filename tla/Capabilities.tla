---------------------------- MODULE Capabilities ----------------------------
(***************************************************************************)
(* Capability negotiation of streaming (rrdpush.c 1390-1529): the          *)
(* capabilities an agent offers, stream_our_capabilities(), and the        *)
(* mapping of the number a peer sends to the capabilities both will use,   *)
(* convert_stream_version_to_capabilities(), as operators over sets of     *)
(* capability names; and the handshake in which a child offers its         *)
(* capabilities and the parent answers with the result, after which both   *)
(* must use the same set (spec.md 4.1, P5).                                *)
(***************************************************************************)
EXTENDS Integers, FiniteSets, Sequences

CONSTANTS
  Compressors,       \* STREAM_CAP_COMPRESSIONS_AVAILABLE of the build
  DisableChoices,    \* values globally_disabled_capabilities may have
  MaxMlChanges,      \* bound on changes of the child's ML state
  OldVersions,       \* protocol versions old children may offer
  TestRequests       \* parameter lists a stream request may carry

\* capability_names[] (lines 1390-1413), in bit order.
CapNames == {"V1", "V2", "VN", "VCAPS", "HLABELS", "CLAIM", "CLABELS", "LZ4",
             "FUNCTIONS", "REPLICATION", "BINARY", "INTERPOLATED", "IEEE754",
             "ML", "DYNCFG", "SLOTS", "ZSTD", "GZIP", "BROTLI"}

\* The bit of each STREAM_CAP_* in the streaming header (not in src/):
\* V1 is 1 << 3, and every later name of capability_names[] the next bit.
Bit == [n \in CapNames |->
          CASE n = "V1" -> 3 [] n = "V2" -> 4 [] n = "VN" -> 5 [] n = "VCAPS" -> 6
            [] n = "HLABELS" -> 7 [] n = "CLAIM" -> 8 [] n = "CLABELS" -> 9
            [] n = "LZ4" -> 10 [] n = "FUNCTIONS" -> 11 [] n = "REPLICATION" -> 12
            [] n = "BINARY" -> 13 [] n = "INTERPOLATED" -> 14 [] n = "IEEE754" -> 15
            [] n = "ML" -> 16 [] n = "DYNCFG" -> 17 [] n = "SLOTS" -> 18
            [] n = "ZSTD" -> 19 [] n = "GZIP" -> 20 [] n = "BROTLI" -> 21]

ASSUME Compressors \subseteq {"LZ4", "ZSTD", "GZIP", "BROTLI"}
ASSUME DisableChoices \subseteq SUBSET CapNames
ASSUME MaxMlChanges \in Nat
ASSUME OldVersions \subseteq 1..5

\* STREAM_OLD_VERSION_CLAIM, _CLABELS and _LZ4 of the header.
OldVersionClaim == 3
OldVersionClabels == 4
OldVersionLz4 == 5

\* The capabilities whose bits are set in a number sent on the wire.
CapsOfMask(v) == {n \in CapNames : v >= 0 /\ (v \div 2^Bit[n]) % 2 = 1}

\* The number a set of capabilities is sent as.
RECURSIVE MaskSum(_)
MaskSum(S) == IF S = {} THEN 0
              ELSE LET n == CHOOSE x \in S : TRUE IN 2^Bit[n] + MaskSum(S \ {n})
MaskOfCaps(S) == MaskSum(S)

\* stream_our_capabilities() (lines 1459-1496): everything this build
\* supports (DYNCFG only in test builds) less the globally disabled
\* capabilities and, for a sender whose host neither runs ML nor receives
\* ML data, DATA_WITH_ML.
OurCapabilities(disabled, sender, mlAvailable) ==
  ({"V1", "V2", "VN", "VCAPS", "HLABELS", "CLAIM", "CLABELS", "FUNCTIONS",
    "REPLICATION", "BINARY", "INTERPOLATED", "SLOTS", "IEEE754", "ML"}
    \cup Compressors)
  \ (disabled \cup (IF sender /\ ~mlAvailable THEN {"ML"} ELSE {}))

\* Lines 1501-1506: the capabilities of an old protocol version; a larger
\* number is a capability mask.
VersionCaps(version) ==
  IF version <= 1 THEN {"V1"}
  ELSE IF version < OldVersionClaim THEN {"V2", "HLABELS"}
  ELSE IF version <= OldVersionClaim THEN {"VN", "HLABELS", "CLAIM"}
  ELSE IF version <= OldVersionClabels THEN {"VN", "HLABELS", "CLAIM", "CLABELS"}
  ELSE IF version <= OldVersionLz4
    THEN {"VN", "HLABELS", "CLAIM", "CLABELS"} \cup ({"LZ4"} \cap Compressors)
  ELSE CapsOfMask(version)

\* Lines 1508-1515: a newer framing drops the older ones.
ReduceFramings(caps) ==
  LET c1 == IF "VCAPS" \in caps THEN caps \ {"V1", "V2", "VN"} ELSE caps
      c2 == IF "VN" \in c1 THEN c1 \ {"V1", "V2"} ELSE c1
  IN IF "V2" \in c2 THEN c2 \ {"V1"} ELSE c2

\* convert_stream_version_to_capabilities() (lines 1498-1524).
ConvertVersion(version, ours) ==
  LET common == ReduceFramings(VersionCaps(version)) \cap ours
  IN IF "INTERPOLATED" \notin common THEN common \ {"ML"} ELSE common

\* Variant: chart labels tested before LZ4.
CapabilitiesToVNClabelsFirst(caps) ==
  IF "CLABELS" \in caps THEN OldVersionClabels
  ELSE IF "LZ4" \in caps THEN OldVersionLz4
  ELSE OldVersionClaim

\* stream_capabilities_to_vn() (lines 1526-1529).
CapabilitiesToVN(caps) ==
  IF "LZ4" \in caps THEN OldVersionLz4
  ELSE IF "CLABELS" \in caps THEN OldVersionClabels
  ELSE OldVersionClaim

\* The unsigned long strtoul() returns for a "ver" text, as its bits above
\* the 32nd (any number), its bit 31 and its low 31 bits ("-1" is
\* 2^64 - 1: high bits, bit 31 and all low bits set).
ULong(high, bit31, low) == [high |-> high, bit31 |-> bit31, low |-> low]

\* The parameters of a stream request that bear on the capabilities: "ver"
\* with its ULong, NETDATA_PROTOCOL_VERSION, and any other.
Param(name, value) == [name |-> name, value |-> value]

\* The unsigned long passed as the int32_t version parameter of
\* convert_stream_version_to_capabilities(): the bits above 32 are dropped
\* and bit 31 is the sign (two's complement).
Int32(u) == IF u.bit31 THEN u.low - 2^30 - 2^30 ELSE u.low

\* rpt->capabilities after the parameter loop of
\* rrdpush_receiver_thread_spawn() (lines 995-997, 1019-1020, 1032-1034):
\* it starts STREAM_CAP_INVALID, the first "ver" or NETDATA_PROTOCOL_VERSION
\* sets it (version 1 for the latter) and later ones are ignored; with
\* neither, version 0 is assumed.
RequestCapabilities(params, ours) ==
  LET vs == SelectSeq(params, LAMBDA q : q.name \in {"ver", "NETDATA_PROTOCOL_VERSION"})
  IN IF vs = <<>> THEN ConvertVersion(0, ours)
     ELSE IF Head(vs).name = "ver" THEN ConvertVersion(Int32(Head(vs).value), ours)
     ELSE ConvertVersion(1, ours)

-----------------------------------------------------------------------------
(* The handshake of one connection                                         *)

\* The answer of the parent's receiver thread (not in src/; spec.md 4.4):
\* the negotiated capabilities as a mask to a VCAPS child, as an old
\* version number to a VN child, 2 or 1 to older ones.
ReplyNumber(caps) ==
  IF "VCAPS" \in caps THEN MaskOfCaps(caps)
  ELSE IF "VN" \in caps THEN CapabilitiesToVN(caps)
  ELSE IF "V2" \in caps THEN 2 ELSE 1

VARIABLES
  childDisabled,   \* globally_disabled_capabilities of the child
  parentDisabled,  \* globally_disabled_capabilities of the parent
  mlAvailable,     \* the child host runs ML or receives ML data
  mlChanges,       \* changes of mlAvailable so far
  offer,           \* the number the child sent, -1 before
  parentCaps,      \* rpt->capabilities on the parent
  reply,           \* the number the parent answered, -1 before
  childCaps,       \* s->capabilities on the child
  hpc              \* "offer", "parent", "child", "done"

hvars == <<childDisabled, parentDisabled, mlAvailable, mlChanges, offer,
           parentCaps, reply, childCaps, hpc>>

TypeOK ==
  /\ childDisabled \in DisableChoices /\ parentDisabled \in DisableChoices
  /\ mlAvailable \in BOOLEAN /\ mlChanges \in 0..MaxMlChanges
  /\ offer \in Int /\ reply \in Int
  /\ parentCaps \subseteq CapNames /\ childCaps \subseteq CapNames
  /\ hpc \in {"offer", "parent", "child", "done"}

\* The sender offers stream_our_capabilities(host, true) as its version.
ChildOffer ==
  /\ hpc = "offer"
  /\ offer' = MaskOfCaps(OurCapabilities(childDisabled, TRUE, mlAvailable))
  /\ hpc' = "parent"
  /\ UNCHANGED <<childDisabled, parentDisabled, mlAvailable, mlChanges,
                 parentCaps, reply, childCaps>>

\* A child of an older agent (not in src/) sends its protocol version.
OldChildOffer(v) ==
  /\ hpc = "offer"
  /\ offer' = v
  /\ hpc' = "parent"
  /\ UNCHANGED <<childDisabled, parentDisabled, mlAvailable, mlChanges,
                 parentCaps, reply, childCaps>>

\* The receiver parses the request, whose "ver" is the offered number,
\* converting it with the capabilities of a receiver,
\* stream_our_capabilities(NULL, false) (line 997), and answers.
ParentNegotiate ==
  /\ hpc = "parent"
  /\ LET caps == RequestCapabilities(<<Param("ver", ULong(0, FALSE, offer))>>,
                                     OurCapabilities(parentDisabled, FALSE, TRUE))
     IN /\ parentCaps' = caps
        /\ reply' = ReplyNumber(caps)
  /\ hpc' = "child"
  /\ UNCHANGED <<childDisabled, parentDisabled, mlAvailable, mlChanges,
                 offer, childCaps>>

\* The sender converts the answer with stream_our_capabilities(host, true),
\* evaluated again.
ChildNegotiate ==
  /\ hpc = "child" /\ offer > OldVersionLz4
  /\ childCaps' = ConvertVersion(reply, OurCapabilities(childDisabled, TRUE, mlAvailable))
  /\ hpc' = "done"
  /\ UNCHANGED <<childDisabled, parentDisabled, mlAvailable, mlChanges,
                 offer, parentCaps, reply>>

\* An older child maps the answer to capabilities and keeps those of its
\* own version (spec.md 4.1).
OldChildNegotiate ==
  /\ hpc = "child" /\ offer <= OldVersionLz4
  /\ childCaps' = ReduceFramings(VersionCaps(reply)) \cap VersionCaps(offer)
  /\ hpc' = "done"
  /\ UNCHANGED <<childDisabled, parentDisabled, mlAvailable, mlChanges,
                 offer, parentCaps, reply>>

\* ML starts or stops on the child host, or its own receiver (a child of
\* its own) connects or disconnects with or without ML data.
MlChange ==
  /\ mlChanges < MaxMlChanges
  /\ mlAvailable' = ~mlAvailable
  /\ mlChanges' = mlChanges + 1
  /\ UNCHANGED <<childDisabled, parentDisabled, offer, parentCaps, reply,
                 childCaps, hpc>>

HInit ==
  /\ childDisabled \in DisableChoices /\ parentDisabled \in DisableChoices
  /\ mlAvailable \in BOOLEAN /\ mlChanges = 0
  /\ offer = -1 /\ reply = -1
  /\ parentCaps = {} /\ childCaps = {}
  /\ hpc = "offer"

HNext ==
  \/ ChildOffer \/ \E v \in OldVersions : OldChildOffer(v)
  \/ ParentNegotiate
  \/ ChildNegotiate \/ OldChildNegotiate
  \/ MlChange

HSpec == HInit /\ [][HNext]_hvars

-----------------------------------------------------------------------------
(* Properties                                                              *)

\* spec.md P5: after the handshake child and parent use the same
\* capabilities, whether the child is a current agent or an older one.
\* The parent answers an older child with the old version that names what
\* it negotiated (stream_capabilities_to_vn(), lines 1526-1529), and the
\* child reads that version back; a current child reads the mask.  The ML
\* part is left out: the child evaluates its ML state again for the
\* answer (line 1467), so the peers may disagree on it.
PeersAgreeBeyondMl ==
  hpc = "done" => parentCaps \ {"ML"} = childCaps \ {"ML"}

\* The framing capabilities: one of them says how records are written.
Framings == {"V1", "V2", "VN", "VCAPS"}

\* spec.md 4.1 and 4.4: a request without "ver" is V1, one with
\* NETDATA_PROTOCOL_VERSION the minimum set, and a number that maps to no
\* recognized version V1.  So whatever parameters a request carries, in
\* any order, and whatever number its "ver" text parses to, once cut to
\* the int32_t of line 997, the receiver's capabilities (lines 995-1034
\* and convert_stream_version_to_capabilities()) have exactly one framing.
EveryRequestHasOneFraming ==
  \A req \in TestRequests :
    Cardinality(RequestCapabilities(req, OurCapabilities(parentDisabled, FALSE, TRUE))
                \cap Framings) = 1

=============================================================================
