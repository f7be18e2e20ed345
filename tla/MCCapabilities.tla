--------------------------- MODULE MCCapabilities ---------------------------
(***************************************************************************)
(* Model-checking instance of Capabilities: a build with LZ4 and ZSTD,     *)
(* agents that disable nothing or one capability, children of every old    *)
(* protocol version, and the requests a peer may send: up to two          *)
(* parameters, "ver" with every old protocol version, the masks of current *)
(* agents, numbers past 31 bits, and the numbers no agent sends.           *)
(***************************************************************************)
EXTENDS Capabilities

MCCompressors == {"LZ4", "ZSTD"}

\* Capabilities an operator may disable that do not touch the framings.
FeatureDisables == {{}, {"ML"}, {"INTERPOLATED"}, {"LZ4"}, {"REPLICATION"}}

\* The masks current agents send.
AgentMasks ==
  {MaskOfCaps(OurCapabilities(d, TRUE, ml)) : d \in FeatureDisables, ml \in BOOLEAN}

\* What strtoul() returns for a "ver" text: every old protocol version, the
\* masks of current agents, a mask with bit 31 set, a number past 32 bits,
\* and the text "-1".
VerValues ==
  {ULong(0, FALSE, v) : v \in (0..5) \cup AgentMasks} \cup
  {ULong(0, TRUE, MaskOfCaps(OurCapabilities({}, TRUE, TRUE))),
   ULong(1, FALSE, 3),
   ULong(1, TRUE, 2^30 + (2^30 - 1))}

RequestParams ==
  {Param("ver", u) : u \in VerValues} \cup
  {Param("NETDATA_PROTOCOL_VERSION", 0), Param("hostname", 0)}

\* Requests of up to two such parameters, in every order.
KnownRequests ==
  {<<>>} \cup {<<q>> : q \in RequestParams} \cup {<<q, r>> : q, r \in RequestParams}

\* The numbers 6 and 7, between the old versions and the masks, and a mask
\* with no framing bit.
UnknownVersions == {6, 7, MaskOfCaps({"HLABELS", "CLAIM", "CLABELS"})}

AnyRequests ==
  KnownRequests \cup {<<Param("ver", ULong(0, FALSE, v))>> : v \in UnknownVersions}

=============================================================================
