-------------------------- MODULE ChartPublication --------------------------
(***************************************************************************)
(* The child side of streaming for one host: the collector threads that    *)
(* call rrdset_push_metric_initialize() on every collection tick, the      *)
(* definition of a chart (rrdpush_send_chart_definition), its metrics, and *)
(* rrdset_push_chart_definition_now() for a chart made obsolete.           *)
(*                                                                         *)
(* Around them run, as environment steps modelled from spec.md because     *)
(* their code is not in src/: the sender thread, which connects and        *)
(* disconnects (spec 4.3 Reconnect), the replication thread, which ends    *)
(* the replication of a chart whose CHART_DEFINITION_END the parent has    *)
(* received (spec 4.5 step 4), the receiver's replication of a mirrored    *)
(* chart, and a metadata change of a chart (a dimension added, a label).   *)
(*                                                                         *)
(* What the parent sees on the current connection is kept per chart in     *)
(* "sent" (the kinds of record received for the chart) and "first" (the    *)
(* kind of the first of them).  A sender_start() .. sender_commit() pair   *)
(* holds the sender's commit mutex (spec 4.3), and the sender thread takes *)
(* the same mutex to flush the buffer on a disconnect, so each commit is   *)
(* one step.                                                               *)
(***************************************************************************)
EXTENDS Naturals, FiniteSets

CONSTANTS
  Charts,               \* the charts of the host
  Matching,             \* charts whose id or name match "send charts matching"
  AnomalyCharts,        \* charts with RRDSET_FLAG_ANOMALY_DETECTION
  MLStreaming,          \* ml_streaming_enabled()
  Mirrored,             \* charts of a child host still replicated by the receiver
  Obsoletable,          \* charts their collector may mark obsolete
  ReceiverDisconnected, \* RRDHOST_FLAG_RRDPUSH_RECEIVER_DISCONNECTED of the host
  NegotiableCaps,       \* the capability sets a connection may negotiate
  MaxConnections,       \* bound on the connections the sender makes
  MaxMetadataUpdates    \* bound on metadata changes of the charts

ASSUME Matching \subseteq Charts /\ AnomalyCharts \subseteq Charts
ASSUME Mirrored \subseteq Charts /\ Obsoletable \subseteq Charts
ASSUME MLStreaming \in BOOLEAN /\ ReceiverDisconnected \in BOOLEAN
ASSUME NegotiableCaps \subseteq SUBSET {"REPLICATION", "INTERPOLATED"}
ASSUME MaxConnections \in Nat /\ MaxMetadataUpdates \in Nat

\* The chart flags this part of the code reads and writes.
ChartFlags == {"UPSTREAM_SEND", "UPSTREAM_IGNORE",
               "SENDER_REPLICATION_IN_PROGRESS", "SENDER_REPLICATION_FINISHED",
               "RECEIVER_REPLICATION_FINISHED", "OBSOLETE"}

\* The records of a chart the parent can receive: the definition (CHART and
\* its DIMENSION, CLABEL, FUNCTION and VARIABLE lines), the
\* CHART_DEFINITION_END of replication, and a group of metrics (BEGIN .. END
\* or BEGIN_V2 .. END_V2).
RecordKinds == {"CHART", "CHART_DEFINITION_END", "BEGIN"}

\* Collector program counters: where a thread is inside one call.
PCs == {"idle", "flags_read", "define", "mark", "values"}

VARIABLES
  ready,        \* RRDHOST_FLAG_RRDPUSH_SENDER_READY_4_METRICS
  spawned,      \* RRDHOST_FLAG_RRDPUSH_SENDER_SPAWN
  connected,    \* the sender has a connection to the parent
  conns,        \* connections made so far
  caps,         \* capabilities of the current connection
  flags,        \* flags of every chart
  version,      \* rrdset_metadata_version() of every chart
  exposed,      \* version last exposed upstream of every chart
  replicating,  \* the host's count of charts replicating (sender side)
  metaUpdates,  \* metadata changes so far
  sent,         \* kinds of record of each chart the current connection carries
  first,        \* kind of the first such record, "none" before any
  pc,           \* where the collector thread of each chart is
  local         \* the collector's local variables of the call in progress

hostVars == <<ready, spawned, connected, conns, caps, replicating, metaUpdates>>
vars == <<ready, spawned, connected, conns, caps, flags, version, exposed,
          replicating, metaUpdates, sent, first, pc, local>>

Locals == [origin : {"tick", "now"}, inProgress : BOOLEAN, version : Nat]

TypeOK ==
  /\ ready \in BOOLEAN /\ spawned \in BOOLEAN /\ connected \in BOOLEAN
  /\ conns \in 0..MaxConnections
  /\ caps \in NegotiableCaps \cup {{}}
  /\ flags \in [Charts -> SUBSET ChartFlags]
  /\ version \in [Charts -> Nat] /\ exposed \in [Charts -> Nat]
  /\ replicating \in 0..Cardinality(Charts)
  /\ metaUpdates \in 0..MaxMetadataUpdates
  /\ sent \in [Charts -> SUBSET RecordKinds]
  /\ first \in [Charts -> RecordKinds \cup {"none"}]
  /\ pc \in [Charts -> PCs]
  /\ local \in [Charts -> Locals]

-----------------------------------------------------------------------------
(* Helpers                                                                 *)

\* rrdset_check_upstream_exposed(): the definition of the current metadata
\* version has been exposed.
IsExposed(c) == exposed[c] = version[c]

\* The decision of should_send_chart_matching() for an undecided chart.
SendDecision(c) == IF c \in AnomalyCharts THEN MLStreaming ELSE c \in Matching

\* The flags of a chart after should_send_chart_matching(st, fl): an
\* undecided chart whose receiver replication has finished is classified.
Classified(c, fl) ==
  IF "RECEIVER_REPLICATION_FINISHED" \notin fl
     \/ fl \cap {"UPSTREAM_SEND", "UPSTREAM_IGNORE"} # {}
  THEN fl
  ELSE fl \cup {IF SendDecision(c) THEN "UPSTREAM_SEND" ELSE "UPSTREAM_IGNORE"}

\* The result of should_send_chart_matching(st, fl).
ShouldSend(c, fl) ==
  /\ "RECEIVER_REPLICATION_FINISHED" \in fl
  /\ "UPSTREAM_SEND" \in Classified(c, fl)

\* sender_commit() of a buffer whose records for chart c are hd followed by
\* those in tl: the current connection carries them; records committed
\* while no connection is up are flushed before the next one starts.
Commit(c, hd, tl) ==
  IF connected
  THEN /\ sent' = [sent EXCEPT ![c] = @ \cup {hd} \cup tl]
       /\ first' = [first EXCEPT ![c] = IF @ = "none" THEN hd ELSE @]
  ELSE UNCHANGED <<sent, first>>

-----------------------------------------------------------------------------
(* Collector threads                                                       *)

\* rrdset_push_metric_initialize(), lines 522-544: one atomic load of the
\* host flags.  When the sender is not ready, spawn it (unless spawned or
\* the host's receiver has disconnected) and return without a buffer.  The
\* log-once flag and the commit of global functions when
\* GLOBAL_FUNCTIONS_UPDATED is set write nothing a property reads.
MetricInitReadFlags(c) ==
  /\ pc[c] = "idle"
  /\ "OBSOLETE" \notin flags[c]
  /\ IF ~ready
       THEN /\ spawned' = (spawned \/ ~ReceiverDisconnected)
            /\ UNCHANGED pc
       ELSE /\ pc' = [pc EXCEPT ![c] = "flags_read"]
            /\ UNCHANGED spawned
  /\ UNCHANGED <<ready, connected, conns, caps, flags, version, exposed,
                 replicating, metaUpdates, sent, first, local>>

\* Variant: return whenever the chart is exposed, whether or not it is
\* replicating (the replication_in_progress test of line 559 dropped).
MetricInitCheckChartSkipExposed(c) ==
  /\ pc[c] = "flags_read"
  /\ LET exp  == IsExposed(c)
         fl   == IF exp THEN flags[c] ELSE Classified(c, flags[c])
         skip == exp \/ ~ShouldSend(c, flags[c])
     IN /\ flags' = [flags EXCEPT ![c] = fl]
        /\ pc' = [pc EXCEPT ![c] = IF skip THEN "idle" ELSE "define"]
        /\ local' = [local EXCEPT ![c] = [origin |-> "tick", inProgress |-> FALSE,
                                          version |-> 0]]
  /\ UNCHANGED <<hostVars, version, exposed, sent, first>>

\* rrdset_push_metric_initialize(), lines 552-566: read the exposed state
\* and the chart flags; return when the chart is exposed and replicating,
\* or (only then is should_send_chart_matching() evaluated, which may
\* classify the chart) when it is not to be sent.  Otherwise go on to send
\* the definition, when not exposed, or the metrics.
MetricInitCheckChart(c) ==
  /\ pc[c] = "flags_read"
  /\ LET exp    == IsExposed(c)
         inProg == "SENDER_REPLICATION_FINISHED" \notin flags[c]
         short  == exp /\ inProg
         fl     == IF short THEN flags[c] ELSE Classified(c, flags[c])
         skip   == short \/ ~ShouldSend(c, flags[c])
     IN /\ flags' = [flags EXCEPT ![c] = fl]
        /\ pc' = [pc EXCEPT ![c] = IF skip THEN "idle"
                                   ELSE IF exp THEN "values" ELSE "define"]
        /\ local' = [local EXCEPT ![c] = [origin |-> "tick", inProgress |-> inProg,
                                          version |-> 0]]
  /\ UNCHANGED <<hostVars, version, exposed, sent, first>>

\* Variant: count the chart as replicating on every definition sent with
\* REPLICATION, also when it already replicates (line 321 dropped).
SendChartDefinitionCountAlways(c) ==
  /\ pc[c] = "define"
  /\ LET repl == "REPLICATION" \in caps
     IN /\ flags' = [flags EXCEPT ![c] =
                       IF repl THEN (@ \cup {"SENDER_REPLICATION_IN_PROGRESS"})
                                     \ {"SENDER_REPLICATION_FINISHED"}
                       ELSE @]
        /\ replicating' = IF repl THEN replicating + 1 ELSE replicating
        /\ Commit(c, "CHART", IF repl THEN {"CHART_DEFINITION_END"} ELSE {})
        /\ local' = [local EXCEPT ![c].version = version[c],
                                  ![c].inProgress = repl]
  /\ pc' = [pc EXCEPT ![c] = "mark"]
  /\ UNCHANGED <<ready, spawned, connected, conns, caps, version, exposed,
                 metaUpdates>>

\* Variant: a chart that starts replicating keeps its
\* SENDER_REPLICATION_FINISHED flag (the clear of line 323 dropped).
SendChartDefinitionKeepsFinished(c) ==
  /\ pc[c] = "define"
  /\ LET repl == "REPLICATION" \in caps
         start == repl /\ "SENDER_REPLICATION_IN_PROGRESS" \notin flags[c]
     IN /\ flags' = [flags EXCEPT ![c] =
                       IF start THEN @ \cup {"SENDER_REPLICATION_IN_PROGRESS"}
                       ELSE @]
        /\ replicating' = IF start THEN replicating + 1 ELSE replicating
        /\ Commit(c, "CHART", IF repl THEN {"CHART_DEFINITION_END"} ELSE {})
        /\ local' = [local EXCEPT ![c].version = version[c],
                                  ![c].inProgress = repl]
  /\ pc' = [pc EXCEPT ![c] = "mark"]
  /\ UNCHANGED <<ready, spawned, connected, conns, caps, version, exposed,
                 metaUpdates>>

\* rrdpush_send_chart_definition(), lines 224-334: under the commit mutex,
\* take the metadata version, write the definition and, when REPLICATION
\* was negotiated, CHART_DEFINITION_END; a chart not yet replicating starts
\* replicating and is counted; then sender_commit().
SendChartDefinition(c) ==
  /\ pc[c] = "define"
  /\ LET repl == "REPLICATION" \in caps
         start == repl /\ "SENDER_REPLICATION_IN_PROGRESS" \notin flags[c]
     IN /\ flags' = [flags EXCEPT ![c] =
                       IF start THEN (@ \cup {"SENDER_REPLICATION_IN_PROGRESS"})
                                      \ {"SENDER_REPLICATION_FINISHED"}
                       ELSE @]
        /\ replicating' = IF start THEN replicating + 1 ELSE replicating
        /\ Commit(c, "CHART", IF repl THEN {"CHART_DEFINITION_END"} ELSE {})
        /\ local' = [local EXCEPT ![c].version = version[c],
                                  ![c].inProgress = repl]
  /\ pc' = [pc EXCEPT ![c] = "mark"]
  /\ UNCHANGED <<ready, spawned, connected, conns, caps, version, exposed,
                 metaUpdates>>

\* Variant: mark the chart exposed with the metadata version current after
\* the commit instead of the one taken before the definition was written.
MarkExposedUpstreamLate(c) ==
  /\ pc[c] = "mark"
  /\ exposed' = [exposed EXCEPT ![c] = version[c]]
  /\ pc' = [pc EXCEPT ![c] =
              IF local[c].origin = "now" \/ local[c].inProgress THEN "idle"
              ELSE "values"]
  /\ UNCHANGED <<hostVars, flags, version, sent, first, local>>

\* Variant: go on to the metrics after a definition whether or not it
\* started replication (the return of lines 562-563 dropped).
MarkExposedUpstreamIgnoreReplication(c) ==
  /\ pc[c] = "mark"
  /\ exposed' = [exposed EXCEPT ![c] = local[c].version]
  /\ pc' = [pc EXCEPT ![c] = IF local[c].origin = "now" THEN "idle" ELSE "values"]
  /\ UNCHANGED <<hostVars, flags, version, sent, first, local>>

\* rrdpush_send_chart_definition(), lines 336-345, after the commit: mark
\* the dimensions and the chart exposed with the version taken before the
\* definition was written; then rrdset_push_metric_initialize() returns
\* without a buffer when replication is in progress (lines 562-566), and
\* rrdset_push_chart_definition_now() returns (lines 400-403).
MarkExposedUpstream(c) ==
  /\ pc[c] = "mark"
  /\ exposed' = [exposed EXCEPT ![c] = local[c].version]
  /\ pc' = [pc EXCEPT ![c] =
              IF local[c].origin = "now" \/ local[c].inProgress THEN "idle"
              ELSE "values"]
  /\ UNCHANGED <<hostVars, flags, version, sent, first, local>>

\* rrdset_push_metric_initialize() lines 568-574 (sender_start()), then the
\* metrics written by rrdset_push_metrics_v1() or rrddim_push_metrics_v2()
\* and rrdset_push_metrics_finished() (lines 406-486), which commits them.
PushMetrics(c) ==
  /\ pc[c] = "values"
  /\ Commit(c, "BEGIN", {})
  /\ pc' = [pc EXCEPT ![c] = "idle"]
  /\ UNCHANGED <<hostVars, flags, version, exposed, local>>

\* A collector marks its chart obsolete and calls
\* rrdset_push_chart_definition_now() (lines 391-404): when definitions
\* can be sent to the parent and the chart is to be sent, its definition is
\* sent.  The collector does not collect the chart again.
PushChartDefinitionNow(c) ==
  /\ pc[c] = "idle"
  /\ c \in Obsoletable
  /\ "OBSOLETE" \notin flags[c]
  /\ LET fl == flags[c] \cup {"OBSOLETE"}
         go == connected /\ ShouldSend(c, fl)
     IN /\ flags' = [flags EXCEPT ![c] = IF connected THEN Classified(c, fl) ELSE fl]
        /\ pc' = [pc EXCEPT ![c] = IF go THEN "define" ELSE "idle"]
        /\ local' = [local EXCEPT ![c].origin = "now"]
  /\ UNCHANGED <<hostVars, version, exposed, sent, first>>

Collector(c) ==
  \/ MetricInitReadFlags(c)
  \/ MetricInitCheckChart(c)
  \/ SendChartDefinition(c)
  \/ MarkExposedUpstream(c)
  \/ PushMetrics(c)
  \/ PushChartDefinitionNow(c)

-----------------------------------------------------------------------------
(* Environment of the collectors, modelled from spec.md                    *)

\* The sender thread connects to a parent and negotiates capabilities.  The
\* buffer is flushed, so the new connection carries nothing committed
\* before it, and every chart must re-publish its definition (its metadata
\* version moves past the exposed one); then, once the host-level records
\* are sent, the sender is ready for metrics (spec 4.3 Reconnect).
SenderConnect ==
  /\ spawned /\ ~connected
  /\ conns < MaxConnections
  /\ \E cs \in NegotiableCaps : caps' = cs
  /\ connected' = TRUE /\ ready' = TRUE
  /\ conns' = conns + 1
  /\ version' = [c \in Charts |-> version[c] + 1]
  /\ sent' = [c \in Charts |-> {}]
  /\ first' = [c \in Charts |-> "none"]
  /\ UNCHANGED <<spawned, flags, exposed, replicating, metaUpdates, pc, local>>

\* The connection fails: the sender is no longer ready and every chart
\* loses SENDER_REPLICATION_FINISHED (spec 4.3 Reconnect, 4.5).
SenderDisconnect ==
  /\ connected
  /\ connected' = FALSE /\ ready' = FALSE
  /\ flags' = [c \in Charts |-> flags[c] \ {"SENDER_REPLICATION_FINISHED"}]
  /\ UNCHANGED <<spawned, conns, caps, version, exposed, replicating,
                 metaUpdates, sent, first, pc, local>>

\* The parent received CHART_DEFINITION_END of a replicating chart; the
\* replication of the chart completes and its flags are flipped back.
ReplicationFinished(c) ==
  /\ connected
  /\ "SENDER_REPLICATION_IN_PROGRESS" \in flags[c]
  /\ "CHART_DEFINITION_END" \in sent[c]
  /\ flags' = [flags EXCEPT ![c] = (@ \ {"SENDER_REPLICATION_IN_PROGRESS"})
                                   \cup {"SENDER_REPLICATION_FINISHED"}]
  /\ replicating' = replicating - 1
  /\ UNCHANGED <<ready, spawned, connected, conns, caps, version, exposed,
                 metaUpdates, sent, first, pc, local>>

\* The receiver finished replicating a chart of a child host.
ReceiverReplicationFinished(c) ==
  /\ "RECEIVER_REPLICATION_FINISHED" \notin flags[c]
  /\ flags' = [flags EXCEPT ![c] = @ \cup {"RECEIVER_REPLICATION_FINISHED"}]
  /\ UNCHANGED <<hostVars, version, exposed, sent, first, pc, local>>

\* rrdset_metadata_updated(): the chart's metadata changed, so its
\* definition has to be exposed again.
MetadataUpdated(c) ==
  /\ metaUpdates < MaxMetadataUpdates
  /\ version' = [version EXCEPT ![c] = @ + 1]
  /\ metaUpdates' = metaUpdates + 1
  /\ UNCHANGED <<ready, spawned, connected, conns, caps, flags, exposed,
                 replicating, sent, first, pc, local>>

-----------------------------------------------------------------------------

Init ==
  /\ ready = FALSE /\ spawned = FALSE /\ connected = FALSE
  /\ conns = 0 /\ caps = {}
  \* a new chart has nothing to replicate to the parent
  /\ flags = [c \in Charts |-> {"SENDER_REPLICATION_FINISHED"} \cup
                 (IF c \in Mirrored THEN {} ELSE {"RECEIVER_REPLICATION_FINISHED"})]
  /\ version = [c \in Charts |-> 1]
  /\ exposed = [c \in Charts |-> 0]
  /\ replicating = 0 /\ metaUpdates = 0
  /\ sent = [c \in Charts |-> {}]
  /\ first = [c \in Charts |-> "none"]
  /\ pc = [c \in Charts |-> "idle"]
  /\ local = [c \in Charts |-> [origin |-> "tick", inProgress |-> FALSE,
                                version |-> 0]]

Next ==
  \/ \E c \in Charts : Collector(c)
  \/ SenderConnect
  \/ SenderDisconnect
  \/ \E c \in Charts : ReplicationFinished(c)
  \/ \E c \in Charts : ReceiverReplicationFinished(c)
  \/ \E c \in Charts : MetadataUpdated(c)

\* Collectors run every update_every for as long as the agent runs; the
\* sender thread retries its connection; replication of a chart and of a
\* mirrored chart completes once it has been requested.
Fairness ==
  /\ \A c \in Charts : WF_vars(Collector(c))
  /\ WF_vars(SenderConnect)
  /\ \A c \in Charts : WF_vars(ReplicationFinished(c))
  /\ \A c \in Charts : WF_vars(ReceiverReplicationFinished(c))

Spec == Init /\ [][Next]_vars /\ Fairness

-----------------------------------------------------------------------------
(* Properties                                                              *)

\* P1, P7 of spec.md: on every connection, the first record the parent
\* receives for a chart is its definition, never a BEGIN of metrics.  A
\* collector decides between definition and metrics from the exposed state
\* it read before taking the commit mutex (lines 552-572).
DefinitionBeforeMetrics ==
  \A c \in Charts : first[c] \in {"none", "CHART"}

\* While a connection is up, a chart counts as exposed upstream only when
\* that connection has carried its definition: a reconnect or a metadata
\* change between the commit of a definition and the marking of it exposed
\* with the version taken before the commit (lines 225, 334-342) must not
\* leave the chart marked exposed.
ExposedImpliesDefinitionSent ==
  \A c \in Charts : connected /\ IsExposed(c) => "CHART" \in sent[c]

\* The host's count of replicating charts, raised by a definition that
\* starts replication (line 324) and lowered when replication ends, equals
\* the number of charts flagged SENDER_REPLICATION_IN_PROGRESS, also when a
\* definition is sent again while the chart replicates.
ReplicatingChartsCounted ==
  replicating = Cardinality({c \in Charts :
                               "SENDER_REPLICATION_IN_PROGRESS" \in flags[c]})

\* P6 of spec.md: a collector that is about to write metrics of a chart
\* never finds the chart replicating (lines 554-566).
NoMetricsWhileReplicating ==
  \A c \in Charts :
    pc[c] = "values" => "SENDER_REPLICATION_IN_PROGRESS" \notin flags[c]

\* A chart that is to be sent and is still collected keeps getting its
\* metrics to the parent for as long as a connection is up: publication,
\* replication (ended by the replication thread) and the per-tick decision
\* of rrdset_push_metric_initialize() (lines 552-574) never leave a
\* streamed chart silently skipped on every tick.
MetricsKeepFlowing ==
  \A c \in {x \in Charts : SendDecision(x)} :
    []<>(\/ pc[c] = "values"
         \/ ~connected
         \/ "OBSOLETE" \in flags[c])


-----------------------------------------------------------------------------
(* Refinement of the protocol's per-chart state machine (ChartStates)      *)

\* The definition of the chart's current metadata version has been
\* committed: marked exposed, or committed by its collector, which is
\* about to mark it (lines 334-342).
DefinitionCommitted(c) ==
  \/ IsExposed(c)
  \/ pc[c] = "mark" /\ local[c].version = version[c]

\* The state of spec.md 4.5 a chart is in, read from its flags the way
\* rrdset_push_metric_initialize() reads them (lines 552-566): sticky
\* UPSTREAM_IGNORE / UPSTREAM_SEND, the exposed state on a live connection,
\* and SENDER_REPLICATION_FINISHED.
ProtocolState(c) ==
  CASE "UPSTREAM_IGNORE" \in flags[c] -> "SUPPRESSED"
    [] "UPSTREAM_SEND" \notin flags[c] -> "UNDECIDED"
    [] ~connected \/ ~DefinitionCommitted(c) -> "PUBLISHED"
    [] "SENDER_REPLICATION_FINISHED" \in flags[c] -> "STREAMING"
    [] OTHER -> "REPLICATING"

Abstract == INSTANCE ChartStates
              WITH state <- [c \in Charts |-> ProtocolState(c)],
                   repl <- "REPLICATION" \in caps

\* The collectors, the sender and the replication thread together move
\* every chart only along the state machine of spec.md 4.5: classified
\* once and for good, replicating after a definition exactly when the
\* connection negotiated replication, streaming once replication is done
\* (the flags set by lines 321-324 and read by lines 552-566), and back to
\* publishing on a reconnect or a metadata change.
ChartStateMachine == Abstract!Safety

=============================================================================
