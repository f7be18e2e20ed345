---------------------------- MODULE ChartStates -----------------------------
(***************************************************************************)
(* What the chart publication protocol promises (spec.md 4.5), one chart   *)
(* at a time: the state machine of a chart on the connections the sender   *)
(* makes.  A chart is classified once, to be sent (PUBLISHED) or not       *)
(* (SUPPRESSED), and the decision is sticky.  On a connection a published  *)
(* chart has its definition sent, after which it replicates, when the      *)
(* connection negotiated replication, or streams; a replicating chart      *)
(* streams once its replication is done; a definition sent again starts    *)
(* that over.  A disconnect sends every published chart back to the start  *)
(* of the next connection, and a metadata change makes a chart publish its *)
(* definition again.                                                       *)
(***************************************************************************)
CONSTANT Charts

VARIABLES
  state,      \* the state of every chart
  connected,  \* a connection to the parent is up
  repl        \* the current connection negotiated replication

vars == <<state, connected, repl>>

States == {"UNDECIDED", "PUBLISHED", "SUPPRESSED", "REPLICATING", "STREAMING"}

\* The states of a chart whose definition went out on this connection.
Sent == {"REPLICATING", "STREAMING"}

TypeOK ==
  /\ state \in [Charts -> States]
  /\ connected \in BOOLEAN /\ repl \in BOOLEAN

Init ==
  /\ state = [c \in Charts |-> "UNDECIDED"]
  /\ connected = FALSE /\ repl = FALSE

\* match / no-match: the sticky classification of an undecided chart.
Classify(c) ==
  /\ state[c] = "UNDECIDED"
  /\ \E s \in {"PUBLISHED", "SUPPRESSED"} : state' = [state EXCEPT ![c] = s]
  /\ UNCHANGED <<connected, repl>>

\* def sent: the definition of a published chart goes out on the current
\* connection; the chart replicates when replication was negotiated.  A
\* definition may also be sent again, as for a chart made obsolete.
DefinitionSent(c) ==
  /\ connected /\ state[c] \in {"PUBLISHED"} \cup Sent
  /\ state' = [state EXCEPT ![c] = IF repl THEN "REPLICATING" ELSE "STREAMING"]
  /\ UNCHANGED <<connected, repl>>

\* done: the replication of the chart has completed.
ReplicationDone(c) ==
  /\ connected /\ state[c] = "REPLICATING"
  /\ state' = [state EXCEPT ![c] = "STREAMING"]
  /\ UNCHANGED <<connected, repl>>

\* The metadata of a chart changed: its definition is due again.
Republish(c) ==
  /\ connected /\ state[c] \in Sent
  /\ state' = [state EXCEPT ![c] = "PUBLISHED"]
  /\ UNCHANGED <<connected, repl>>

\* disconnect: every chart published on the connection starts over.
Disconnect ==
  /\ connected
  /\ connected' = FALSE
  /\ state' = [c \in Charts |-> IF state[c] \in Sent THEN "PUBLISHED" ELSE state[c]]
  /\ UNCHANGED repl

\* A new connection, which may or may not negotiate replication.
Connect ==
  /\ ~connected
  /\ connected' = TRUE
  /\ repl' \in BOOLEAN
  /\ UNCHANGED state

Next ==
  \/ \E c \in Charts : Classify(c) \/ DefinitionSent(c) \/ ReplicationDone(c)
                       \/ Republish(c)
  \/ Disconnect
  \/ Connect

Safety == Init /\ [][UNCHANGED vars \/ Next]_vars

=============================================================================
