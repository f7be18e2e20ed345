----------------------------- MODULE SignalTable -----------------------------
(***************************************************************************)
(* What signal handling promises the rest of the daemon, without the      *)
(* table scan: a caught signal is pending until the main thread acts on    *)
(* it; deliveries of a signal that is already pending are acted on once;   *)
(* the SIGCHLD action reaps every child that has exited; an action that    *)
(* ends the process is the last one.  Signals ignored by disposition are   *)
(* never pending.  No fairness: that a pending signal is acted on at all   *)
(* is a liveness question of its own (SignalsEventuallyHandled).           *)
(***************************************************************************)
EXTENDS Naturals

CONSTANTS
  SignalSet,  \* the signals with a disposition
  Ignored,    \* those whose disposition is SIG_IGN
  Ending,     \* those whose action ends the process
  Child       \* the signal a child's exit raises

VARIABLES
  pending,   \* signals caught and not yet acted on
  received,  \* deliveries of each signal so far
  acted,     \* actions taken for each signal so far
  zombies,   \* child processes that exited and are not reaped
  alive      \* the process has not ended

avars == <<pending, received, acted, zombies, alive>>

\* A signal from outside is caught.
Raise(s) ==
  /\ alive /\ s \notin Ignored
  /\ pending' = pending \cup {s}
  /\ received' = [received EXCEPT ![s] = @ + 1]
  /\ UNCHANGED <<acted, zombies, alive>>

\* A child exits; the kernel raises the child signal.
ChildExits ==
  /\ zombies' = zombies + 1
  /\ IF alive
       THEN /\ pending' = pending \cup {Child}
            /\ received' = [received EXCEPT ![Child] = @ + 1]
       ELSE UNCHANGED <<pending, received>>
  /\ UNCHANGED <<acted, alive>>

\* The main thread acts once on a pending signal.
Act(s) ==
  /\ alive /\ s \in pending
  /\ pending' = pending \ {s}
  /\ acted' = [acted EXCEPT ![s] = @ + 1]
  /\ zombies' = IF s = Child THEN 0 ELSE zombies
  /\ alive' = (s \notin Ending)
  /\ UNCHANGED received

AInit ==
  /\ pending = {}
  /\ received = [s \in SignalSet |-> 0] /\ acted = [s \in SignalSet |-> 0]
  /\ zombies = 0 /\ alive = TRUE

ANext == ChildExits \/ \E s \in SignalSet : Raise(s) \/ Act(s)

ASpec == AInit /\ [][ANext]_avars

=============================================================================
