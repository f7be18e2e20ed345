------------------------------ MODULE Signals -------------------------------
(***************************************************************************)
(* Signal handling of the daemon (src/daemon/signals.c).  The main thread  *)
(* is the only one with signals unblocked, so signal_handler() runs on it, *)
(* between any two of its steps, with all signals masked: it only counts   *)
(* the signal in signals_waiting[].  The main thread, in signals_handle(), *)
(* sleeps in pause() until a handler has run, then scans the table, one    *)
(* entry per step, resetting each non-zero count and acting on it, and     *)
(* scans again for as long as a pass found something.                      *)
(***************************************************************************)
EXTENDS Naturals, Sequences

CONSTANTS
  Sendable,     \* the signals the environment sends
  MaxSends,     \* bound on signals sent
  MaxChildren   \* bound on child processes that exit

\* signals_waiting[] (lines 16-34): the signals in table order and their
\* actions.
Table == <<"SIGPIPE", "SIGINT", "SIGQUIT", "SIGTERM", "SIGHUP", "SIGUSR1",
           "SIGUSR2", "SIGBUS", "SIGCHLD">>
Action(s) ==
  CASE s = "SIGPIPE" -> "IGNORE"
    [] s \in {"SIGINT", "SIGQUIT", "SIGTERM"} -> "EXIT_CLEANLY"
    [] s = "SIGHUP" -> "REOPEN_LOGS"
    [] s = "SIGUSR1" -> "SAVE_DATABASE"
    [] s = "SIGUSR2" -> "RELOAD_HEALTH"
    [] s = "SIGBUS" -> "FATAL"
    [] s = "SIGCHLD" -> "CHILD"

SignalNames == {Table[i] : i \in 1..Len(Table)}

ASSUME Sendable \subseteq SignalNames /\ MaxSends \in Nat /\ MaxChildren \in Nat

VARIABLES
  count,      \* signals_waiting[].count of each signal
  mpc,        \* main thread: "paused", "scan" or "exited"
  idx,        \* the table entry the scan is at (Len(Table) + 1: end of pass)
  found,      \* the local found of the scan loop
  sends,      \* signals sent so far
  received,   \* history: handler runs of each signal
  acted,      \* history: actions taken for each signal
  exited,     \* child processes that exited and are not reaped
  childExits  \* child processes that exited so far

vars == <<count, mpc, idx, found, sends, received, acted, exited, childExits>>

\* Counts never exceed the signals that can be raised.
Counts == 0..(MaxSends + MaxChildren)

TypeOK ==
  /\ count \in [SignalNames -> Counts]
  /\ mpc \in {"paused", "scan", "exited"}
  /\ idx \in 1..Len(Table) + 1
  /\ found \in BOOLEAN
  /\ sends \in 0..MaxSends
  /\ received \in [SignalNames -> Counts] /\ acted \in [SignalNames -> Counts]
  /\ exited \in 0..MaxChildren /\ childExits \in 0..MaxChildren

-----------------------------------------------------------------------------

\* signal_handler() (lines 36-55), installed by signals_init() (lines
\* 74-96) for every signal but the ignored ones: count the signal.  A
\* handler that runs while the main thread is in pause() makes pause()
\* return with EINTR, and the scan starts (lines 187-194).
Deliver(s) ==
  /\ mpc # "exited"
  /\ Action(s) # "IGNORE"
  /\ count' = [count EXCEPT ![s] = @ + 1]
  /\ received' = [received EXCEPT ![s] = @ + 1]
  /\ IF mpc = "paused"
       THEN /\ mpc' = "scan" /\ idx' = 1 /\ found' = FALSE
       ELSE UNCHANGED <<mpc, idx, found>>

\* The environment sends a signal from Sendable (kill, the terminal).
Send ==
  /\ sends < MaxSends
  /\ sends' = sends + 1
  /\ \E s \in Sendable :
       IF Action(s) = "IGNORE" \/ mpc = "exited"
         THEN UNCHANGED <<count, mpc, idx, found, received>>
         ELSE Deliver(s)
  /\ UNCHANGED <<acted, exited, childExits>>

\* A child process exits and the kernel sends SIGCHLD.
ChildExit ==
  /\ childExits < MaxChildren
  /\ exited' = exited + 1 /\ childExits' = childExits + 1
  /\ IF mpc = "exited" THEN UNCHANGED <<count, mpc, idx, found, received>>
     ELSE Deliver("SIGCHLD")
  /\ UNCHANGED <<sends, acted>>

\* Variant: the count is not reset when the entry is acted on (line 201
\* dropped).
ScanEntryNoReset ==
  /\ mpc = "scan" /\ idx <= Len(Table)
  /\ LET s == Table[idx] IN
       /\ found' = (found \/ count[s] > 0)
       /\ acted' = IF count[s] > 0 THEN [acted EXCEPT ![s] = @ + 1] ELSE acted
       /\ idx' = idx + 1
  /\ UNCHANGED <<count, mpc, sends, received, childExits, exited>>

\* Lines 198-245, one table entry: a non-zero count is reset and its
\* action taken.  Exit and fatal end the process; SIGCHLD reaps every
\* exited child (reap_children(), lines 168-179); the others run a
\* command and return.
ScanEntry ==
  /\ mpc = "scan" /\ idx <= Len(Table)
  /\ LET s == Table[idx] IN
       IF count[s] = 0
         THEN /\ idx' = idx + 1
              /\ UNCHANGED <<count, mpc, found, acted, exited>>
         ELSE /\ count' = [count EXCEPT ![s] = 0]
              /\ found' = TRUE
              /\ acted' = [acted EXCEPT ![s] = @ + 1]
              /\ exited' = IF Action(s) = "CHILD" THEN 0 ELSE exited
              /\ IF Action(s) \in {"EXIT_CLEANLY", "FATAL"}
                   THEN mpc' = "exited" /\ UNCHANGED idx
                   ELSE idx' = idx + 1 /\ UNCHANGED mpc
  /\ UNCHANGED <<sends, received, childExits>>

\* Lines 193-194 and 182-187: at the end of a pass, scan again when the
\* pass found something, otherwise call pause() again.
EndOfPass ==
  /\ mpc = "scan" /\ idx = Len(Table) + 1
  /\ IF found THEN idx' = 1 /\ found' = FALSE /\ UNCHANGED mpc
     ELSE mpc' = "paused" /\ UNCHANGED <<idx, found>>
  /\ UNCHANGED <<count, sends, received, acted, exited, childExits>>

Init ==
  /\ count = [s \in SignalNames |-> 0]
  /\ mpc = "paused" /\ idx = 1 /\ found = FALSE
  /\ sends = 0
  /\ received = [s \in SignalNames |-> 0] /\ acted = [s \in SignalNames |-> 0]
  /\ exited = 0 /\ childExits = 0

Next == Send \/ ChildExit \/ ScanEntry \/ EndOfPass

\* The main thread runs whenever it is not asleep in pause().
Spec == Init /\ [][Next]_vars /\ WF_vars(ScanEntry \/ EndOfPass)

-----------------------------------------------------------------------------
(* Properties                                                              *)

\* The signal table as the rest of the daemon sees it: a signal is pending
\* while its count is not zero, the children not reaped are the zombies,
\* and the process lives until the main thread runs an exit or fatal
\* action.
Abstract == INSTANCE SignalTable WITH
  SignalSet <- SignalNames,
  Ignored <- {s \in SignalNames : Action(s) = "IGNORE"},
  Ending <- {s \in SignalNames : Action(s) \in {"EXIT_CLEANLY", "FATAL"}},
  Child <- "SIGCHLD",
  pending <- {s \in SignalNames : count[s] > 0},
  received <- received,
  acted <- acted,
  zombies <- exited,
  alive <- mpc # "exited"

\* The handler's count++ (line 41) and the scan's test and reset (lines
\* 199-201) implement SignalTable: every action the main thread takes
\* answers a signal then pending, a signal counted again before its entry
\* is scanned is acted on once and one counted while its entry is being
\* reset stays pending, SIGCHLD reaps every exited child, and nothing is
\* acted on after an exit or fatal action.
ImplementsSignalTable == Abstract!ASpec

\* A signal that has been counted is acted upon: pause() is never entered
\* with a counted signal waiting, so SIGTERM, SIGHUP or SIGCHLD is not left
\* until some other signal happens to arrive (lines 187-248).
SignalsEventuallyHandled ==
  \A s \in SignalNames : (count[s] > 0) ~> (count[s] = 0 \/ mpc = "exited")

\* Every exited child process is eventually reaped.
ChildrenReaped ==
  (exited > 0) ~> (exited = 0 \/ mpc = "exited")

=============================================================================
