--------------------------- MODULE SenderLifecycle ---------------------------
(***************************************************************************)
(* The life of a host's sender thread (spec.md C3) and its destination     *)
(* registry (C2), rrdpush.c 714-869.                                       *)
(*                                                                         *)
(* Collector threads that find the sender not ready spawn it through the   *)
(* spawn gate: an atomic read of the host flags, then, under the sender    *)
(* lock, a second test of SENDER_SPAWN, the thread creation (which may     *)
(* fail) and the setting of the flag.  rrdpush_sender_thread_stop()        *)
(* cancels the thread named by host->rrdpush_sender_thread when SPAWN is   *)
(* set and may wait, polling under the lock, until sender->tid is 0.       *)
(*                                                                         *)
(* The sender thread itself (rrdpush_sender_thread, not in src/) is        *)
(* modelled from spec.md 4.2, 4.3 and 5: once running it records its tid, *)
(* connects through connect_to_one_of_destinations(), becomes ready for    *)
(* metrics, may lose the connection, and when cancelled its cleanup        *)
(* handler clears SENDER_SPAWN, the ready flag and the tid.  Each section  *)
(* under the sender lock touches nothing else and is one step.  Time is    *)
(* abstracted to the set of destinations whose postpone time lies ahead.   *)
(***************************************************************************)
EXTENDS Naturals, Sequences, SequencesExt

CONSTANTS
  Collectors,   \* collector threads of the host
  Destinations, \* the parsed "destination" setting, in configuration order
  MaxSpawns,    \* bound on sender threads created
  NoDest        \* no destination

ASSUME IsInjective(Destinations) /\ MaxSpawns \in Nat \ {0}
ASSUME NoDest \notin ToSet(Destinations)

Threads == 1..MaxSpawns
NoThread == 0

\* States of a sender thread.
ThreadStates == {"none", "created", "running", "connected", "exited"}
Live == {"created", "running", "connected"}

VARIABLES
  spawnFlag,  \* RRDHOST_FLAG_RRDPUSH_SENDER_SPAWN
  ready,      \* RRDHOST_FLAG_RRDPUSH_SENDER_READY_4_METRICS
  recvDisc,   \* RRDHOST_FLAG_RRDPUSH_RECEIVER_DISCONNECTED
  thread,     \* every sender thread created so far
  created,    \* number of sender threads created
  handle,     \* host->rrdpush_sender_thread
  tid,        \* host->sender->tid
  cancelled,  \* threads netdata_thread_cancel() was called on
  cpc,        \* collector threads: "idle" or "spawn" (inside the gate)
  spc,        \* the thread calling rrdpush_sender_thread_stop()
  waitArg,    \* its wait argument
  dests,      \* host->destinations, in list order
  postponed,  \* destinations with postpone_reconnection_until > now
  current     \* host->sender's destination, the one connected to

vars == <<spawnFlag, ready, recvDisc, thread, created, handle, tid, cancelled,
          cpc, spc, waitArg, dests, postponed, current>>

TypeOK ==
  /\ spawnFlag \in BOOLEAN /\ ready \in BOOLEAN /\ recvDisc \in BOOLEAN
  /\ thread \in [Threads -> ThreadStates]
  /\ created \in 0..MaxSpawns
  /\ handle \in Threads \cup {NoThread} /\ tid \in Threads \cup {NoThread}
  /\ cancelled \subseteq Threads
  /\ cpc \in [Collectors -> {"idle", "spawn"}]
  /\ spc \in {"idle", "wait", "done"} /\ waitArg \in BOOLEAN
  /\ dests \in [1..Len(Destinations) -> ToSet(Destinations)]
  /\ postponed \subseteq ToSet(Destinations)
  /\ current \in ToSet(Destinations) \cup {NoDest}

-----------------------------------------------------------------------------
(* Destination registry                                                    *)

\* rrdpush_destinations_init() (lines 790-804): the entries of the
\* connection string, each added by destinations_init_add_one() (lines
\* 766-788) at the tail, after rrdpush_destinations_free() (806-817)
\* emptied the list.  The ":SSL" suffix and the strings are abstracted.
DestinationsInit == Destinations

\* The entries connect_to_one_of_destinations() (lines 714-758) tries, in
\* list order: those not postponed.
Eligible(ds, pp) == SelectSeq(ds, LAMBDA d : d \notin pp)

\* Variant: the entry is appended at the tail without being unlinked
\* first (the DOUBLE_LINKED_LIST_REMOVE_ITEM_UNSAFE of line 752 dropped).
MoveToTailNoRemove(ds, d) == ds \o <<d>>

\* Lines 744-753: the entry connected to moves to the end of the list.
MoveToTail(ds, d) == Remove(ds, d) \o <<d>>

\* rrdpush_reset_destinations_postpone_time() (lines 1332-1337): every
\* destination of the host is postponed by the reconnect delay.
ResetPostponeTime(ds) == ToSet(ds)

-----------------------------------------------------------------------------
(* Collector threads: the spawn gate                                       *)

\* rrdset_push_metric_initialize(), lines 526-531: one atomic load of the
\* host flags; a sender not ready, not spawned and not refused by a
\* disconnected receiver is to be spawned.
SpawnCheck(c) ==
  /\ cpc[c] = "idle"
  /\ ~ready /\ ~spawnFlag /\ ~recvDisc
  /\ cpc' = [cpc EXCEPT ![c] = "spawn"]
  /\ UNCHANGED <<spawnFlag, ready, recvDisc, thread, created, handle, tid,
                 cancelled, spc, waitArg, dests, postponed, current>>

\* Variant: the thread is created without testing SENDER_SPAWN again
\* under the sender lock (line 858 dropped).
SenderThreadSpawnNoRecheck(c) ==
  /\ cpc[c] = "spawn"
  /\ cpc' = [cpc EXCEPT ![c] = "idle"]
  /\ \/ /\ created < MaxSpawns
        /\ thread' = [thread EXCEPT ![created + 1] = "created"]
        /\ handle' = created + 1 /\ created' = created + 1
        /\ spawnFlag' = TRUE
     \/ UNCHANGED <<thread, handle, created, spawnFlag>>
  /\ UNCHANGED <<ready, recvDisc, tid, cancelled, spc, waitArg, dests,
                 postponed, current>>

\* Variant: SENDER_SPAWN is set whether or not the thread was created.
SenderThreadSpawnFlagAlways(c) ==
  /\ cpc[c] = "spawn"
  /\ cpc' = [cpc EXCEPT ![c] = "idle"]
  /\ IF spawnFlag
       THEN UNCHANGED <<thread, handle, created, spawnFlag>>
       ELSE /\ spawnFlag' = TRUE
            /\ \/ /\ created < MaxSpawns
                  /\ thread' = [thread EXCEPT ![created + 1] = "created"]
                  /\ handle' = created + 1 /\ created' = created + 1
               \/ UNCHANGED <<thread, handle, created>>
  /\ UNCHANGED <<ready, recvDisc, tid, cancelled, spc, waitArg, dests,
                 postponed, current>>

\* rrdpush_sender_thread_spawn() (lines 855-869), under the sender lock:
\* when SENDER_SPAWN is still clear, create the thread, which stores its
\* handle in host->rrdpush_sender_thread, and set the flag; a failed
\* creation is only logged.
SenderThreadSpawn(c) ==
  /\ cpc[c] = "spawn"
  /\ cpc' = [cpc EXCEPT ![c] = "idle"]
  /\ IF spawnFlag
       THEN UNCHANGED <<thread, handle, created, spawnFlag>>
       ELSE \/ /\ created < MaxSpawns
               /\ thread' = [thread EXCEPT ![created + 1] = "created"]
               /\ handle' = created + 1 /\ created' = created + 1
               /\ spawnFlag' = TRUE
            \/ UNCHANGED <<thread, handle, created, spawnFlag>>
  /\ UNCHANGED <<ready, recvDisc, tid, cancelled, spc, waitArg, dests,
                 postponed, current>>

-----------------------------------------------------------------------------
(* rrdpush_sender_thread_stop()                                            *)

\* Lines 821-836, under the sender lock: when SENDER_SPAWN is set, record
\* the shutdown and its reason (read by the sender for its logs) and
\* cancel the thread named by host->rrdpush_sender_thread.  The callers
\* stop the sender when the host's receiver has left or the host is being
\* freed (comment of line 819); the receiver's departure sets
\* RECEIVER_DISCONNECTED.
SenderThreadStop ==
  /\ spc = "idle"
  /\ \E w \in BOOLEAN :
       /\ waitArg' = w
       /\ spc' = IF w THEN "wait" ELSE "done"
  /\ cancelled' = IF spawnFlag THEN cancelled \cup {handle} ELSE cancelled
  /\ UNCHANGED <<spawnFlag, ready, recvDisc, thread, created, handle, tid,
                 cpc, dests, postponed, current>>

\* Lines 838-846: with wait, poll sender->tid under the lock every 10 ms
\* and return once it is 0.
SenderThreadStopWait ==
  /\ spc = "wait" /\ tid = NoThread
  /\ spc' = "done"
  /\ UNCHANGED <<spawnFlag, ready, recvDisc, thread, created, handle, tid,
                 cancelled, cpc, waitArg, dests, postponed, current>>

-----------------------------------------------------------------------------
(* The sender thread, modelled from spec.md 4.2, 4.3 and 5                 *)

\* The thread starts running and records its tid.
SenderStart(t) ==
  /\ thread[t] = "created"
  /\ thread' = [thread EXCEPT ![t] = "running"]
  /\ tid' = t
  /\ UNCHANGED <<spawnFlag, ready, recvDisc, created, handle, cancelled, cpc,
                 spc, waitArg, dests, postponed, current>>

\* connect_to_one_of_destinations() (lines 714-758): the entries not
\* postponed are tried in list order; the first that accepts is the one
\* connected to and moves to the tail (entries that refuse leave no trace
\* the model keeps: attempts and since are statistics).  After the
\* handshake the sender resets the postpone time of every entry (spec
\* 4.3 Reconnect) and is ready for metrics.
SenderConnect(t) ==
  /\ thread[t] = "running"
  /\ \E d \in ToSet(Eligible(dests, postponed)) :
       /\ dests' = MoveToTail(dests, d)
       /\ current' = d
  /\ postponed' = ResetPostponeTime(dests')
  /\ thread' = [thread EXCEPT ![t] = "connected"]
  /\ ready' = TRUE
  /\ UNCHANGED <<spawnFlag, recvDisc, created, handle, tid, cancelled, cpc,
                 spc, waitArg>>

\* The connection fails or the parent closes it: the sender is no longer
\* ready and will reconnect (spec 4.3 Reconnect).
SenderDisconnect(t) ==
  /\ thread[t] = "connected"
  /\ thread' = [thread EXCEPT ![t] = "running"]
  /\ ready' = FALSE
  /\ current' = NoDest
  /\ UNCHANGED <<spawnFlag, recvDisc, created, handle, tid, cancelled, cpc,
                 spc, waitArg, dests, postponed>>

\* A cancelled thread acts on the cancellation at its next cancellation
\* point; its cleanup handler releases the buffer and the connection and
\* clears SENDER_SPAWN, the ready flag and the tid (spec 5 Cancellation).
SenderCancelled(t) ==
  /\ thread[t] \in {"running", "connected"} /\ t \in cancelled
  /\ thread' = [thread EXCEPT ![t] = "exited"]
  /\ spawnFlag' = FALSE /\ ready' = FALSE /\ tid' = NoThread
  /\ current' = NoDest
  /\ UNCHANGED <<recvDisc, created, handle, cancelled, cpc, spc, waitArg,
                 dests, postponed>>

\* The postpone time of a destination passes.
PostponeExpires(d) ==
  /\ d \in postponed
  /\ postponed' = postponed \ {d}
  /\ UNCHANGED <<spawnFlag, ready, recvDisc, thread, created, handle, tid,
                 cancelled, cpc, spc, waitArg, dests, current>>

\* The host's receiver leaves (a child host): RECEIVER_DISCONNECTED.
ReceiverLeaves ==
  /\ ~recvDisc
  /\ recvDisc' = TRUE
  /\ UNCHANGED <<spawnFlag, ready, thread, created, handle, tid, cancelled,
                 cpc, spc, waitArg, dests, postponed, current>>

-----------------------------------------------------------------------------

Init ==
  /\ spawnFlag = FALSE /\ ready = FALSE /\ recvDisc = FALSE
  /\ thread = [t \in Threads |-> "none"]
  /\ created = 0 /\ handle = NoThread /\ tid = NoThread
  /\ cancelled = {}
  /\ cpc = [c \in Collectors |-> "idle"]
  /\ spc = "idle" /\ waitArg = FALSE
  /\ dests = DestinationsInit /\ postponed = {}
  /\ current = NoDest

Next ==
  \/ \E c \in Collectors : SpawnCheck(c) \/ SenderThreadSpawn(c)
  \/ SenderThreadStop \/ SenderThreadStopWait
  \/ \E t \in Threads : \/ SenderStart(t) \/ SenderConnect(t)
                        \/ SenderDisconnect(t) \/ SenderCancelled(t)
  \/ \E d \in ToSet(Destinations) : PostponeExpires(d)
  \/ ReceiverLeaves

\* Threads that run are scheduled: collectors go through the gate on
\* every tick, a created thread starts, a cancelled thread reaches a
\* cancellation point, a waiting stop polls, and postpone times pass.  A
\* thread creation may fail, but not on every tick forever (strong
\* fairness of a creation that sets SENDER_SPAWN).  Connecting may fail
\* forever and connections may drop at any time: no fairness.
Fairness ==
  /\ \A c \in Collectors : /\ WF_vars(SpawnCheck(c))
                          /\ WF_vars(SenderThreadSpawn(c))
                          /\ SF_vars(SenderThreadSpawn(c) /\ spawnFlag')
  /\ \A t \in Threads : WF_vars(SenderStart(t)) /\ WF_vars(SenderCancelled(t))
  /\ WF_vars(SenderThreadStopWait)
  /\ \A d \in ToSet(Destinations) : WF_vars(PostponeExpires(d))

Spec == Init /\ [][Next]_vars /\ Fairness

-----------------------------------------------------------------------------
(* Properties                                                              *)

\* I1 of spec.md: a host has at most one sender thread at a time, however
\* collectors race through the spawn gate (lines 528-531, 855-869) and
\* however a cancelled sender's cleanup and a respawn interleave.
OneSenderThread ==
  \A t, u \in Threads : thread[t] \in Live /\ thread[u] \in Live => t = u

\* rrdpush_sender_thread_stop() cancels host->rrdpush_sender_thread
\* whenever SENDER_SPAWN is set (lines 828-835): while the flag is set,
\* that handle names a sender thread that has not exited, so a failed
\* creation or an earlier thread's cleanup never leaves the cancel aimed
\* at a dead thread.
CancelTargetsLiveSender ==
  spawnFlag => handle # NoThread /\ thread[handle] \in Live


\* A failed thread creation is only logged (lines 862-863) and leaves
\* SENDER_SPAWN clear, so a later tick of a collector spawns again: as
\* long as the host's receiver has not left, the host eventually has a
\* running sender thread, whatever the failures, stops and cleanups
\* before (up to the bound on threads created).
SenderEventuallyRuns ==
  ~recvDisc ~> (tid # NoThread \/ recvDisc \/ created = MaxSpawns)

=============================================================================
