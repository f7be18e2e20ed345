------------------------------ MODULE Receiver ------------------------------
(***************************************************************************)
(* The parent side of streaming: admission of inbound stream requests by   *)
(* rrdpush_receiver_thread_spawn() (rrdpush.c 913-1331), run concurrently  *)
(* by the web server's worker threads, one per request, and the receiver   *)
(* threads it spawns.                                                      *)
(*                                                                         *)
(* A web thread validates the request, passes the global rate limiter      *)
(* (a static spinlock-protected timestamp), looks up the host's receiver   *)
(* slot under the host's receiver_lock, stops a stale receiver, and either *)
(* answers 409 or hands the socket to a new receiver thread and answers    *)
(* 200.  The receiver thread (rrdpush_receiver_thread, not in src/) is     *)
(* modelled from spec.md 4.4, 5 and I2: it attaches to the host's slot     *)
(* under the host lock unless a receiver is attached already, refreshes    *)
(* last_msg_t on every record, and detaches on exit.  stop_streaming_      *)
(* receiver() (not in src/) signals the attached receiver and succeeds     *)
(* once the slot is empty, or gives up.                                    *)
(***************************************************************************)
EXTENDS Naturals, FiniteSets

CONSTANTS
  Requests,     \* inbound stream requests (one web worker thread each)
  Guid,         \* Guid[r]: the machine_guid of request r
  LocalGuid,    \* localhost->machine_guid
  Valid,        \* requests whose key, hostname, guid and config checks pass
  RateT,        \* web_client_streaming_rate_t, 0 disables the limiter
  StaleAfter,   \* the age (30 s in the code) after which a receiver is stale
  MaxTime,      \* bound on the clock
  None          \* no receiver attached

ASSUME Valid \subseteq Requests /\ RateT \in Nat /\ StaleAfter \in Nat \ {0}
ASSUME MaxTime \in Nat /\ None \notin Requests

Hosts == {Guid[r] : r \in Requests}

\* Web thread program counters and the HTTP responses.
WebPCs == {"parse", "rate", "lookup", "stop", "stopwait", "decide", "done"}
Responses == {"none", "401", "200_localhost", "503", "409", "500", "200"}

\* Receiver thread states.
RecvStates == {"none", "starting", "attached", "exited"}

VARIABLES
  now,          \* now_monotonic_sec() and now_realtime_sec(), in step
  lastAccepted, \* the static last_stream_accepted_t of the rate limiter
  wpc,          \* web thread of each request: where it is
  resp,         \* the HTTP response of each request
  working,      \* the local receiver_working of each web thread
  stale,        \* the local receiver_stale of each web thread
  slot,         \* host->receiver of each host
  rstate,       \* the receiver thread of each request
  lastMsg,      \* rpt->last_msg_t of each request
  stopReq,      \* receivers signalled to stop
  admittedAt    \* history: when the rate limiter let each request through

vars == <<now, lastAccepted, wpc, resp, working, stale, slot, rstate,
          lastMsg, stopReq, admittedAt>>

TypeOK ==
  /\ now \in 0..MaxTime /\ lastAccepted \in 0..MaxTime
  /\ wpc \in [Requests -> WebPCs] /\ resp \in [Requests -> Responses]
  /\ working \in [Requests -> BOOLEAN] /\ stale \in [Requests -> BOOLEAN]
  /\ slot \in [Hosts -> Requests \cup {None}]
  /\ rstate \in [Requests -> RecvStates]
  /\ lastMsg \in [Requests -> 0..MaxTime]
  /\ stopReq \subseteq Requests
  /\ admittedAt \in [Requests -> 0..MaxTime \cup {None}]

-----------------------------------------------------------------------------
(* Web worker threads                                                      *)

\* Lines 913-1213: allocate rpt with last_msg_t = now, parse the query, run
\* the validations (any failure: 401), and answer a request carrying our own
\* machine GUID with the "same localhost" marker.  The checks read only the
\* request and the configuration, so they are one step.
ParseAndValidate(r) ==
  /\ wpc[r] = "parse"
  /\ lastMsg' = [lastMsg EXCEPT ![r] = now]
  /\ IF r \notin Valid
       THEN /\ resp' = [resp EXCEPT ![r] = "401"] /\ wpc' = [wpc EXCEPT ![r] = "done"]
     ELSE IF Guid[r] = LocalGuid
       THEN /\ resp' = [resp EXCEPT ![r] = "200_localhost"]
            /\ wpc' = [wpc EXCEPT ![r] = "done"]
     ELSE /\ wpc' = [wpc EXCEPT ![r] = IF RateT > 0 THEN "rate" ELSE "lookup"]
          /\ UNCHANGED resp
  /\ UNCHANGED <<now, lastAccepted, working, stale, slot, rstate, stopReq,
                 admittedAt>>

\* Variant: the timestamp is not moved to now when a request is let
\* through (line 1240 dropped).
RateLimitNoUpdate(r) ==
  /\ wpc[r] = "rate"
  /\ LET last == IF lastAccepted = 0 THEN now ELSE lastAccepted
     IN IF now - last < RateT
          THEN /\ resp' = [resp EXCEPT ![r] = "503"]
               /\ wpc' = [wpc EXCEPT ![r] = "done"]
               /\ lastAccepted' = last
               /\ UNCHANGED admittedAt
          ELSE /\ lastAccepted' = last
               /\ wpc' = [wpc EXCEPT ![r] = "lookup"]
               /\ admittedAt' = [admittedAt EXCEPT ![r] = now]
               /\ UNCHANGED resp
  /\ UNCHANGED <<now, working, stale, slot, rstate, lastMsg, stopReq>>

\* Lines 1215-1243, under the static spinlock: a zero timestamp is first set
\* to now; a request within RateT seconds of the timestamp is answered 503,
\* any other sets the timestamp to now and goes on.
RateLimit(r) ==
  /\ wpc[r] = "rate"
  /\ LET last == IF lastAccepted = 0 THEN now ELSE lastAccepted
     IN IF now - last < RateT
          THEN /\ resp' = [resp EXCEPT ![r] = "503"]
               /\ wpc' = [wpc EXCEPT ![r] = "done"]
               /\ lastAccepted' = last
               /\ UNCHANGED admittedAt
          ELSE /\ lastAccepted' = now
               /\ wpc' = [wpc EXCEPT ![r] = "lookup"]
               /\ admittedAt' = [admittedAt EXCEPT ![r] = now]
               /\ UNCHANGED resp
  /\ UNCHANGED <<now, working, stale, slot, rstate, lastMsg, stopReq>>

\* Lines 1254-1275, under rrd_rdlock and the host's receiver_lock: classify
\* the attached receiver, if any, as working (age < 30) or stale.
LookupReceiver(r) ==
  /\ wpc[r] = "lookup"
  /\ LET cur == slot[Guid[r]]
         age == now - lastMsg[cur]
     IN /\ working' = [working EXCEPT ![r] = cur # None /\ age < StaleAfter]
        /\ stale' = [stale EXCEPT ![r] = cur # None /\ age >= StaleAfter]
        /\ wpc' = [wpc EXCEPT ![r] = IF cur # None /\ age >= StaleAfter
                                     THEN "stop" ELSE "decide"]
  /\ UNCHANGED <<now, lastAccepted, resp, slot, rstate, lastMsg, stopReq,
                 admittedAt>>

\* Line 1278, after the locks are released: stop_streaming_receiver()
\* signals the receiver then attached to the host to stop.
StopStale(r) ==
  /\ wpc[r] = "stop"
  /\ stopReq' = IF slot[Guid[r]] # None THEN stopReq \cup {slot[Guid[r]]}
                ELSE stopReq
  /\ wpc' = [wpc EXCEPT ![r] = "stopwait"]
  /\ UNCHANGED <<now, lastAccepted, resp, working, stale, slot, rstate,
                 lastMsg, admittedAt>>

\* Lines 1278-1287: stop_streaming_receiver() returns true when the host
\* has no receiver any more (the stale flag is cleared), and false when it
\* gives up waiting while one is still attached.
StopResult(r) ==
  /\ wpc[r] = "stopwait"
  /\ stale' = [stale EXCEPT ![r] = slot[Guid[r]] # None]
  /\ wpc' = [wpc EXCEPT ![r] = "decide"]
  /\ UNCHANGED <<now, lastAccepted, resp, working, slot, rstate, lastMsg,
                 stopReq, admittedAt>>

\* Lines 1289-1330: 409 when a receiver is working or still stale;
\* otherwise take over the socket and create the receiver thread (200), or
\* answer 500 when the thread cannot be created.
Decide(r) ==
  /\ wpc[r] = "decide"
  /\ wpc' = [wpc EXCEPT ![r] = "done"]
  /\ IF working[r] \/ stale[r]
       THEN /\ resp' = [resp EXCEPT ![r] = "409"] /\ UNCHANGED rstate
       ELSE \/ /\ resp' = [resp EXCEPT ![r] = "200"]
               /\ rstate' = [rstate EXCEPT ![r] = "starting"]
            \/ /\ resp' = [resp EXCEPT ![r] = "500"] /\ UNCHANGED rstate
  /\ UNCHANGED <<now, lastAccepted, working, stale, slot, lastMsg, stopReq,
                 admittedAt>>

Web(r) ==
  \/ ParseAndValidate(r) \/ RateLimit(r) \/ LookupReceiver(r)
  \/ StopStale(r) \/ StopResult(r) \/ Decide(r)

-----------------------------------------------------------------------------
(* Receiver threads and time, modelled from spec.md                        *)

\* The receiver thread, after the handshake, attaches to its host under
\* the host lock; a host with a receiver attached already refuses it and
\* the thread exits (I2).
RecvAttach(r) ==
  /\ rstate[r] = "starting"
  /\ IF slot[Guid[r]] = None
       THEN /\ slot' = [slot EXCEPT ![Guid[r]] = r]
            /\ rstate' = [rstate EXCEPT ![r] = "attached"]
       ELSE /\ rstate' = [rstate EXCEPT ![r] = "exited"] /\ UNCHANGED slot
  /\ UNCHANGED <<now, lastAccepted, wpc, resp, working, stale, lastMsg,
                 stopReq, admittedAt>>

\* Every record parsed refreshes last_msg_t.
RecvMessage(r) ==
  /\ rstate[r] = "attached" /\ r \notin stopReq
  /\ lastMsg' = [lastMsg EXCEPT ![r] = now]
  /\ UNCHANGED <<now, lastAccepted, wpc, resp, working, stale, slot, rstate,
                 stopReq, admittedAt>>

\* The receiver thread returns, when signalled or when its socket fails,
\* and clears the host's receiver under the host lock.
RecvExit(r) ==
  /\ rstate[r] = "attached"
  /\ rstate' = [rstate EXCEPT ![r] = "exited"]
  /\ slot' = [slot EXCEPT ![Guid[r]] = None]
  /\ UNCHANGED <<now, lastAccepted, wpc, resp, working, stale, lastMsg,
                 stopReq, admittedAt>>

\* One second passes.
Tick ==
  /\ now < MaxTime
  /\ now' = now + 1
  /\ UNCHANGED <<lastAccepted, wpc, resp, working, stale, slot, rstate,
                 lastMsg, stopReq, admittedAt>>

Init ==
  /\ now = 1 /\ lastAccepted = 0
  /\ wpc = [r \in Requests |-> "parse"] /\ resp = [r \in Requests |-> "none"]
  /\ working = [r \in Requests |-> FALSE] /\ stale = [r \in Requests |-> FALSE]
  /\ slot = [h \in Hosts |-> None]
  /\ rstate = [r \in Requests |-> "none"]
  /\ lastMsg = [r \in Requests |-> 0]
  /\ stopReq = {}
  /\ admittedAt = [r \in Requests |-> None]

Next ==
  \/ \E r \in Requests : Web(r)
  \/ \E r \in Requests : RecvAttach(r) \/ RecvMessage(r) \/ RecvExit(r)
  \/ Tick

\* Web threads and started receiver threads run; a signalled receiver
\* exits.  A receiver's socket may fail at any time, which is not fair.
Fairness ==
  /\ \A r \in Requests : WF_vars(Web(r)) /\ WF_vars(RecvAttach(r))
  /\ \A r \in Requests : WF_vars(r \in stopReq /\ RecvExit(r))

Spec == Init /\ [][Next]_vars /\ Fairness

-----------------------------------------------------------------------------
(* Properties                                                              *)

\* The rate limiter, under its spinlock, lets at most one request through
\* in any RateT seconds, however many web threads reach it at once.
RateLimitSpacing ==
  \A r, q \in Requests :
    r # q /\ admittedAt[r] # None /\ admittedAt[q] # None =>
      \/ admittedAt[r] - admittedAt[q] >= RateT
      \/ admittedAt[q] - admittedAt[r] >= RateT

\* P3 of spec.md: a takeover never stops a receiver that is working.  The
\* web thread judges the receiver stale under the host lock (line 1267) and
\* stops whatever receiver the host has after releasing it (line 1278).
FreshReceiverNotStopped ==
  \A r \in stopReq : rstate[r] = "attached" => now - lastMsg[r] >= StaleAfter

=============================================================================
