# TLA+ models of netdata streaming, signal handling and the disk-space collector

This directory holds TLA+ specifications of the concurrent and stateful
parts of three source files of this repository, the TLC configurations that
check them, and `PROJECT.json`, which maps every definition to the lines of
code it models and lists the runs, mutants, findings and hazards.

## The system

| Part | Source | What it does |
|---|---|---|
| C5 chart publication | `src/streaming/rrdpush.c` 161-187, 222-486, 522-575 | Every collector thread, on every tick, decides per chart whether to send its definition, its metrics or nothing (`rrdset_push_metric_initialize`), classifies the chart once (`should_send_chart_matching`), writes the definition and starts replication (`rrdpush_send_chart_definition`), and pushes the definition of a chart made obsolete (`rrdset_push_chart_definition_now`). |
| C3 sender lifecycle | `rrdpush.c` 819-869 | Spawn gate (`rrdpush_sender_thread_spawn`) and stop-and-wait (`rrdpush_sender_thread_stop`). The sender thread itself (connect, send loop, reconnect) is not in `src/`. |
| C2 destinations | `rrdpush.c` 714-817 | The ordered list of parents, `connect_to_one_of_destinations` with postponement and rotation, rebuild and free of the list. |
| C4 receiver admission | `rrdpush.c` 871-1331 | `rrdpush_receiver_thread_spawn`: parameter parsing, validation, the same-localhost check, the global rate limit, duplicate detection with stale-receiver takeover, and hand-off to a receiver thread (not in `src/`). |
| C1 capabilities | `rrdpush.c` 1390-1529 | Our capabilities, the mapping of a peer's protocol version to capabilities and the reduction rules. |
| Signals | `src/daemon/signals.c` | An async signal handler counts signals in a table; the main thread `pause()`s and then dispatches the counted signals (reload, log reopen, save, exit, child reaping). |
| Disk space | `src/collectors/diskspace.plugin/plugin_diskspace.c` | A main thread and a slow-path worker thread share the mount-point dictionary: the main thread collects fast mounts and queues slow ones, the worker collects the queue, both mark and clean up stale mounts. |

How they interact: the collectors (C5) find out from host flags whether the
sender (C3) is ready; the first not-ready tick spawns it. The sender picks a
parent from the destinations (C2), negotiates capabilities (C1) and, on a
disconnect, re-arms every chart so the collectors re-send definitions. On the
parent, the receiver (C4) admits the child's connection and its thread
replicates the child's charts, which lets charts of a mirrored host be
re-streamed further up (`RECEIVER_REPLICATION_FINISHED`). Signals and the
disk-space plugin do not interact with streaming except through the daemon.

## Modules

### ChartPublication (C5) — `ChartPublication.tla`, `ChartStates.tla`, `MCChartPublication.tla`

State: per chart its flags (the six flags the code reads and writes), its
metadata `version` and the `exposed` version, the collector thread's program
counter `pc` and the locals of its current call; per host the
`READY_4_METRICS` and `SPAWN` flags, whether a connection is up, its
capabilities, and the counter of replicating charts. What the parent has
received for each chart on the current connection is kept in `sent` (the
kinds of record: `CHART`, `CHART_DEFINITION_END`, `BEGIN`) and `first` (the
first of them). Text of records is abstracted away: a definition is one
`CHART` and, with REPLICATION, one `CHART_DEFINITION_END`; a group of metric
values is one `BEGIN`.

One call of `rrdset_push_metric_initialize()` is split at the points where
another thread can change what it reads:

| Action | Code |
|---|---|
| `MetricInitReadFlags` | 522-549: the atomic load of the host flags, the spawn when not ready |
| `MetricInitCheckChart` | 550-560: reads exposed and the chart flags, the early return, classification |
| `SendChartDefinition` | 222-334: the definition, replication start, counter, `sender_commit` |
| `MarkExposedUpstream` | 336-346 and 561-566: exposed marked after the commit, the return when replicating |
| `PushMetrics` | 406-486 with 568-574: the metric buffer and its commit |
| `PushChartDefinitionNow` | 390-404: the chart made obsolete, its definition pushed |

A `sender_start() .. sender_commit()` pair holds the commit mutex, so each
commit is one step (`Commit`). The sender thread, the replication thread and
the receiver's replication of a mirrored chart are not in `src/`; they are
modelled from spec.md 4.3 and 4.5 (`SenderConnect`, `SenderDisconnect`,
`ReplicationFinished`, `ReceiverReplicationFinished`), and so is a metadata
change (`MetadataUpdated`). On a connect the buffer is flushed, so nothing
committed before it reaches the new parent, and every chart's version moves
past its exposed one.

Runs:

* `chart_safety` (`MCChartPublication.cfg`, pass): three charts (c1 matches
  the pattern and may be made obsolete, c2 matches and is mirrored from a
  child, c3 does not match), two connections with REPLICATION, one metadata
  change. Checks `ExposedImpliesDefinitionSent` (a chart marked exposed
  while connected has had its definition carried by that connection),
  `ReplicatingChartsCounted` (the host counter equals the number of charts
  IN_PROGRESS), `NoMetricsWhileReplicating` (P6 of spec.md), and
  `MetricsKeepFlowing`: a published chart that is not obsolete reaches its
  metrics step infinitely often unless the connection is down, and
  `ChartStateMachine`, the refinement below. Only c1 may be made obsolete
  (`LiveObsoletable`): that is enough for the re-send path of line 390 and
  keeps the run, with the refinement and the liveness property, under two
  minutes.
* `chart_first_record` (`MCChartPublication_P1.cfg`, violation): P1/S5 of
  spec.md, the first record of a chart on a connection is `CHART`. TLC finds
  a 13-step trace: the collector reads "exposed" (line 552), the sender
  disconnects and reconnects, the collector commits BEGIN as the first record
  of the chart on the new connection.

Parents with and without REPLICATION. Line 554 takes a chart whose
`SENDER_REPLICATION_FINISHED` is clear as replicating, and only a
definition on a REPLICATION connection starts a replication whose end
sets the flag again. A run of `MetricsKeepFlowing` whose connections
alternated between the two kinds of parent found every chart published
before a disconnect skipped forever on a parent without REPLICATION. The
cause is the reset of spec.md 4.3, which clears FINISHED for every chart;
a chart's own `IN_PROGRESS` plays no part. That reset is done by the
sender thread, which is not in `src/` and may set FINISHED itself. The
run gave way to `caps_unknown_version` and is kept as a hazard
(rrdpush.c:554). A second cause remains with a reset that sets FINISHED:
a collector that read the host flags before the disconnect writes its
definition after the reset, and line 310 tests the capabilities of the
connection that is gone, so the chart starts a replication that no later
parent without REPLICATION ends (hazard rrdpush.c:310). A modified model
with that reset shows this trace; no run checks it, because the reset is
not the one spec.md describes.

Refinement. `ChartStates.tla` is what the protocol promises of one chart
(spec.md 4.5): UNDECIDED, classified once to PUBLISHED or SUPPRESSED, its
definition sent on a connection (REPLICATING when the connection negotiated
REPLICATION, else STREAMING), REPLICATING to STREAMING when replication is
done, and back to PUBLISHED on a disconnect or a metadata change.
`ChartPublication` instantiates it with the state of each chart computed
from its flags (`ProtocolState`): `UPSTREAM_IGNORE` is SUPPRESSED, no
`UPSTREAM_SEND` is UNDECIDED, a chart whose definition is not committed on
the live connection is PUBLISHED (`DefinitionCommitted`: exposed, or at the
mark step after its commit with the version it sent), and otherwise
`SENDER_REPLICATION_FINISHED` tells STREAMING from REPLICATING. `repl` is
`"REPLICATION" \in caps`. The abstract spec had to allow a definition to
be sent again from a Sent state: the definition of an obsolete chart is
pushed again by `rrdset_push_chart_definition_now()` and restarts its
replication (lines 321-323), so a streaming chart can go back to
REPLICATING without a disconnect. The refinement is checked in the
passing configuration only; the violation runs check one property each.

Bounds: `MaxConnections = 2` gives a first connection and a reconnect, which
is what every reconnect hazard needs; `MaxMetadataUpdates = 1` lets one
definition be outdated while it is in flight. Three charts cover the three
classification outcomes.

Fairness: weak fairness of each collector (the collection loop calls it every
`update_every` for as long as the chart is collected), of the sender's
connect (the sender thread retries with a bounded delay, spec 4.3), and of
replication end and receiver replication (the replication thread finishes
what it was asked to). A disconnect is not fair: the environment may or may
not break a connection.

### Receiver (C4) — `Receiver.tla`, `MCReceiver.tla`

State: per request the web thread's program counter `wpc` and its HTTP
answer `resp`, the verdicts it took under the host lock (`working`,
`stale`) and the receiver it found in the host's slot (`slot`); per
request the state of the receiver thread it spawned (`rstate`: starting,
attached, exited) and its `last_msg_t` (`lastMsg`); the receivers signalled
to stop (`stopReq`); the rate limiter's static `last_stream_accepted_t`
(`lastAccepted`) and the clock `now` (seconds, bounded by `MaxTime`).

`rrdpush_receiver_thread_spawn()` runs on a web server thread, many at a
time, and is split where it takes or releases a lock:

| Action | Code |
|---|---|
| `ParseAndValidate` | 913-1213: parameters, validation (401), the same-localhost answer |
| `RateLimit` | 1215-1243: the global rate limiter under its spinlock (503) |
| `LookupReceiver` | 1245-1275: under the host's receiver lock, the attached receiver is working or stale |
| `StopStale`, `StopResult` | 1278-1287: after the locks are released, `stop_streaming_receiver()` signals the host's receiver and waits for it to go |
| `Decide` | 1289-1331: 409, or 200 and a receiver thread, or 500 |

The receiver thread is not in `src/`; from spec.md 4.4 and I2 it attaches
to its host unless one is attached already (`RecvAttach`), refreshes
`last_msg_t` on every record (`RecvMessage`) and clears the host's slot when
it exits (`RecvExit`). `Tick` advances the clock. Time is scaled: a
receiver is stale after `StaleAfter = 2` ticks instead of 30 s.

Runs:

* `receiver_rate` (`MCReceiver.cfg`, pass): five requests, three of them
  valid ones of one child, rate limit 2. `RateLimitSpacing`: at most one
  request passes the limiter in any window, however the web threads
  interleave.
* `receiver_fresh_stopped` (`MCReceiver_stop.cfg`, violation):
  `FreshReceiverNotStopped` fails: a web thread judges the host's receiver
  stale under the lock, releases it, the stale receiver exits and a new one
  attaches, and the web thread's `stop_streaming_receiver()` stops the new
  one.

Fairness: weak fairness of every web thread and of receiver threads that
have started (threads run), and of the exit of a signalled receiver (it
checks the flag between records). A socket failure is not fair.

### Capabilities (C1) — `Capabilities.tla`, `MCCapabilities.tla`

Capabilities are sets of names. The number sent on the wire is a mask of
their bits (`MaskOfCaps`, a RECURSIVE sum) or an old version number.
`OurCapabilities`, `VersionCaps`, `ReduceFramings`, `ConvertVersion` and
`CapabilitiesToVN` translate `stream_our_capabilities()`,
`convert_stream_version_to_capabilities()` and `stream_capabilities_to_vn()`.
The handshake of one connection is a small state machine. The child
offers its mask (`ChildOffer`). The parent converts it with a receiver's
capabilities and answers (`ParentNegotiate`, line 997). The child converts
the answer with its own capabilities evaluated again (`ChildNegotiate`).
The child may also be an agent of an old protocol version (1 to 5), which
is not in `src/`: it sends its version (`OldChildOffer`) and maps the
answer with the version table of spec.md 4.1, keeping what its own version
has (`OldChildNegotiate`). `MlChange` toggles whether the child host runs
ML or receives ML data.

The parent's reading of the request (lines 946-954 and 995-1034) is
`RequestCapabilities`: a request is a sequence of parameters (`Param`);
the first of `ver` and `NETDATA_PROTOCOL_VERSION` decides (both test
`STREAM_CAP_INVALID`), and a request with neither is version 0. `ver` is
parsed with `strtoul()` into an unsigned long and passed as `int32_t`;
TLC's integers are 32-bit, so the unsigned long is a record `ULong` of its
bits above 31, its bit 31 and its low 31 bits, and `Int32` keeps the low
32 bits as a signed number.

Runs:

* `caps_negotiation` (`MCCapabilities.cfg`, pass): a current child or a
  child of each old version, agents that disable nothing or one of ML,
  INTERPOLATED, LZ4, REPLICATION, and one change of the child's ML state at
  any point. `PeersAgreeBeyondMl` (P5 of spec.md, less ML): at the end of
  the handshake both peers use the same capabilities. For an old child
  this rests on `stream_capabilities_to_vn()` answering the version that
  names exactly what the parent negotiated: a parent without LZ4 answers a
  version 5 child with 4.
* `caps_unknown_version` (`MCCapabilities_version.cfg`, violation):
  `EveryRequestHasOneFraming` fails. Its inputs are every request of up to
  two parameters: `ver` with an old version, a mask a current agent sends,
  a mask with bit 31 set (negative after the cut, so version 1), a number
  with bits above 32, and 6, 7 or a mask without a framing bit; and
  `NETDATA_PROTOCOL_VERSION` before or after `ver`. spec.md 4.1 says a
  number that maps to no recognized version yields V1. Line 1506 takes
  every number above 5 as a mask, so 6, 7 and the mask without a framing
  bit leave the receiver with no framing at all. With those three left
  out, the property holds for every other request.

The ML state of the child can change between its offer and its conversion
of the parent's answer (line 1467): the parent then keeps DATA_WITH_ML and
the child drops it, against P5. This was a violation run of its own
(`PeersAgree`); it gave way to `disk_remount` and is kept as a hazard.

### Signals — `Signals.tla`, `SignalTable.tla`, `MCSignals.tla`

State: `count` (the `count` field of each row of `signals_waiting[]`), the
main thread's position (`mpc`: paused in `pause()`, scanning, exited), the
table row it is at (`idx`) and its local `found`; as history, the handler
runs (`received`) and the actions taken (`acted`) per signal, and the child
processes exited and not reaped.

The handler (`Deliver`, lines 36-55) runs on the main thread, the only one
with signals unblocked, between any two of its steps, and with every signal
masked; so its `count++` does not race with the main thread's `count = 0`.
`Send` is a signal from outside, and an ignored SIGPIPE changes nothing.
`ChildExit` is a child exiting, which raises SIGCHLD.
`ScanEntry` is one row of the scan (lines 198-245): a non-zero count is
reset and its action taken. EXIT and FATAL end the process, and SIGCHLD
reaps every exited child. `EndOfPass` (lines 193-194, 187) starts another
pass when this one found something, and otherwise calls `pause()` again.

Runs:

* `signals_safety` (`MCSignals.cfg`, pass): SIGHUP, SIGUSR1, SIGTERM and
  SIGPIPE (four signals in total), and two children exiting, at any point
  of the scan. `ImplementsSignalTable`: the table and its scan implement
  `SignalTable.tla`, the abstract promise: a caught signal is pending until
  the main thread acts on it, deliveries while it is pending are acted on
  once, the SIGCHLD action reaps every exited child, and an exit or fatal
  action is the last. The refinement mapping takes a signal to be pending
  when its count is non-zero. A delivery between the scan's test of the
  count and its reset (lines 199-201) is overwritten by the reset; the
  refinement shows it is still answered, by the action that follows.
* `signals_lost_wakeup` (`MCSignals_wakeup.cfg`, violation):
  `SignalsEventuallyHandled` fails. A SIGHUP is counted after the last
  pass has scanned its row and before `pause()`. The main thread then
  sleeps with the signal pending until some other signal arrives.

Fairness: weak fairness of the main thread's scan (it runs whenever it is
not in `pause()`). Signals from outside are not fair.

The model takes the handler to run on the main thread: the daemon blocks
signals in every other thread before it starts them. Which children
`reap_children()` reaps is decided by `netdata_waitid()`, which is not in
`src/`; the model has one kind of child.

### DiskSpace — `DiskSpace.tla`, `MCDiskSpace.tla`

State: the kernel's mounts (`mounted`), the mount list last read
(`listed`) and the ticks since it was read (`age`). Per mount point, its
dictionary entry's flags: `enabled`, `slow`, `updated`, `collected` (the
count is non-zero), `charts` (the charts exist) and `strings` (its
`filesystem` and `mountroot` strings are not freed). The slow queue
`slow_mountinfo_tmp_root` (`tmpList`) and the worker's list (`slowList`).
The mutex holder. Each thread's program counter and remaining mounts.
`running`, which is `service_running(SERVICE_COLLECTORS)`.

| Action | Code |
|---|---|
| `MainTick` | 898-911 with `mountinfo_reload()` 23-36: the stop check, the reload when due |
| `MainLock` | 913-928: the queue emptied under the mutex, the walk of the list begins |
| `DiskSpaceStats` | 306-489 and 929: one mount point; entry created (disabled when `stat()` fails, slow when it is slow), queued when slow, otherwise marked updated and collected, and turned slow when `statvfs()` is slow |
| `MainSweep` | 931-938: unlock, stop check, sweep of the fast entries (`mount_point_cleanup`, 71-112) |
| `MainJoin` | 612-629: the cleanup joins the worker |
| `SlowTick`, `SlowLock` | 550-576: the worker's stop checks, taking the queue under the mutex |
| `SlowDiskSpaceStats` | 491-512: one slow mount, marked updated and collected |
| `SlowSweep` | 585-602: sweep of the worker's list |

`MountChange` (the kernel) and `StopCollectors` (the daemon's shutdown) are
the environment. Timing is a nondeterministic choice. The exclusion
patterns and the read-only rule are the `Excluded` set.

Runs:

* `disk_cleanup` (`MCDiskSpace.cfg`, pass): two collectable mounts and an
  excluded one; two mounts or unmounts; the mount list read every second
  tick. It checks five properties:
  * `ListedChartsKept`, an action property: no sweep removes the charts of
    a mount that is still listed.
  * `UnmountedFastChartsRemoved`: the charts of an unmounted fast mount are
    eventually removed.
  * `ShutdownCompletes`: after a stop, both threads end.
  * `EnabledMountsCollected`: a mounted disk whose entry is enabled is
    eventually collected, by the main thread when fast and by the worker
    when slow, although the main thread frees the slow queue at the start
    of every walk (lines 913-915). A mounted disk whose entry was disabled
    because `stat()` failed on a stale mount list (line 372) is left out:
    it is never collected.
  * `WorkerSweepOnlyResets`, an action property: the worker's pass, which
    sweeps its list without the dictionary's lock (lines 589-594) while
    the mount-points function may be reading entries, never frees strings
    or makes charts obsolete. It holds because the worker sweeps only
    mounts it marked updated in the same pass (line 494), so its cleanup
    only resets flags.
* `disk_remount` (`MCDiskSpace_remount.cfg`, violation):
  `ListedEntriesHoldStrings` fails. The mount-points function lists every
  entry with `function_ready` set and reads its `filesystem` and
  `mountroot` (lines 668-676). `function_ready` is set and cleared together
  with the collected count, so the model uses `collected` for it. Cleanup
  frees both strings (lines 91-92) but keeps the entry, and the strings are
  made only for a new entry (lines 347, 430-431). TLC finds a 28-step trace:
  d1 is collected, unmounted, dropped from the reread list and swept;
  mounted again, the old entry is collected and listed with freed strings.
  The next unmount would free them a second time.
* `disk_slow_unmounted` (`MCDiskSpace_slow.cfg`, violation):
  `UnmountedChartsRemoved` fails for a mount that turned slow and was then
  unmounted. The main sweep skips slow entries. The worker sweeps only the
  mounts it was just given, and it has just marked each of them updated.

Fairness: weak fairness of both threads (they loop on a heartbeat), strong
fairness of the worker's lock (the main thread holds the mutex only while
walking the list, then sleeps a tick). Mount changes and the stop are not
fair.

### SenderLifecycle (C3, C2) — `SenderLifecycle.tla`, `MCSenderLifecycle.tla`

State: the host's `SENDER_SPAWN` flag (`spawnFlag`), `READY_4_METRICS`
(`ready`) and `RECEIVER_DISCONNECTED` (`recvDisc`); the thread handle the
host keeps (`handle`) and the sender's `tid` (`tid`); per thread slot its
state (`thread`: none, created, running, connected, exited) and whether it
was cancelled; the collectors' and the stopper's program counters; the
destination list in its current order (`dests`), the postponed destinations
and the one connected to.

| Action | Code |
|---|---|
| `SpawnCheck` | 526-531: a collector finds the host not ready and not spawned |
| `SenderThreadSpawn` | 855-869: under `sender_lock`, the flag rechecked, the thread created or the creation failing |
| `SenderThreadStop` | 821-836: under the lock, the cancel of the handle when `SENDER_SPAWN` is set |
| `SenderThreadStopWait` | 838-847: the wait for `tid` to drop to 0 |
| `SenderConnect` | 714-758: `connect_to_one_of_destinations`, the first destination not postponed, moved to the tail on success (`Eligible`, `MoveToTail`) |
| `ResetPostponeTime` | 1332-1337: on a new connection every destination's postponement is cleared |
| `Init` with `DestinationsInit` | 766-817 and 790-804: the destination list in configured order |

The sender thread itself is not in `src/`: its start (`tid` set), connect
and disconnect, and its cleanup when cancelled (the flags and `tid`
cleared) are modelled from spec.md 4.3, as are the expiry of a postponement
and the departure of the host's receiver (`ReceiverLeaves`, which sets
`RECEIVER_DISCONNECTED` and starts the stop).

Run `sender_lifecycle` (`MCSenderLifecycle.cfg`, pass): two collectors, two
destinations, at most three thread creations. `OneSenderThread` (I1 of
spec.md): at most one sender thread is live, however the collectors race
through the spawn gate and however a cancelled thread's cleanup and a
respawn interleave. `CancelTargetsLiveSender`: while `SENDER_SPAWN` is set
the handle the stop would cancel names a live thread. `TypeOK` also states
that the destination list stays a permutation of the configured one through
every rotation. `SenderEventuallyRuns`: while the host's receiver has not
left, the host eventually has a running sender thread (its `tid` set),
whatever creations failed and stops came before, up to the bound of three
threads created. A failed `netdata_thread_create()` is only logged (lines
862-863) and leaves `SENDER_SPAWN` clear, which is what lets a later tick
spawn again. Deadlock is not checked: once the receiver has left and the
sender is stopped, nothing spawns it again and the host is idle, as it is
in the daemon.

Two stop races were reproduced with this model and are listed as hazards
without a run (the run cap, and both rest on sender-thread code outside
`src/`): the wait at line 840 returns at once when the stop comes between
the creation of a thread and the moment it sets `tid`, leaving a thread
running; and a collector that passed the spawn check before the stop can
spawn a new sender after it, because `RECEIVER_DISCONNECTED` is not
rechecked under the lock.

Fairness: weak fairness of the collectors' spawn check and spawn (the
collection loop runs every `update_every`), of the sender's start and
cleanup, of the stop's wait and of postponement expiry; these are threads
that run. Thread creation may fail, but not on every attempt forever: strong
fairness of a spawn that sets `SENDER_SPAWN`.
Connects, disconnects and the receiver leaving are not fair.

## Fairness, bounds and symmetry in general

No configuration uses symmetry: the model values of each run play different
roles (matching, mirrored, obsoletable), so permuting them is not sound.

## What is not modelled

* The sender thread's send loop, compression, TLS, backpressure and the
  replication subsystem: not in `src/`; they appear only as the environment
  actions listed above.
* The wire format (record text, v1/v2 encodings, `#` compression, slots):
  formatting with no control flow a property here distinguishes.
* `rrdpush_send_host_labels`, `rrdpush_send_claimed_id`,
  `rrdpush_send_global_functions`, the dyncfg senders (488-712): each takes
  the mutex, writes one record and commits, a single step with no effect on
  the state modelled.
* Configuration parsing (`rrdpush_init`, `configured_as_parent`), logging.
* The destination list and spec.md: section 3 says a destination that
  fails moves to the tail of the list, while the code (lines 744-753) and
  spec.md 4.2 move the one that connected; the model follows the code.

## Plan

Done: `ChartPublication` (C5) with the refinement to `ChartStates`,
`Receiver` (C4), `Capabilities` (C1), `Signals`, `DiskSpace`, and
`SenderLifecycle` (C3 spawn and stop, C2 destinations).

Left, in order:

1. Compose `SenderLifecycle` with `ChartPublication`, whose
   `MetricInitReadFlags` already does the spawn, so that a disconnect
   re-arming charts and a respawn are checked together.
   The composed state space is the product of `chart_safety` (over half a
   million states) and `sender_lifecycle`, beyond a five-minute run; it
   needs a smaller chart instance first.
2. Liveness of reaching a destination that accepts, under fair expiry of
   postponements.

Done since the last plan: the disk-space liveness property
(`EnabledMountsCollected`, for the hazard at line 372); the refinement of
`Signals` to `SignalTable`; the parsing of the request's version in
`Capabilities`; `WorkerSweepOnlyResets` for the worker's unlocked sweep.

The project holds at most twelve runs. Weaker runs are retired as deeper
ones are added, and their findings are kept as hazards: the first
rate-limited request answered 503 (rrdpush.c:1222); two receivers of one
child both answered 200 (rrdpush.c:1266), whose run `receiver_duplicate`
gave way to `sender_lifecycle`; a child and parent disagreeing after an ML
change (rrdpush.c:1467), whose run `caps_ml_change` gave way to
`disk_remount`; and charts stalled on a parent without REPLICATION
(rrdpush.c:554), whose run `chart_mixed_parents` gave way to
`caps_unknown_version` (the versions 6 and 7 that leave no framing,
rrdpush.c:1506, which had been a hazard only).
