----------------------------- MODULE DiskSpace ------------------------------
(***************************************************************************)
(* The disk-space collector (plugin_diskspace.c).  Its main thread, every  *)
(* tick, reloads the mount list when it is due, collects every listed     *)
(* mount point that is fast and queues the slow ones on                    *)
(* slow_mountinfo_tmp_root under slow_mountinfo_mutex, then sweeps the     *)
(* fast entries of the mount-point dictionary: an entry not updated since  *)
(* the last sweep has its charts made obsolete.  A slow worker thread      *)
(* takes the queue, collects it and sweeps the slow entries it took.  Both *)
(* stop when the collectors stop; the main thread's cleanup joins the      *)
(* worker.                                                                 *)
(***************************************************************************)
EXTENDS Naturals, FiniteSets

CONSTANTS
  Mounts,              \* mount points
  Excluded,            \* mounts excluded by pattern or configuration
  CleanupMountPoints,  \* "remove charts of unmounted disks"
  ReloadEvery,         \* ticks between reloads of the mount list
  MaxMountChanges      \* bound on mounts and unmounts

ASSUME Excluded \subseteq Mounts /\ CleanupMountPoints \in BOOLEAN
ASSUME ReloadEvery \in Nat \ {0} /\ MaxMountChanges \in Nat

VARIABLES
  mounted,       \* mount points the kernel has now
  listed,        \* disk_mountinfo_root: the mount list last read
  age,           \* ticks since the mount list was read
  dictCreated,   \* dict_mountpoints != NULL
  dict,          \* mount points with a dictionary entry
  enabled,       \* the entry's do_space or do_inodes is not NO
  slow,          \* the entry's slow flag
  updated,       \* the entry's updated flag
  collected,     \* the entry's collected count is not 0
  charts,        \* the entry's charts exist (st_space, st_inodes)
  strings,       \* the entry's filesystem and mountroot strings are not freed
  tmpList,       \* slow_mountinfo_tmp_root
  slowList,      \* the worker's slow_mountinfo_root
  mutex,         \* holder of slow_mountinfo_mutex: "none", "main"
  mpc,           \* main thread: "sleep", "lock", "mounts", "join", "done"
  todo,          \* listed mounts the main thread has yet to visit
  spc,           \* worker: "sleep", "lock", "collect", "done"
  stodo,         \* queued mounts the worker has yet to visit
  running,       \* service_running(SERVICE_COLLECTORS)
  mountChanges   \* mounts and unmounts so far

entryVars == <<dict, enabled, slow, updated, collected, charts, strings>>
vars == <<mounted, listed, age, dictCreated, entryVars, tmpList, slowList,
          mutex, mpc, todo, spc, stodo, running, mountChanges>>

TypeOK ==
  /\ mounted \subseteq Mounts /\ listed \subseteq Mounts
  /\ age \in 1..ReloadEvery /\ dictCreated \in BOOLEAN /\ dict \subseteq Mounts
  /\ \A f \in {enabled, slow, updated, collected, charts, strings} :
       f \in [Mounts -> BOOLEAN]
  /\ tmpList \subseteq dict /\ slowList \subseteq dict
  /\ mutex \in {"none", "main"}
  /\ mpc \in {"sleep", "lock", "mounts", "join", "done"} /\ todo \subseteq listed
  /\ spc \in {"sleep", "lock", "collect", "done"} /\ stodo \subseteq slowList
  /\ running \in BOOLEAN /\ mountChanges \in 0..MaxMountChanges

-----------------------------------------------------------------------------
(* Shared by both threads                                                  *)

\* Variant: the sweep ignores the kind of the entry (line 78 dropped).
SweepAnyKind(S, slowArg) ==
  LET gone == {m \in S : ~updated[m] /\ CleanupMountPoints /\ collected[m]}
  IN /\ updated' = [m \in Mounts |-> IF m \in S THEN FALSE ELSE updated[m]]
     /\ collected' = [m \in Mounts |-> collected[m] /\ m \notin gone]
     /\ charts' = [m \in Mounts |-> charts[m] /\ m \notin gone]
     /\ strings' = [m \in Mounts |-> strings[m] /\ m \notin gone]

\* mount_point_cleanup() (lines 71-107) applied to the entries in S with
\* the caller's slow argument: an entry of the other kind is left alone, an
\* updated one has its flag reset, any other that was collected has its
\* charts made obsolete and its filesystem and mountroot strings freed
\* (lines 91-92); the entry stays in the dictionary with the pointers.
Removed(S, slowArg) ==
  {m \in S : slow[m] = slowArg /\ ~updated[m] /\ CleanupMountPoints /\ collected[m]}

\* Variant: an updated entry keeps its flag (line 82 dropped).
SweepNoReset(S, slowArg) ==
  /\ UNCHANGED updated
  /\ collected' = [m \in Mounts |-> collected[m] /\ m \notin Removed(S, slowArg)]
  /\ charts' = [m \in Mounts |-> charts[m] /\ m \notin Removed(S, slowArg)]
  /\ strings' = [m \in Mounts |-> strings[m] /\ m \notin Removed(S, slowArg)]

Sweep(S, slowArg) ==
  /\ updated' = [m \in Mounts |-> IF m \in S /\ slow[m] = slowArg THEN FALSE
                                  ELSE updated[m]]
  /\ collected' = [m \in Mounts |-> collected[m] /\ m \notin Removed(S, slowArg)]
  /\ charts' = [m \in Mounts |-> charts[m] /\ m \notin Removed(S, slowArg)]
  /\ strings' = [m \in Mounts |-> strings[m] /\ m \notin Removed(S, slowArg)]

\* calculate_values_and_show_charts() (lines 176-304) after a successful
\* statvfs(): the charts exist and the entry counts as collected.
ShowCharts(m) ==
  /\ collected' = [collected EXCEPT ![m] = TRUE]
  /\ charts' = [charts EXCEPT ![m] = TRUE]

-----------------------------------------------------------------------------
(* The main thread, diskspace_main() (lines 861-946)                       *)

\* Variant: the mount list is read one tick late (> for >= on line 27).
MainTickLateReload ==
  /\ mpc = "sleep"
  /\ IF running
       THEN /\ mpc' = "lock"
            /\ IF age > ReloadEvery
                 THEN listed' = mounted /\ age' = 1
                 ELSE age' = age + 1 /\ UNCHANGED listed
       ELSE mpc' = "join" /\ UNCHANGED <<listed, age>>
  /\ UNCHANGED <<mounted, dictCreated, entryVars, tmpList, slowList, mutex,
                 todo, spc, stodo, running, mountChanges>>

\* Lines 898-911: the heartbeat, the stop check, and mountinfo_reload(0)
\* (lines 23-36), which reads the mount list again when it is due.
MainTick ==
  /\ mpc = "sleep"
  /\ IF running
       THEN /\ mpc' = "lock"
            /\ IF age >= ReloadEvery
                 THEN listed' = mounted /\ age' = 1
                 ELSE age' = age + 1 /\ UNCHANGED listed
       ELSE mpc' = "join" /\ UNCHANGED <<listed, age>>
  /\ UNCHANGED <<mounted, dictCreated, entryVars, tmpList, slowList, mutex,
                 todo, spc, stodo, running, mountChanges>>

\* Lines 913-915: the queue of slow mounts is emptied under the mutex.
MainLock ==
  /\ mpc = "lock" /\ mutex = "none"
  /\ mutex' = "main" /\ tmpList' = {} /\ todo' = listed /\ mpc' = "mounts"
  /\ UNCHANGED <<mounted, listed, age, dictCreated, entryVars, slowList,
                 spc, stodo, running, mountChanges>>

\* do_disk_space_stats() (lines 306-489) for one listed mount point, and
\* the stop check after it (line 929).  A new entry is disabled when its
\* stat() fails, and is slow when stat() took too long; only a new entry
\* gets its filesystem and mountroot strings (lines 430-431); a slow entry is
\* queued for the worker; a fast one is marked updated and, when enabled
\* and statvfs() succeeds, collected, and becomes slow when statvfs() took
\* too long.
DiskSpaceStats ==
  /\ mpc = "mounts"
  /\ \E m \in todo, slowStat, slowStatvfs \in BOOLEAN :
       LET new == m \notin dict
           isSlow == IF new THEN slowStat /\ m \notin Excluded ELSE slow[m]
           isEnabled == IF new THEN m \notin Excluded /\ m \in mounted ELSE enabled[m]
           collect == ~isSlow /\ isEnabled /\ m \in mounted
       IN /\ dict' = dict \cup {m}
          /\ strings' = IF new THEN [strings EXCEPT ![m] = TRUE] ELSE strings
          /\ enabled' = [enabled EXCEPT ![m] = isEnabled]
          /\ tmpList' = IF isSlow THEN tmpList \cup {m} ELSE tmpList
          /\ updated' = [updated EXCEPT ![m] = @ \/ ~isSlow]
          /\ slow' = [slow EXCEPT ![m] = isSlow \/ (collect /\ slowStatvfs)]
          /\ IF collect THEN ShowCharts(m) ELSE UNCHANGED <<collected, charts>>
          /\ todo' = IF running THEN todo \ {m} ELSE {}
  /\ dictCreated' = TRUE
  /\ UNCHANGED <<mounted, listed, age, slowList, mutex, mpc, spc, stodo,
                 running, mountChanges>>

\* Variant: the loop is left on a stop with the mutex held.
MainSweepKeepsLockOnStop ==
  /\ mpc = "mounts" /\ todo = {}
  /\ mutex' = IF running THEN "none" ELSE mutex
  /\ IF running
       THEN mpc' = "sleep" /\ Sweep(IF dictCreated THEN dict ELSE {}, FALSE)
       ELSE mpc' = "join" /\ UNCHANGED <<updated, collected, charts, strings>>
  /\ UNCHANGED <<mounted, listed, age, dictCreated, dict, enabled, slow,
                 tmpList, slowList, todo, spc, stodo, running, mountChanges>>

\* Variant: the queue is freed after the walk instead of before it (lines
\* 914-915 moved after line 930).
MainSweepFreesQueue ==
  /\ mpc = "mounts" /\ todo = {}
  /\ mutex' = "none" /\ tmpList' = {}
  /\ IF running
       THEN mpc' = "sleep" /\ Sweep(IF dictCreated THEN dict ELSE {}, FALSE)
       ELSE mpc' = "join" /\ UNCHANGED <<updated, collected, charts, strings>>
  /\ UNCHANGED <<mounted, listed, age, dictCreated, dict, enabled, slow,
                 slowList, todo, spc, stodo, running, mountChanges>>

\* Lines 931-938: the mutex is released, the loop left when the
\* collectors stop, and otherwise the fast entries are swept.
MainSweep ==
  /\ mpc = "mounts" /\ todo = {}
  /\ mutex' = "none"
  /\ IF running
       THEN mpc' = "sleep" /\ Sweep(IF dictCreated THEN dict ELSE {}, FALSE)
       ELSE mpc' = "join" /\ UNCHANGED <<updated, collected, charts, strings>>
  /\ UNCHANGED <<mounted, listed, age, dictCreated, dict, enabled, slow,
                 tmpList, slowList, todo, spc, stodo, running, mountChanges>>

\* diskspace_main_cleanup() (lines 612-629): join the worker, free the queue.
MainJoin ==
  /\ mpc = "join" /\ spc = "done"
  /\ mpc' = "done" /\ tmpList' = {}
  /\ UNCHANGED <<mounted, listed, age, dictCreated, entryVars, slowList,
                 mutex, todo, spc, stodo, running, mountChanges>>

Main == MainTick \/ MainLock \/ DiskSpaceStats \/ MainSweep \/ MainJoin

-----------------------------------------------------------------------------
(* The worker, diskspace_slow_worker() (lines 531-610)                     *)

\* Lines 550-565: the heartbeat and the stop checks; the worker leaves its
\* loop when the collectors stop and waits for the dictionary to exist.
SlowTick ==
  /\ spc = "sleep"
  /\ ~running \/ dictCreated
  /\ spc' = IF running THEN "lock" ELSE "done"
  /\ UNCHANGED <<mounted, listed, age, dictCreated, entryVars, tmpList,
                 slowList, mutex, mpc, todo, stodo, running, mountChanges>>

\* Lines 572-576: the queue becomes the worker's list under the mutex.
SlowLock ==
  /\ spc = "lock" /\ mutex = "none"
  /\ slowList' = tmpList /\ stodo' = tmpList /\ tmpList' = {}
  /\ spc' = "collect"
  /\ UNCHANGED <<mounted, listed, age, dictCreated, entryVars, mutex, mpc,
                 todo, running, mountChanges>>

\* Variant: the entry is not marked updated (line 494 dropped).
SlowDiskSpaceStatsNoUpdate ==
  /\ spc = "collect"
  /\ \E m \in stodo :
       /\ IF m \in mounted THEN ShowCharts(m) ELSE UNCHANGED <<collected, charts>>
       /\ stodo' = IF running THEN stodo \ {m} ELSE {}
  /\ UNCHANGED <<mounted, listed, age, dictCreated, dict, enabled, slow,
                 updated, strings, tmpList, slowList, mutex, mpc, todo, spc,
                 running, mountChanges>>

\* do_slow_disk_space_stats() (lines 491-512) for one mount of the list,
\* and the stop check after it (line 582): the entry is marked updated and
\* collected when statvfs() succeeds.
SlowDiskSpaceStats ==
  /\ spc = "collect"
  /\ \E m \in stodo :
       /\ updated' = [updated EXCEPT ![m] = TRUE]
       /\ IF m \in mounted THEN ShowCharts(m) ELSE UNCHANGED <<collected, charts>>
       /\ stodo' = IF running THEN stodo \ {m} ELSE {}
  /\ UNCHANGED <<mounted, listed, age, dictCreated, dict, enabled, slow,
                 strings, tmpList, slowList, mutex, mpc, todo, spc, running,
                 mountChanges>>

\* Lines 585-602: the worker leaves its loop when the collectors stop, and
\* otherwise sweeps the slow entries of its list.
SlowSweep ==
  /\ spc = "collect" /\ stodo = {}
  /\ IF running
       THEN spc' = "sleep" /\ Sweep(slowList, TRUE)
       ELSE spc' = "done" /\ UNCHANGED <<updated, collected, charts, strings>>
  /\ UNCHANGED <<mounted, listed, age, dictCreated, dict, enabled, slow,
                 tmpList, slowList, mutex, mpc, todo, stodo, running, mountChanges>>

Slow == SlowTick \/ SlowLock \/ SlowDiskSpaceStats \/ SlowSweep

-----------------------------------------------------------------------------
(* The environment                                                         *)

\* A file system is mounted or unmounted.
MountChange ==
  /\ mountChanges < MaxMountChanges
  /\ \E m \in Mounts :
       mounted' = IF m \in mounted THEN mounted \ {m} ELSE mounted \cup {m}
  /\ mountChanges' = mountChanges + 1
  /\ UNCHANGED <<listed, age, dictCreated, entryVars, tmpList, slowList,
                 mutex, mpc, todo, spc, stodo, running>>

\* The daemon stops the collectors (netdata_cleanup_and_exit, not in src/).
StopCollectors ==
  /\ running /\ running' = FALSE
  /\ UNCHANGED <<mounted, listed, age, dictCreated, entryVars, tmpList,
                 slowList, mutex, mpc, todo, spc, stodo, mountChanges>>

Init ==
  /\ mounted = Mounts /\ listed = {} /\ age = ReloadEvery
  /\ dictCreated = FALSE /\ dict = {}
  /\ enabled = [m \in Mounts |-> FALSE] /\ slow = [m \in Mounts |-> FALSE]
  /\ updated = [m \in Mounts |-> FALSE] /\ collected = [m \in Mounts |-> FALSE]
  /\ charts = [m \in Mounts |-> FALSE] /\ strings = [m \in Mounts |-> FALSE]
  /\ tmpList = {} /\ slowList = {} /\ mutex = "none"
  /\ mpc = "sleep" /\ todo = {} /\ spc = "sleep" /\ stodo = {}
  /\ running = TRUE /\ mountChanges = 0

Next == Main \/ Slow \/ MountChange \/ StopCollectors

\* Both threads loop on a heartbeat for as long as the collectors run.  The
\* main thread holds the mutex only while it walks the mount list and then
\* sleeps a whole tick, so the worker's lock is strongly fair.
Fairness ==
  /\ WF_vars(Main) /\ WF_vars(SlowTick) /\ SF_vars(SlowLock)
  /\ WF_vars(SlowDiskSpaceStats) /\ WF_vars(SlowSweep)

Spec == Init /\ [][Next]_vars /\ Fairness

-----------------------------------------------------------------------------
(* Properties                                                              *)

\* The charts of a mount point are made obsolete only once the mount list
\* no longer has it: neither thread's sweep (lines 937, 589-594) removes a
\* mount that the main thread is still visiting on every tick, whether it
\* is collected by the main thread, queued for the worker or has just
\* turned slow.
ListedChartsKept ==
  [][\A m \in Mounts : charts[m] /\ ~charts'[m] => m \notin listed]_vars

\* "remove charts of unmounted disks": the charts of a mount point that is
\* unmounted are eventually made obsolete, unless it is mounted again or
\* the collectors stop.
UnmountedChartsRemoved ==
  \A m \in Mounts :
    (charts[m] /\ m \notin mounted) ~> (~charts[m] \/ m \in mounted \/ ~running)

\* The same, for the mount points collected by the main thread.
UnmountedFastChartsRemoved ==
  \A m \in Mounts :
    (charts[m] /\ m \notin mounted /\ ~slow[m])
      ~> (~charts[m] \/ m \in mounted \/ slow[m] \/ ~running)

\* A mounted disk whose entry is enabled is eventually collected, by the
\* main thread when it is fast and by the worker when it is slow, although
\* the main thread frees the queue of slow mounts at the start of every
\* walk (lines 913-915) and the worker only collects the queue it finds
\* between two walks; unless it is unmounted or the collectors stop.
EnabledMountsCollected ==
  \A m \in Mounts :
    (m \in mounted /\ m \in dict /\ enabled[m])
      ~> (collected[m] \/ m \notin mounted \/ ~running)

\* Once the collectors stop, both threads end: the main thread leaves its
\* loop without holding the mutex and joins the worker (line 622).
ShutdownCompletes ==
  ~running ~> (mpc = "done" /\ spc = "done")

\* The worker's sweep (lines 589-594) calls mount_point_cleanup() on
\* entries it got with dictionary_get(), without the dictionary's lock,
\* while the mount-points function walks the dictionary under its write
\* lock reading the strings and dimensions of every ready entry (lines
\* 668-676).  That is harmless because the worker sweeps only the slow
\* mounts it marked updated in the same pass (line 494) and nobody else
\* clears a slow entry's flag: its cleanup only resets the flags, and
\* never frees strings or makes charts obsolete.
WorkerSweepOnlyResets ==
  [][spc = "collect" /\ spc' = "sleep" => UNCHANGED <<collected, charts, strings>>]_vars

\* The mount-points function (lines 668-676) lists every entry whose
\* function_ready is set and reads its filesystem and mountroot strings;
\* function_ready is set with the collected count (lines 300-303) and
\* cleared with it (lines 86-87).  An entry the function lists still holds
\* those strings: cleanup frees them, and a mount point that comes back is
\* collected again through its old entry.
ListedEntriesHoldStrings ==
  \A m \in dict : collected[m] => strings[m]

=============================================================================
