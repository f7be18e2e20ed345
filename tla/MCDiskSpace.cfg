\* Two collected mount points and an excluded one, mounted and unmounted.
CONSTANTS
  d1 = d1
  d2 = d2
  d3 = d3
  Mounts <- MCMounts
  Excluded <- MCExcluded
  CleanupMountPoints = TRUE
  ReloadEvery = 2
  MaxMountChanges = 2

SPECIFICATION Spec

\* After the collectors stop both threads end.
CHECK_DEADLOCK FALSE

INVARIANT TypeOK
PROPERTY ListedChartsKept
PROPERTY UnmountedFastChartsRemoved
PROPERTY ShutdownCompletes
PROPERTY EnabledMountsCollected
PROPERTY WorkerSweepOnlyResets
