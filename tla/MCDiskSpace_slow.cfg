\* A mount point that turned slow and is then unmounted.
CONSTANTS
  d1 = d1
  d2 = d2
  d3 = d3
  Mounts <- MCMounts
  Excluded <- MCExcluded
  CleanupMountPoints = TRUE
  ReloadEvery = 2
  MaxMountChanges = 2

SPECIFICATION Spec

\* After the collectors stop both threads end.
CHECK_DEADLOCK FALSE

PROPERTY UnmountedChartsRemoved
