\* Spawn gate, stop and destination rotation of one host's sender.
CONSTANTS
  k1 = k1
  k2 = k2
  p1 = p1
  p2 = p2
  NoDest = NoDest
  Collectors <- MCCollectors
  Destinations <- MCDestinations
  MaxSpawns = 3

SPECIFICATION Spec

\* Once the host's receiver has left and the sender is stopped, nothing
\* spawns it again and the host stays idle.
CHECK_DEADLOCK FALSE

INVARIANT TypeOK
INVARIANT OneSenderThread
INVARIANT CancelTargetsLiveSender
PROPERTY SenderEventuallyRuns
