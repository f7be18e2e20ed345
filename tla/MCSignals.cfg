\* Signals sent at any point of the main thread's scan.
CONSTANTS
  Sendable <- MCSendable
  MaxSends = 4
  MaxChildren = 2

SPECIFICATION Spec

\* The signal supply is bounded: once every signal is handled the daemon
\* sleeps in pause() for good, or it has exited.
CHECK_DEADLOCK FALSE

INVARIANT TypeOK
PROPERTY ImplementsSignalTable
