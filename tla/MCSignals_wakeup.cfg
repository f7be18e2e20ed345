\* A signal that arrives after the scan passed its entry.
CONSTANTS
  Sendable <- ReloadSignals
  MaxSends = 2
  MaxChildren = 1

SPECIFICATION Spec

\* The signal supply is bounded: once every signal is handled the daemon
\* sleeps in pause() for good, or it has exited.
CHECK_DEADLOCK FALSE

PROPERTY SignalsEventuallyHandled
