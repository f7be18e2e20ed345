\* P3 of spec.md: a stale-receiver takeover never stops a working receiver.
CONSTANTS
  r1 = r1
  r2 = r2
  r3 = r3
  r4 = r4
  r5 = r5
  child = child
  self = self
  None = None
  Requests <- PairRequests
  Guid <- PairGuid
  Valid <- PairValid
  LocalGuid = self
  RateT = 0
  StaleAfter = 2
  MaxTime = 6

SPECIFICATION Spec

\* Every request is answered and the clock is bounded: the model has a
\* finite number of requests, after which the web server stays idle.
CHECK_DEADLOCK FALSE

INVARIANT FreshReceiverNotStopped
