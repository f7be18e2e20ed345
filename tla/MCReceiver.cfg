\* Admission of five requests (three valid ones of a child, one of this agent, one invalid) with the rate limiter on.
CONSTANTS
  r1 = r1
  r2 = r2
  r3 = r3
  r4 = r4
  r5 = r5
  child = child
  self = self
  None = None
  Requests <- MCRequests
  Guid <- MCGuid
  Valid <- MCValid
  LocalGuid = self
  RateT = 2
  StaleAfter = 2
  MaxTime = 6

SPECIFICATION Spec

\* Every request is answered and the clock is bounded: the model has a
\* finite number of requests, after which the web server stays idle.
CHECK_DEADLOCK FALSE

INVARIANT RateLimitSpacing
