SPECIFICATION Spec
CONSTANTS
  Busy = Busy
  Other = Other
  Clients = {Busy, Other}
  Ttl = 2
  Limit = 2
  Second = 2
  MaxTime = 6
  MaxRequests <- Bounds
INVARIANTS
  BurstBounded
  RefusedForExcess
  RetryAfterSuffices
  BlockServed
\* Time is bounded.
CHECK_DEADLOCK FALSE
