SPECIFICATION FairSpec
CONSTANTS
  Driver = {d1}
  Assignment = {a1}
  Proc = {p1, p2}
  Worker = {w1}
  None = None
  MaxAttempts = 1
  MaxRetry = 1
  MaxFaults = 1
INVARIANTS
  AttemptsBounded
PROPERTIES
  PaidOnce
  JobsEnd
