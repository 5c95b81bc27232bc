SPECIFICATION FairSpec
CONSTANTS
  Order = {o1}
  Ref = {r1, r2}
  Assignment = {a1, a2, a3}
  Proc = {p1, p2}
  None = None
  MaxCrashes = 1
  DbFaults = FALSE
  AdminCreates = FALSE
CHECK_DEADLOCK FALSE
PROPERTY EveryChargeIsSettled
