SPECIFICATION Spec
CONSTANTS
  Order = {o1, o2}
  Ref = {r1, r2}
  Assignment = {a1, a2}
  Proc = {p1, p2}
  None = None
  MaxCrashes = 0
  DbFaults = TRUE
  AdminCreates = TRUE
CHECK_DEADLOCK FALSE
SYMMETRY Symmetry
INVARIANTS
  TypeOK
  AnsweredIsAccountedFor
  PaidMeansCharged
  AssignmentMeansCharged
PROPERTY PaidIsFinal
