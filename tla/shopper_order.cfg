SPECIFICATION Spec
CONSTANTS
  Order = {o1}
  Ref = {r1, r2}
  Proc = {p1, p2}
  None = None
  Reported = {"payment_confirmed", "picked_up", "refunded"}
CHECK_DEADLOCK FALSE
SYMMETRY Symmetry
INVARIANTS
  TypeOK
  PaidMeansCharged
  RefundedMeansAccepted
