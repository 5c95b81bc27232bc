SPECIFICATION Spec
CONSTANTS
  Driver = {d1, d2}
  Assignment = {a1}
  Proc = {p1}
  Worker = {w1}
  None = None
  MaxAttempts = 1
  MaxRetry = 0
  MaxFaults = 1
SYMMETRY Symmetry
INVARIANTS
  TypeOK
PROPERTY WorkerTakesNothing
