SPECIFICATION FairSpec
CONSTANTS
  Driver = {d1, d2}
  Proc = {p1, p2}
  None = None
  MinCashout = 1
  MaxAmount = 1
  MaxEarned = 1
  MaxCrashes = 1
INVARIANTS
  TypeOK
  NeverOverdrawn
PROPERTIES
  IsLedger
  RequestsAnswered
