SPECIFICATION Spec
CONSTANTS
  Order = {o1, o2}
  Moving = {o1}
  Given = {"payment_confirmed"}
  Start = "assigned_to_driver"
  TrackTab = {"status", "driver", "location"}
  Overlap = FALSE
  MaxCode = 2
  MaxCalls = 1
  None = None
INVARIANTS
  TypeOK
  OffersAreAccepted
PROPERTIES
  CodeComesUp
  RatingIsShown
