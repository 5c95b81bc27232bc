SPECIFICATION Spec
CONSTANTS
  Parcel = {p1}
  Errand = {e1}
  Carried = {e1}
  MaxSilent = 1
  MaxAsks = 1
  None = None
PROPERTIES
  HandedOverByCode
  ListCatchesUp
