SPECIFICATION Spec
CONSTANTS
  Product = {p1, p2}
  Order = {o1, o2}
  Mine = {m1}
  Theirs = {m2}
  MaxPolls = 1
  MaxAsked = 2
  Job = {j1, j2}
  Balance = 1
  MaxWatches = 2
  MaxStops = 2
  MaxCodes = 2
  MaxWrong = 1
  MaxFails = 1
  MaxCalls = 2
  MaxFaults = 1
  User = {u1, u2}
  MaxLate = 1
  Card = {c1, c2}
  Blank = Blank
  None = None
VIEW View
INVARIANTS
  TypeOK
  VerifiesItsOwnPayment
  RegionFitsCountry
  LiveIsWatched
  UnverifiedIsPending
  RequestsAreOwn
  FlagIsOfCard
PROPERTIES
  ClearedMeansPaid
  AnswersAreShown
  PageIsVerified
