SPECIFICATION Spec
CONSTANTS
  MaxCodes = 1
  MaxWrong = 1
  MaxFails = 1
  MaxCalls = 1
  MaxFaults = 1
INVARIANT VerifiedBeforeIn
