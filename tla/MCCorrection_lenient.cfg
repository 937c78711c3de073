SPECIFICATION Spec
CONSTANTS
  None = None
  Files <- AllFiles
  Requests <- AllRequests
  Policies <- AllPolicies
  MaxRounds = 2
  MaxSwaps = 1
INVARIANTS LenientCorrects
CHECK_DEADLOCK FALSE
