SPECIFICATION SpecAll
CONSTANTS
  None = None
  Files <- AllFiles
  Requests <- AllRequests
  Policies <- AllPolicies
  MaxRounds = 2
  MaxSwaps = 1
CHECK_DEADLOCK FALSE
INVARIANTS EditsArePermitted SecondPassIsQuiet NearMissFound ReadsLikeTheWhole
