SPECIFICATION Spec
CONSTANTS
  c1 = c1
  c2 = c2
  k1 = k1
  k2 = k2
  None = None
  Client = {c1, c2}
  Admin = {c1}
  Key = {k1, k2}
  KeysOf <- Keys
  Recorded = {"unverified", "production_enabled"}
  MaxActs = 6
  Notes = {FALSE}
  Kinds = {"filesystem", "https"}
  Handling = "rejects_duplicates"
CHECK_DEADLOCK FALSE
INVARIANTS OneKeyOneSend NothingLeavesUnauthorized
PROPERTIES NeverContradicted SendingSettles
