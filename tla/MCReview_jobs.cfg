SPECIFICATION SpecAll
CONSTANTS
  c1 = c1
  c2 = c2
  x = x
  y = y
  k1 = k1
  None = None
  Client = {c1, c2}
  Reviewer = {c1}
  Analyst = {c2}
  Ordinal = {1, 2}
  Cand = {x, y}
  Analysis <- Results
  First <- Same
  NApprovals = 2
  NAnalyses = 2
  Op = {}
  Decisions = {"approved"}
  Key = {k1}
  KeysOf <- OneKey
  Group <- OneRecord
  NJobs = 3
  Content <- Contents
  Replaces = FALSE
  PinsAny = FALSE
  Null = Null
INVARIANTS DecisionIsRecorded ResetsDecisions  ArtifactsAreWhole
  TablesMatchFile OneInForce ConflictIsNeverOffered
CHECK_DEADLOCK FALSE
