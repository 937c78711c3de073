SPECIFICATION Spec
CONSTANTS
  w1 = w1
  w2 = w2
  i1 = i1
  i2 = i2
  s1 = s1
  None = None
  NoOwner = NoOwner
  NJobs = 1
  Worker = {w1}
  Exporter = {}
  Analyst = {a1}
  Id = {i1, i2}
  WorkerId <- OneId
  Records = 1
  Batch = 1
  MaxAttempts = 1
  NIntents = 1
  Key = {}
  Attr = {a1}
  Scope = {s1}
  Shape <- Snapshots
  Op = {}
PROPERTIES PublishedIsHistory
