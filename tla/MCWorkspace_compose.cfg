SPECIFICATION Spec
CONSTANTS
  w1 = w1
  w2 = w2
  i1 = i1
  i2 = i2
  s1 = s1
  None = None
  NoOwner = NoOwner
  NJobs = 1
  Worker = {w1, w2}
  Exporter = {x1}
  Analyst = {a1}
  Id = {i1, i2}
  WorkerId <- OwnIds
  Records = 1
  Batch = 1
  MaxAttempts = 2
  NIntents = 1
  Key = {k1}
  Attr = {a1}
  Scope = {s1}
  Shape <- Snapshots
  Op = {}
INVARIANTS PartsAgree
PROPERTIES  ImplementsGenerations
