SPECIFICATION SpecAll
CONSTANTS
  w1 = w1
  w2 = w2
  i1 = i1
  i2 = i2
  NoOwner = NoOwner
  NJobs = 1
  Worker = {w1, w2}
  Exporter = {x1}
  Id = {i1, i2}
  WorkerId <- OwnIds
  Records = 3
  Batch = 2
  MaxAttempts = 3
INVARIANTS CommittedOnce ReviewIsComplete
PROPERTIES CancelStopsCommits ImplementsLedger RunningSettles LineIsTaken
