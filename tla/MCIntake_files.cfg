SPECIFICATION SpecAll
CONSTANTS
  p1 = p1
  p2 = p2
  feed = feed
  ack = ack
  r1 = r1
  s1 = s1
  s2 = s2
  u1 = u1
  u2 = u2
  j1 = j1
  whole = whole
  Torn = Torn
  Gone = Gone
  None = None
  Asker = {s1, s2}
  Upload = {u1, u2}
  Sends <- SameContent
  WholeFile = {whole}
  Size = 2
  SourceJob = {j1}
  Budget = 4
  Names = 2
  TooLong = {}
  Whole = 3
  StableScans = 2
  MinAge = 1
  Overwrite = FALSE
  MaxUploads = 2
  MaxCrashes = 1
  Poller = {p1, p2}
  Desk = {p2}
  Name = {1, 2}
  Content = {feed, ack}
  ContentOf <- Texts
  Ack = {ack}
  Verdict <- Rejection
  Ref = {r1}
  RefsOf <- Refs
  MaxJobs = 2
CHECK_DEADLOCK FALSE
SYMMETRY Symmetry
INVARIANTS OneJobPerFile RejectionsAreRepaired StorageSound
  OnlyWholeFilesAreRead AnsweredBeforeArchived
