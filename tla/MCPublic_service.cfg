SPECIFICATION SpecAll
CONSTANTS
  big = big
  old = old
  a = a
  b = b
  auto = auto
  trusted = trusted
  p1 = p1
  p2 = p2
  c1 = c1
  c2 = c2
  e1 = e1
  e2 = e2
  lea = lea
  boxtech = boxtech
  maersk = maersk
  sizetype = sizetype
  place = place
  k1 = k1
  k2 = k2
  None = None
  Null = Null
  NoValue = NoValue
  Client = {c1, c2}
  Eqid = {e1, e2}
  PrefixOf <- PrefixMap
  Registry <- Registered
  Reports <- Reported
  Sources <- Queried
  Answers <- Told
  Restricted = {boxtech}
  Retained = {sizetype}
  OptedIn = {boxtech, maersk}
  MaxEvents = 2
  File = {big, old}
  Chars <- TextOf
  Items <- ItemsOf
  BadAfter <- BadIn
  Verdicts = {"approved"}
  MaxJobs = 2
  MaxFiles = 2
  Runner = {c1, c2}
  Ident <- Asks
  Budget = 2
  Tolerated = 2
  MaxRuns = 2
  Source = {a, b}
  Intent = {auto, trusted}
  Id = {p1, p2}
  MaxAsks = 6
  Text <- PageText
  Found <- FoundIn
  Inputs <- BatchInputs
  MaxMembers = 4
  MaxSize = 2
  MaxExpanded = 3
INVARIANTS StoreIsWhole ExportIsSplice  
   RequestIsHonest EveryMemberAnswered
CHECK_DEADLOCK FALSE
