CONSTANTS
  p1 = p1  p2 = p2
  c1 = c1  c2 = c2
  i1 = i1
  None = None
  Procs = {p1, p2}
  Calls = {c1, c2}
  Jobs = {j1, j2}
  Identities = {i1}
  Home <- HomeTwo
  Wanted <- WantedOne
  MaxEntries = 1
  Mortal = {p1}
  Closers = {p1}
  Collectors = {p2}
  BusyWriter = TRUE
SPECIFICATION FairSpec
INVARIANTS
  TypeOK
  WaitersServed
  FencedBeforeAbort
  ClosedClean
PROPERTIES
  SingleResult
  PublicationIsFinal
  RetireSafe
  CallsSettle
CHECK_DEADLOCK FALSE
