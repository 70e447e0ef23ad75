CONSTANTS
  p1 = p1  p2 = p2
  c1 = c1  c2 = c2
  r1 = r1  r2 = r2
  i1 = i1
  None = None
  Procs = {p1, p2}
  Calls = {c1, c2}
  j1 = j1  j2 = j2
  Jobs = {j1, j2}
  Identities = {i1}
  Receipts = {r1, r2}
  People = {h1}
  Home <- HomeTwo
  For <- ForSome
  Cancelable = {r1}
  Wanted <- WantedOne
  MaxEntries = 1
  Mortal = {p1}
  Closers = {}
  Collectors = {}
  Editable = {p1}
  Given = {"GREEN"}
  BusyWriter = FALSE
SPECIFICATION SharedSpec
INVARIANTS
  VerdictShared
PROPERTIES
  ReceiptFinal
SYMMETRY JobSymmetry
CHECK_DEADLOCK FALSE
