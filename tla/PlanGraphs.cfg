CONSTANTS
  p = p
  q = q
  r = r
  None = None
  Artifacts = {1, 2, 3, 4, 5}
  Critics = {p, q, r}
  Target <- One
  Basis = {4}
  Relations <- AllGraphs
  Components <- Found
  Selections <- Selected
  MaxEdits = 1
  MaxLosses = 1
SPECIFICATION Spec
INVARIANTS
  GatesAgree
  SatisfiedIsWhole
  NoDeadEnd
CHECK_DEADLOCK FALSE
