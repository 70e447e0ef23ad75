CONSTANTS
  Files = {f, g}
  Regular = {g}
  Calls = {c, d}
  f = f
  g = g
  c = c
  d = d
  MaxEdits = 2
SPECIFICATION Spec
INVARIANTS
  BaselineIsOneMoment
  CloseDrains
PROPERTIES
  BoundaryHolds
  ChangeIsNoticed
CHECK_DEADLOCK FALSE
