CONSTANTS
  taker = taker
  finder = finder
  x = x
  y = y
  z = z
  None = None
  Artifacts = {1, 2, 3}
  Critics = {x, y, z}
  Target <- Reviews
  Basis = {}
  Rel <- Behind
  Relations <- Refers
  Components <- Found
  Reusable = {1, 2}
  Runs = {taker, finder}
  Asks <- Across
  Forced = {finder}
  Ungated = {}
  Mortal = {taker, finder}
  MaxRetries = 2
SPECIFICATION Spec
CHECK_DEADLOCK FALSE
INVARIANTS
  GreenIsSatisfied
