CONSTANTS
  p1 = p1  p2 = p2
  a = a  b = b  c = c
  x = x  y = y  m = m  r = r  s = s
  None = None  Unregistered = Unregistered
  Procs = {p1, p2}
  Leases = {a, b, c}
  Runs = {r}
  Lanes = {x, y}
  Home <- LineHome
  Lane <- LineLane
  Weight <- LineWeight
  Model <- LineModel
  Repo <- LineRepo
  RepoCap <- LineRepoCap
  Run <- LineRun
  Capacity <- LineCapacity
  ModelCap <- LineModelCap
  Budgets = {1, 2}
  Mortal = {p1}
  Busy = {a}
SPECIFICATION FairSpec
INVARIANTS
  LimitsRespected
  UseAccounted
PROPERTIES
  StartedIsSpent
  WaitersSettle
CHECK_DEADLOCK FALSE
