CONSTANTS
  w1 = w1  w2 = w2
  agent = agent  person = person
  c1 = c1  c2 = c2  c3 = c3  s1 = s1
  ann = ann  bob = bob
  None = None
  Workers = {w1}
  Requests = {agent, person}
  Human = {person}
  Needs <- NeedsAgent
  Cap = 1
  Mortal = {w1}
  Sessions = {s1}
  MaxRetries = 1
  Claims = {c1, c2, c3}
  On <- OnPerson
  By <- ByTwo
  Stored = {agent}
SPECIFICATION StoreSpec
INVARIANTS
  PreparationShown
PROPERTIES
  AssigneeDecides
  PruneSparesWork
CHECK_DEADLOCK FALSE
