CONSTANTS
  w1 = w1  w2 = w2
  agent = agent  person = person  after = after  other = other
  s1 = s1  s2 = s2
  None = None
  Workers = {w1}
  Requests = {agent, person, after}
  Human = {person}
  Needs <- Chain
  Cap = 1
  Mortal = {}
  Sessions = {s1}
  MaxRetries = 0
SPECIFICATION Spec
INVARIANTS
  NothingLeftToDo
CHECK_DEADLOCK FALSE
