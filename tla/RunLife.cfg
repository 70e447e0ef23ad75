CONSTANTS
  w1 = w1  w2 = w2
  agent = agent  person = person  after = after  other = other
  s1 = s1  s2 = s2
  None = None
  Workers = {w1, w2}
  Requests = {agent, other, person, after}
  Human = {person}
  Needs <- Diamond
  Cap = 1
  Mortal = {w1,w2}
  Sessions = {s1,s2}
  MaxRetries = 1
SPECIFICATION FairSpec
INVARIANTS
  WorkIsOwned
  GatesRespected
PROPERTIES
  VerdictIsFinal
  NothingLate
  RunSettles
CHECK_DEADLOCK FALSE
