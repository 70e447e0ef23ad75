CONSTANTS
  r1 = r1
  r2 = r2
  Reviews = {r1, r2}
  MaxToolCalls <- OneCall
  MaxTokens <- TwoMessages
  MaxAttempts = 2
  Timeout <- Timeouts
  Horizon = 3
SPECIFICATION Spec
PROPERTIES
  VerdictEarned
  NothingReplayed
  LaneRespected
  ReviewEnds
CHECK_DEADLOCK FALSE
