SPECIFICATION MCSpec
CONSTANTS
  Clients = {c1, c2}
  Jobs = {j1, j2}
  Agents = {a1, a2}
  ByHand = FALSE
  MaxKill = 2
  None = None
INVARIANTS AtMostOnce OwnAnswer OkMeansMine
PROPERTY JobTaken
CHECK_DEADLOCK FALSE
