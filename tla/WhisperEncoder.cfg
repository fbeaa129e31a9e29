SPECIFICATION FairSpec
CONSTANTS
  Workers = {w1}
  Main = Main
  Rounds = 2
  MaxRounds = 2
  MaxLate = 1
INVARIANTS AnswersMatch GlueAndTpuApart
PROPERTIES ForkSpec EncodeReturns
CHECK_DEADLOCK FALSE
