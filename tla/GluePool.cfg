SPECIFICATION PoolFairSpec
CONSTANTS
  Workers = {w1, w2}
  Main = Main
  MaxRows = 3
  MaxGen = 2
  Nobody = Nobody
INVARIANT EachRowOnce
PROPERTIES ForkSpec RunReturns
CHECK_DEADLOCK FALSE
