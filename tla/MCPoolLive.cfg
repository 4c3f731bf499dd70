SPECIFICATION FairSpec
CONSTANTS
  Threads = {t1, t2}
  Conns = {c1, c2}
  None = None
  Settings <- BothTx
  PoolSockets = 1
  MaxPoolSockets = 2
  MaxTransactions = 2
PROPERTIES
  StatementEnds
  DeferredReturned
