SPECIFICATION Spec
CONSTANTS
  Threads = {t1, t2, t3}
  Conns = {c1, c2, c3}
  None = None
  Settings <- OnlyTx
  PoolSockets = 2
  MaxPoolSockets = 3
  MaxTransactions = 3
SYMMETRY Symmetry
PROPERTIES
  CommitsInSequence
