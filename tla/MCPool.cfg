SPECIFICATION Spec
CONSTANTS
  Threads = {t1, t2, t3}
  Conns = {c1, c2, c3}
  None = None
  Settings <- PlainAndBothTx
  PoolSockets = 1
  MaxPoolSockets = 2
  MaxTransactions = 3
SYMMETRY Symmetry
INVARIANTS
  TypeOK
  ExclusiveUse
  ActiveIsAccountedFor
  TransactionPointerValid
  NoPartialCommit
  SocketLimits
  FailedStaysClosed
