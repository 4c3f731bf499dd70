SPECIFICATION LimitsSpec
CONSTANTS
  a = a
  Callers = {a}
  Users = {u1, u2, u3}
  Nobody = Nobody
  Used <- UsedBy
  Arguments <- Numbers
  W = 4
  Lowest <- Minimum
  Highest <- Maximum
  Default <- AtStart
SYMMETRY Symmetry
INVARIANTS
  TypeOK
  PollEnds
  PoolTypeOK
  SocketsBounded
  KeptBounded
PROPERTIES
  AnswersAreValid
  GrowsBelowLimit
