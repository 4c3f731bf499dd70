SPECIFICATION FairSpec
CONSTANTS
  p1 = p1
  p2 = p2
  NoPassword = NoPassword
  Passwords <- TwoPasswords
  Settings <- EveryConf
  RequestLimit = 2
  MaxInFlight = 2
INVARIANTS
  TypeOK
  OwnSession
  IdleOwesNothing
PROPERTIES
  CommitIsWhole
  ConfirmedWhileUp
  CallReturns
  ImplementsSession
