SPECIFICATION Spec
CONSTANTS
  p1 = p1
  p2 = p2
  NoPassword = NoPassword
  Passwords <- OnePassword
  Settings <- EveryConf
  RequestLimit = 2
  MaxInFlight = 2
PROPERTY ReceiptConfirms
