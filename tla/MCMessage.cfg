\* The function returns.
CHECK_DEADLOCK FALSE
SPECIFICATION FairMessageSpec
CONSTANTS
  Characters <- Letters
  Inputs <- AllInputs
  ContentType <- ContentTypeKey
  Json <- JsonHeader
  Statements <- AllStatements
  NoValue = "no value"
  Number <- AtoI
  Time <- TimeHeader
  Persistent <- PersistentHeader
  Transaction <- TransactionHeader
INVARIANTS
  InBounds
  FrameIsGiven
  ContentTypeOnce
  LastPairDecides
  MessageIsAsked
PROPERTIES
  EveryRowIsWritten
