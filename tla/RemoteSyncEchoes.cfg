\* One failure, one write.
CONSTANTS
  MaxConns = 2
  MaxCalls = 4
  MaxNotes = 8
  HandlerKinds = {"value"}
  MaxWrites = 1
  AppOps = {"add", "put"}
SPECIFICATION FairSpec
PROPERTIES
  EchoesEnd
  BootSettles
CHECK_DEADLOCK FALSE
