CONSTANTS
  MaxConns = 3
  MaxCalls = 1
  MaxNotes = 1
  HandlerKinds = {"value", "promise"}
SPECIFICATION FairSpec
PROPERTIES
  Reconnects
  BufferDrains
  StoreDrains
  StableCallSettles
CHECK_DEADLOCK FALSE
