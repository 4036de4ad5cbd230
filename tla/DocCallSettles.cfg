\* One call, one break: the call is lost with the connection.
CONSTANTS
  MaxConns = 2
  MaxCalls = 1
  MaxNotes = 0
  HandlerKinds = {"value"}
SPECIFICATION FairSpec
PROPERTIES EveryCallSettles
CHECK_DEADLOCK FALSE
