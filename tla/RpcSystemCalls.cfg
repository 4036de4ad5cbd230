\* Calls against a server with handlers of every kind.
CONSTANTS
  MaxConns = 3
  MaxCalls = 2
  MaxNotes = 0
  HandlerKinds = {"missing", "value", "void", "promise", "rejection"}
SPECIFICATION Spec
INVARIANTS
  TypeOK
  FlagsTrackSocket
  OneLiveSocket
  ClientsAreOpen
  CallInOnePlace
  NoUnmatchedResponse
  PendingTracksPromises
  NothingBufferedWhileConnected
  CallsInOrder
PROPERTIES
  ImplementsRpcCall
CHECK_DEADLOCK FALSE
