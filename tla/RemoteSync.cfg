\* One failure, two writes of any kind.
CONSTANTS
  MaxConns = 2
  MaxCalls = 4
  MaxNotes = 11
  HandlerKinds = {"value"}
  MaxWrites = 2
  AppOps = {"add", "put", "delete"}
SPECIFICATION Spec
INVARIANTS
  TypeOK
  Converges
CHECK_DEADLOCK FALSE
