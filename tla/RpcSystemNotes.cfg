CONSTANTS
  MaxConns = 3
  MaxCalls = 0
  MaxNotes = 3
  HandlerKinds = {"value", "throws"}
SPECIFICATION Spec
INVARIANTS
  NoteAccounted
  OfflineOrderKept
  DuplicatesOnlyAfterRollback
CHECK_DEADLOCK FALSE
