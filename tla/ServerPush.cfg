\* Two browsers that come and go, three pushes.
CONSTANTS
  MaxConns = 2
  MaxCalls = 0
  MaxNotes = 3
  MaxPushes = 3
  HandlerKinds = {}
SPECIFICATION Spec
INVARIANTS
  HeardInOrder
CHECK_DEADLOCK FALSE
