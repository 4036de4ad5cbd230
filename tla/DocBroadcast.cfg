\* One browser, one broadcast.
CONSTANTS
  MaxConns = 2
  MaxCalls = 0
  MaxNotes = 3
  MaxPushes = 3
  HandlerKinds = {}
SPECIFICATION Spec
INVARIANTS
  BroadcastReachesAll
CHECK_DEADLOCK FALSE
