\* Two breaks; three listeners of which a walk can lose or repeat one.
CONSTANTS
  MaxConns = 3
  MaxActs = 2
  Events = {"CONNECT", "DISCONNECT", "ATTEMPT"}
  Listeners = {1, 2, 3}
SPECIFICATION Spec
INVARIANTS
  TypeOK
  MissesAtMostRemovals
  HeardTwiceOnlyIfRemoved
PROPERTIES
  ConnectedUnlessStopped
CHECK_DEADLOCK FALSE
