CONSTANTS
  Values = {0, 1}
  Terms <- MCTerms
  MaxKey = 3
  MaxSteps = 3
SPECIFICATION Spec
INVARIANTS
  TypeOK
  OrderedByLastKeyFirst
  MemoryPagesPartition
  BackEndsAgree
PROPERTIES
  AndNarrowsOrWidens
CHECK_DEADLOCK FALSE
