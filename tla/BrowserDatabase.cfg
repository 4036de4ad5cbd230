\* Two pages of one origin, a schema that changes once, three instances: both
\* pages' own and one that a reload or a later connection makes.
CONSTANTS
  Pages = {p, q}
  MaxVersion = 2
  MaxDbs = 3
  MaxOps = 2
SPECIFICATION FairSpec
INVARIANTS
  TypeOK
  OpenedStaysUsable
  ConsumedOnce
PROPERTIES
  OpensUnlessHeldUp
  OperationsSettle
CHECK_DEADLOCK FALSE
