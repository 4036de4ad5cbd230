\* A request, a call and a notification each way, two breaks or reloads.
CONSTANTS
  MaxConns = 3
  MaxCalls = 1
  MaxNotes = 1
  HandlerKinds = {"throws", "promise", "rejection"}
  MaxAsked = 1
  MaxTold = 1
SPECIFICATION Spec
INVARIANTS
  TypeOK
  AskedAccounted
  AnsweredOnceOrReplayed
PROPERTIES
  PromisesFinal
CHECK_DEADLOCK FALSE
