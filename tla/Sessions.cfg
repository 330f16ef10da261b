SPECIFICATION Spec
CONSTANTS
  Ids = {i1}
  Streams = {s1}
  Callers = {c1}
  NULL = NULL
  SharesStream = TRUE
  Uninitialized = {"New", "Connected"}
  MaxSessions = 2
  MaxMessages = 2
  MaxEvents = 3
INVARIANTS
  TypeOK
  ClosedHoldsNothing
  NoneLostOpen
PROPERTIES
  
  TerminationClosesOwn
  TerminatedIsClosed
  StatesFollowTable
