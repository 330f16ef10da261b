SPECIFICATION Spec
CONSTANTS
  Calls = {r1, r2}
  Main = Main
  NONE = NONE
INVARIANTS
  TypeOK
  ServesConnected
PROPERTIES
  CloseCompletes
  RequestsEnd
  GreeterStops
