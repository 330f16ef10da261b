SPECIFICATION Spec
CONSTANTS
  NULL = NULL
  u1 = u1  u2 = u2  u3 = u3
  e1 = e1  e2 = e2  e3 = e3
  n1 = n1  n2 = n2  s1 = s1
  UserIds = {u1, u2, u3}
  Emails = {e1, e2, e3}
  Names = {n1, n2}
  Secrets = {s1}
  Subscriptions <- MCSubscriptions
  Levels = {"PRO"}
  UniqueColumns = {"email"}
  MaxTime = 2
  Walkers = {w1}
  Writers = {c1}
  Requests <- MCRequests
  NewRows <- MCNewRows
  BanEnds = {NULL}
  Seed <- MCSeed
  SeedTimes <- MCSeedTimes
  Copies <- MCCopies
  DefaultPageSize = 1
  MaxPageSize = 2
  MaxWrites = 2
INVARIANTS
  TypeOK
  WalkComplete
  WalkShowsOnce
  ShownFilterFinds
  CallsHaveDatabases
PROPERTIES
  ShutdownCompletes
  CallsEnd
