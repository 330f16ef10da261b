CONSTANTS
  NULL = NULL
  u1 = u1  u2 = u2  u3 = u3  e1 = e1  e2 = e2  e3 = e3  n1 = n1  n2 = n2  n3 = n3
  s1 = s1  s2 = s2  v1 = v1  p1 = p1  p2 = p2
  UserIds = {u1}
  Emails = {e1, e2, e3}
  Names = {n1, n2, n3}
  Secrets = {s1, s2}
  MetaKeys = {"lang"}
  MetaValues = {v1}
  Levels = {"PRO"}
  Subscriptions <- MCSubscriptions
  UniqueColumns = {"email"}
  MaxTime = 1
  Procs = {p1}
  Ops <- AllOps
  NewUsers <- MCNewUsers
  UpdateRequests <- MCUpdateRequests
  BanEnds <- MCBanEnds
  Seed <- MCOneSeed
  TokenTTL = 1
  MaxRequests = 2
  MaxFaults = 0
SPECIFICATION Spec
INVARIANTS PermanentBanHasNoEnd
