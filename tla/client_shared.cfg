SPECIFICATION Spec
CONSTANTS
  a1 = a1
  a2 = a2
  n1 = n1
  d1 = d1
  d2 = d2
  p1 = p1
  p2 = p2
  p3 = p3
  r1 = r1
  r2 = r2
  Replicas = {r1}
  Informers = {1, 2}
  Addrs = {a1}
  Nets = {n1}
  DBs = {d1, d2}
  Pools = {p1}
  DatabasesOf <- MCOneDatabaseOf
  MaxAttempts = 2
  InitialBackoff = 2
  MaxBackoff = 0
  MaxDuration = 4
  AmbiguousPut = TRUE
  EditEntries <- MCNetEdits
  InitialLists <- MCTwoLists
INVARIANTS
  UnrequestedNowhere
PROPERTIES
  CallsReturn
