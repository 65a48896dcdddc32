SPECIFICATION Spec
CONSTANTS
  a1 = a1
  a2 = a2
  n1 = n1
  d1 = d1
  d2 = d2
  p1 = p1
  p2 = p2
  p3 = p3
  r1 = r1
  r2 = r2
  Replicas = {r1, r2}
  Informers = {1, 2}
  Addrs = {a1, a2}
  Nets = {}
  DBs = {d1}
  Pools = {p1}
  DatabasesOf <- MCOneDatabaseOf
  MaxAttempts = 1
  InitialBackoff = 2
  MaxBackoff = 5
  MaxDuration = 100
  AmbiguousPut = FALSE
  EditEntries <- MCNoEdits
  InitialLists <- MCEmptyLists
PROPERTIES
  AddKeepsEntries
