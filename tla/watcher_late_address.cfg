SPECIFICATION Spec
CONSTANTS
  n1 = n1
  n2 = n2
  a1 = a1
  a2 = a2
  b1 = b1
  d1 = d1
  d2 = d2
  p1 = p1
  p2 = p2
  Nodes = {n1}
  Informers = {1}
  Addrs = {a1}
  Tracked = {a1}
  DBs = {d1, d2}
  Pools = {p1, p2}
  DatabasesOf <- MCDatabasesOf
  AddressesOf <- MCLateAddress
  InitialLists <- MCLists
  QueueBound = 1
INVARIANTS
  SettledAdmits
