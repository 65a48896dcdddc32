SPECIFICATION Spec
CONSTANTS
  n1 = n1
  p1 = p1
  p2 = p2
  Nodes = {n1}
  Pools = {p1, p2}
  MaxUpdates = 1
  MaxTrail = 2
PROPERTIES
  ChecksCompareCache
