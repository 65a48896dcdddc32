SPECIFICATION Spec
CONSTANTS
  Threshold = 2
  Window = 2
  Cooldown = 1
  MaxTime = 0
  MaxRecords = 3
  MaxTerms = 2
INVARIANTS
  OnlyLeaderWatches
