SPECIFICATION Spec
CONSTANTS
  Threshold = 3
  Window = 3
  Cooldown = 1
  MaxTime = 9
  MaxRecords = 6
INVARIANTS
  TypeOK
  TripsWhenDue
  TripsOnlyWhenDue
PROPERTIES
  BackoffGrows
