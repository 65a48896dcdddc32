SPECIFICATION Spec
CONSTANTS
  Threshold = 2
  Window = 1
  Cooldown = 0
  MaxTime = 1
  MaxRecords = 2
  MaxTerms = 2
INVARIANTS
  TypeOK
  OneElectionAtATime
  TrippedStaysOut
  StandbyNeverTrips
  StatusTellsLeader
  BackoffStartsOver
PROPERTIES
  ElectionResumes
  TermsEnd
