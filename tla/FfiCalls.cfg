SPECIFICATION FairSpec
CONSTANTS
  t1 = t1
  t2 = t2
  r = r
  NoOne = NoOne
  Callers <- TwoCallers
  Runtime = r
  MaxBatch = 2
  MaxCalls = 3
INVARIANTS
  BatchesWhole
  TakenIsReported
PROPERTIES
  SilentOnceStopped
  StopEnds
CHECK_DEADLOCK FALSE
