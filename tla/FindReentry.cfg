SPECIFICATION CallingBackSpec
CONSTANTS
  t1 = t1
  t2 = t2
  r = r
  NoOne = NoOne
  Callers <- TwoCallers
  Runtime = r
  MaxBatch = 2
  MaxCalls = 4
INVARIANTS
  NeverWaitsForItself
CHECK_DEADLOCK FALSE
