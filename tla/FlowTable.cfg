SPECIFICATION Spec
CONSTANTS
  k1 = k1
  k2 = k2
  k3 = k3
  l1 = l1
  l2 = l2
  Keys <- ThreeKeys
  Hosts <- TwoAlike
  Links <- TwoLinks
  MaxFlows = 2
  MaxPending = 2
  MaxAttempts = 2
  BatchSize = 1
  AuthTimeout = 1
  RetryWait = 2
  Ttl = 2
  MaxTime = 4
  MaxPackets = 3
  Starts <- OneTwoThree
  MaxIds = 4
  MaxRequests = 3
SYMMETRY EitherLink
INVARIANTS
  RequestedIsTimed
  PacketsInOrder
  TokenOfItsFlow
  SilenceGivesUp
PROPERTIES
  AsksOneAtATime
CHECK_DEADLOCK FALSE
