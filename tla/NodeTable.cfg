SPECIFICATION FairSpec
CONSTANTS
  major = major
  other = other
  Groups <- TwoGroups
  Major <- major
  MissLimit = 2
  MaxConnections = 3
INVARIANTS
  ChannelMatchesState
  IdleSilenceEndsNode
PROPERTIES
  HandshakeSettles
  RetryHappens
CHECK_DEADLOCK FALSE
