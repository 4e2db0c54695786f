SPECIFICATION Spec
CONSTANTS
  k1 = k1
  k2 = k2
  Keys <- TwoKeys
  Clients <- OtherFlow
  SeqSpace = 32
  ClientISS = 30
  OurISS = 31
  MSS = 2
  Windows = {0, 2, 3}
  MaxRetransmits = 1
  PauseAt = 2
  ResumeAt = 1
  ClientBytes = 3
  RelayBytes = 3
  ChunkLengths = {1, 2}
INVARIANTS
  AcknowledgedIsHeld
CHECK_DEADLOCK FALSE
