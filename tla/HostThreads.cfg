SPECIFICATION Spec
CONSTANTS
  Bounds <- EitherHalf
  DeviceQueue = 3
  MaxPackets = 1
  MaxReads = 1
  RecordUnits = 2
  Records = 2
  Room = 1
  Sends = 1
  SendUnits = 3
INVARIANTS
  PacketsAccounted
  AsleepMeansDry
PROPERTIES
  InboundIsRead
  PendingIsWritten
  StopEnds
CHECK_DEADLOCK FALSE
