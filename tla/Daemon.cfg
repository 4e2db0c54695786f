SPECIFICATION Spec
CONSTANTS
  c1 = c1
  Stdin = stdin
  Sockets <- OneSocket
  MaxClients = 1
  Panics = {"abort", "unwind"}
  MaxSessions = 2
  MaxRequests = 3
INVARIANTS
  OneTunnel
  OwnReport
  NeverUnreachable
PROPERTIES
  WaitingIsAnswered
CHECK_DEADLOCK FALSE
