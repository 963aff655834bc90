SPECIFICATION FairSpec
CONSTANTS
  c1 = c1
  c2 = c2
  c3 = c3
  Clients = {c1, c2, c3}
  NoSocket = NoSocket
  Window = 2
  MAX_CLIENTS = 2
  BUFFER_SIZE = 2
  FdReserve = 1
  ForkReserve = 1
  Overrun = {"harmless", "fatal"}
  Records <- OneOrTwo
  Whole = {c1, c3}
  Process <- TwoProcesses
INVARIANTS
  TypeOK
  OnlyOwnText
PROPERTIES
  ImplementsService
  LastOneOut
CHECK_DEADLOCK FALSE
