SPECIFICATION FairSpec
CONSTANTS
  c1 = c1
  c2 = c2
  c3 = c3
  Clients = {c1, c2, c3}
  NoSocket = NoSocket
  Window = 2
  MaxThreads = 2
  MsgSize = 2
  FdReserve = 1
  Reserve = 1
  LineSizes = {2}
  Lines <- LessAndLess
INVARIANTS
  TypeOK
  EachByteOnce
  GreetedThenEchoed
PROPERTIES
  Prompted
CHECK_DEADLOCK FALSE
