SPECIFICATION FairSpec
CONSTANTS
  c1 = c1
  c2 = c2
  c3 = c3
  Clients = {c1, c2}
  NoSocket = NoSocket
  Window = 1
  MAX_CLIENTS = 3
  BUFFER_SIZE = 16
  FdReserve = 3
  ThreadReserve = 1
  StackMax = 1
  Patient = {c2}
  NameSize <- OneAndTwo
  LineMax = 2
  Typed <- Dialogue
  Paced = TRUE
INVARIANTS
  EachThreadServesItsSlot
  SignedBySender
  NoGapNoRepeat
PROPERTIES
  Delivered
  EverythingRead
  LeaversRemoved
CHECK_DEADLOCK FALSE
