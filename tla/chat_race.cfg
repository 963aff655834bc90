SPECIFICATION Spec
CONSTANTS
  c1 = c1
  c2 = c2
  c3 = c3
  Clients = {c1, c2, c3}
  NoSocket = NoSocket
  Window = 1
  MAX_CLIENTS = 3
  BUFFER_SIZE = 3
  FdReserve = 3
  ThreadReserve = 3
  StackMax = 0
  Patient = {}
  NameSize <- OneByte
  LineMax = 1
  Typed <- OneTalker
  Paced = FALSE
INVARIANTS
  TypeOK
  NoLiveClientDropped
  NeverEchoed
  SilentUntilNamed
SYMMETRY Listeners
CHECK_DEADLOCK FALSE
