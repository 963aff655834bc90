SPECIFICATION FairSpec
CONSTANTS
  FlightSize = 2
  ClientDone = 3
  BUFFER_SIZE = 2
  LineSizes = {1, 2, 3}
  Lines = 4
INVARIANTS
  TypeOK
  LinesInOrder
PROPERTIES
  HandshakeCompletes
  Delivered
  ServerStays
CHECK_DEADLOCK FALSE
