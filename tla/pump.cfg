SPECIFICATION FairSpec
CONSTANTS
  FlightSize = 2
  ClientDone = 4
  DEFAULT_BUF_SIZE = 2
  NetMax = 2
  RdHup = TRUE
  Lines <- TwoEach
INVARIANTS
  TypeOK
  NoPieceLost
  NothingLeftBehind
PROPERTIES
  ImplementsChannel
  Shown
  HandshakeCompletes
CHECK_DEADLOCK FALSE
