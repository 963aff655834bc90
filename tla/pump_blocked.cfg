SPECIFICATION Spec
CONSTANTS
  FlightSize = 2
  ClientDone = 3
  DEFAULT_BUF_SIZE = 2
  NetMax = 2
  RdHup = TRUE
  Lines <- TwoEach
INVARIANT NeverBothBlocked
CHECK_DEADLOCK FALSE
