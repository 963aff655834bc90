SPECIFICATION FairSpec
CONSTANTS
  Clients = {c1, c2, c3}
  Once = {c1, c2}
  Lines = 3
  Copies = 2
INVARIANTS
  TypeOK
  OwnLines
PROPERTIES
  ImplementsService
  Answered
CHECK_DEADLOCK FALSE
