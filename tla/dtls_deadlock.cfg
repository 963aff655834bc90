SPECIFICATION FairSpec
PROPERTY HandshakeCompletes
CHECK_DEADLOCK FALSE
