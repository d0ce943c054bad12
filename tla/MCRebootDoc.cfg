CONSTANTS
    Total = 1
    ConnectRetries = 1
    Pqm4 = FALSE
    HandshakeRounds = 0
    MaxResets = 0
    MaxDrops = 0
SPECIFICATION Spec
INVARIANTS
    RebootsAfterEachLine
CHECK_DEADLOCK FALSE
