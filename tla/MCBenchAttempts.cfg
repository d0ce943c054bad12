CONSTANTS
    Total = 3
    ConnectRetries = 2
    Pqm4 = TRUE
    HandshakeRounds = 1
    MaxResets = 2
    MaxDrops = 1
SPECIFICATION FairSpec
INVARIANTS
    TypeOK
    ReportTruthful
    ResourcesReturned
    FreshBoot
    FinishedBatchForgotten
PROPERTIES
    AttemptLogSpec
    BatchEndsOrWaits
CHECK_DEADLOCK FALSE
