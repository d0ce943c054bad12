CONSTANTS
    case1 = case1
    case2 = case2
    image1 = image1
    image2 = image2
    Cases = {case1, case2}
    NoCase = NoCase
    Images = {image1, image2}
    Erased = Erased
    Profile <- MCProfile
    Warmups = 1
    Iterations = 1
    SessionAttemptLimit = 1
    SessionsPerCase = 1
    MaxFaults = 2
SPECIFICATION FairSpec
INVARIANTS
    TypeOK
    RowsNumbered
    SessionsRecorded
    MeasuredWithFirmware
    MeasuredInSession
    MeasuredWithBroker
PROPERTIES
    RunCompletes
    ResultLogSpec
CHECK_DEADLOCK FALSE
