CONSTANTS
    case1 = case1
    case2 = case2
    image1 = image1
    image2 = image2
    Cases = {case1, case2}
    NoCase = NoCase
    Images = {image1, image2}
    Erased = Erased
    Profile <- MCProfile
    Warmups = 0
    Iterations = 1
    SessionAttemptLimit = 0
    SessionsPerCase = 2
    MaxFaults = 0
SPECIFICATION Spec
INVARIANTS
    BrokerListensFirst
CHECK_DEADLOCK FALSE
