\* A warm-up and two measurements, two tries of the link and of the ping, one lost byte.
CONSTANTS
    Warmups = 1
    Iterations = 2
    FirmwareWarmups = 1
    Total = 3
    ConnectRetries = 2
    PingRetries = 2
    MaxLosses = 1
    MaxFaults = 2
SPECIFICATION FairSpec
INVARIANTS TypeOK WarmupsExcluded MeasuredOnce SessionComplete OneRowPerLink
PROPERTIES SessionEnds
CHECK_DEADLOCK FALSE
