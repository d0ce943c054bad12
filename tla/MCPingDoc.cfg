CONSTANTS
    PollTimeout = 5
    WaitTimeout = 10
    MaxWait = 10
    MaxCall = 5
    Pause = 1
    TelemetryInterval = 100
    PingIdle = 200
    KeepAlive = 300
SPECIFICATION Spec
INVARIANTS
    PingsOnTimeout
