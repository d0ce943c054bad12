\* The source's values in 100 ms, and the longest wait that the keep alive has room for.
CONSTANTS
    PollTimeout = 5
    WaitTimeout = 10
    MaxWait = 95
    MaxCall = 50
    Pause = 1
    TelemetryInterval = 100
    PingIdle = 200
    KeepAlive = 300
SPECIFICATION Spec
INVARIANTS
    TypeOK
    KeepAliveKept
    TelemetryPrompt
    PingRedundant
