CONSTANTS
    Fds = {f1, f2}
    NoFd = NoFd
    Payloads <- MCPayloads
    HandshakeTries = 2
    MaxFaults = 2
    MaxCommands = 2
    MaxCounter = 2
SPECIFICATION FairSpec
INVARIANTS
    TypeOK
    SocketOwned
    ContextOwned
    SamplesIncrease
    PongsEarned
PROPERTIES
    Recovers
    PingAnswered
