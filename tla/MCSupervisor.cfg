\* Handshake timeouts, brokers that exit, a port others may take.
SPECIFICATION FairSpec
INVARIANTS
    TypeOK
    NothingLeft
PROPERTY
    TimeoutsRestart
