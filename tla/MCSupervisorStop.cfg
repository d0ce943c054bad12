\* Does a handshake timeout stop the broker it restarts?
SPECIFICATION Spec
INVARIANT InstanceStopped
