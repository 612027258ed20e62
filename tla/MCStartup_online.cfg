SPECIFICATION Spec
CONSTANTS
    Address = address
    Any = any
    MaxAcceptors = 3
    MaxConnections = 2
    PortRange = 65536
    IdRange = 16
    Inputs <- MCPlainInput
INVARIANT OpenPortIsServed
CHECK_DEADLOCK FALSE
