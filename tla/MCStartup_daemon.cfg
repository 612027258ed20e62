SPECIFICATION FairSpec
CONSTANTS
    Address = address
    Any = any
    MaxAcceptors = 3
    MaxConnections = 2
    PortRange = 65536
    IdRange = 16
    Inputs <- MCDaemonInput
PROPERTY DaemonServes
CHECK_DEADLOCK FALSE
