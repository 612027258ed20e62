SPECIFICATION FairSpec
CONSTANTS
    Address = address
    Any = any
    MaxAcceptors = 3
    MaxConnections = 2
    PortRange = 65536
    IdRange = 16
    Inputs <- MCInputs
INVARIANTS
    OneReopening
    NotForgotten
    OfflineIsExplained
    OnlineIsReady
    FirstWorldWins
PROPERTIES
    StartupEnds
    ReopeningIsTried
CHECK_DEADLOCK FALSE
