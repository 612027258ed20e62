SPECIFICATION Spec
CONSTANTS
    Window = 1
    BlockTime = 3
    ConnectLimit = 2
    LoginTries = 1
    LoginTimeout = 2
    RetryTimeout = 1
    MaxTime = 6
    MaxShift = 2
    MaxConnects = 7
    MaxLogins = 1
INVARIANTS
    PatientIsAccepted
    BurstIsPunished
    BlockIsHonoured
    BlockEnds
CHECK_DEADLOCK FALSE
