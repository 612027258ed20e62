SPECIFICATION Spec
CONSTANTS
    a1 = a1
    a2 = a2
    none = none
    Accounts <- MCAccounts
    Ten = a2
    Unknown = none
    Bannable <- MCBannable
    InitialRows <- MCInitialRows
    Day = 2
    Gratis = 9
    StartTime = 5
    MaxTime = 7
    MaxLogins = 2
    MaxPayments = 1
INVARIANTS
    BannedIpGetsNoList
    BannedAccountNeedsOutage
    DaysShownAreRight
    OutageIsFinal
PROPERTY PaidUntilIsKept
CHECK_DEADLOCK FALSE
