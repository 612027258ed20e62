SPECIFICATION FairSpec
CONSTANTS
    Workers = {w1, w2}
    Tasks = {t1, t2, t3}
INVARIANTS
    SleepersAreExcused
PROPERTIES
    ImplementsQueues
    AcceptedIsRun
    JoinReturns
CHECK_DEADLOCK FALSE
