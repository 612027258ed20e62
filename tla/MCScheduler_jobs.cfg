\* Two delayed jobs and an immediate one; ids wrap after two.
SPECIFICATION FairSpec
CONSTANTS
    Events = {e1, e2}
    Tasks = {t1}
    Delays = {1, 2}
    MaxTime = 3
    MaxEventId = 2
    SpuriousWakeups = TRUE
INVARIANTS
    NoWakeupLost
    TimeoutFindsDueEvent
PROPERTIES
    ImplementsQueues
    EventRuns
CHECK_DEADLOCK FALSE
