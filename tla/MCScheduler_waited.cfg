SPECIFICATION Spec
CONSTANTS
    Events = {e1, e2}
    Tasks = {t1}
    Delays = {1, 2}
    MaxTime = 4
    MaxEventId = 2
    SpuriousWakeups = FALSE
INVARIANT TakesDueEvent
CHECK_DEADLOCK FALSE
