\* The leak: closeConnection while a write is pending.
SPECIFICATION FairSpec
CONSTANTS
    Conns = {c1}
    ServiceThreads = 1
PROPERTY AbortedReadIsClosed
CHECK_DEADLOCK FALSE
