\* One connection served by two service threads.
SPECIFICATION FairSpec
CONSTANTS
    Conns = {c1}
    ServiceThreads = 2
INVARIANTS
    TypeOK
    DelegateHasConnection
    CloseRunsOnce
    OneReleaseChain
    MessageIsOwned
    OpenIsUsable
    SocketNotUsedAfterStop
    OperationsAreTimed
PROPERTIES
    ConnectionIsCounted
    ProtocolIsCounted
    SocketCloses
    ProtocolFreed
    ClosedIsReleased
CHECK_DEADLOCK FALSE
