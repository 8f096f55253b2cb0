SPECIFICATION FairSpec
CONSTANTS
    Clients = {c1, c2}
    MaxThreads = 2
    NoConn = NoConn
INVARIANTS
    TypeOK
    TableIsExact
    WatchedAreAlive
    ServedByPool
    NoUseOfDestroyedServer
    ReleasedWithServer
PROPERTIES
    ImplementsConnectionLife
    WaitingClientIsServed
    ClosedIsReleased
    DestructorReturns
\* a destroyed server stops
CHECK_DEADLOCK FALSE
