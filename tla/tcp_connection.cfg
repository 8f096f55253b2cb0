SPECIFICATION FairSpec
CONSTANTS
    Users = {u1, u2}
    SendLen = 2
    HighWaterMark = 2
    MaxCalls = 1
    MaxData = 1
INVARIANTS
    TypeOK
    OutputIsScheduled
    ShutdownAfterOutput
    GoneFromPoller
    KeptUntilDown
    CallbacksAreSafe
PROPERTIES
    ImplementsConnectionLife
    ClosedIsCleanedUp
    AcceptedShutdownHappens
\* a destroyed connection stops
CHECK_DEADLOCK FALSE
