SPECIFICATION FairSpec
CONSTANTS
    numThreads = 3
    SelfQuit = {2}
    MaxConns = 5
INVARIANTS
    TypeOK
    StartedLoopsAreAlive
    FairShare
    OnlyWakeupComesLate
PROPERTIES
    StartReturns
    JoinReturns
\* the pool is destroyed for good
CHECK_DEADLOCK FALSE
