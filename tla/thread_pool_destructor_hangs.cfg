SPECIFICATION FairSpec
CONSTANTS
    numThreads = 3
    SelfQuit = {}
    MaxConns = 0
PROPERTY DestructorReturns
\* the pool is destroyed for good
CHECK_DEADLOCK FALSE
