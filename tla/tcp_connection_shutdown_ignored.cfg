SPECIFICATION FairSpec
CONSTANTS
    Users = {}
    SendLen = 2
    HighWaterMark = 2
    MaxCalls = 0
    MaxData = 1
PROPERTY ShutdownCloses
\* a destroyed connection stops
CHECK_DEADLOCK FALSE
