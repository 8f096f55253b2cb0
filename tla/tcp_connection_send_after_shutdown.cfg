SPECIFICATION Spec
CONSTANTS
    Users = {u1}
    SendLen = 2
    HighWaterMark = 2
    MaxCalls = 2
    MaxData = 1
PROPERTY NoSendAfterShutdown
\* a destroyed connection stops
CHECK_DEADLOCK FALSE
