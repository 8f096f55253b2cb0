SPECIFICATION FairSpec
CONSTANTS
    Owner = owner
    Callers = {c1}
    MaxCalls = 2
PROPERTIES
    ImplementsTaskQueue
    WakeupsSuffice
    QuitStopsTheLoop
\* the loop stops for good after quit()
CHECK_DEADLOCK FALSE
