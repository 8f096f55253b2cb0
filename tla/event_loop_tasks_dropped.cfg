SPECIFICATION Spec
CONSTANTS
    Owner = owner
    Callers = {c1}
    MaxCalls = 2
INVARIANT
    EarlierTasksProcessed
\* the loop stops for good after quit()
CHECK_DEADLOCK FALSE
