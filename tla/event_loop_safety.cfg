SPECIFICATION Spec
CONSTANTS
    Owner = owner
    Callers = {c1, c2}
    MaxCalls = 2
SYMMETRY Symmetry
INVARIANTS
    TypeOK
    NoLostWakeup
    NoLostQuit
    ProgramOrder
\* the loop stops for good after quit()
CHECK_DEADLOCK FALSE
