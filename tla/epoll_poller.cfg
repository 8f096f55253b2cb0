SPECIFICATION Spec
CONSTANTS
    ChannelPtr = {p1, p2, p3}
    Fd = {f1, f2, f3}
    NoChannel = NoChannel
    kInitEventListSize = 1
\* nothing is said of what follows the use of a freed channel
CHECK_DEADLOCK FALSE
SYMMETRY Symmetry
INVARIANTS
    TypeOK
    IndexMatchesKernel
    EpollCtlSucceeds
    MapMatchesIndex
    NoDanglingChannel
