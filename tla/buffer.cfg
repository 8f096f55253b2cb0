SPECIFICATION Spec
CONSTANTS
    Byte = {b1, b2}
    Zero = zero
    kCheapPrepend = 1
    kInitialSize = 2
    ExtraBuf = 2
    MaxLen = 3
    MaxReadable = 4
INVARIANTS
    IndicesInOrder
PROPERTIES
    ImplementsByteQueue
    GrowsOnlyWhenFull
