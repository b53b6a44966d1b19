CONSTANTS
    T1 = T1
    T2 = T2
    Tasks <- MCTwo
    Kernel = Kernel
    Chars = {}
    BS = BS
    NL = NL
    NUL = NUL
    Junk = Junk
    NullPtr = NullPtr
    Sizes = {1}
    IntMax = 3
    MaxKeys = 1
SPECIFICATION Spec
CHECK_DEADLOCK FALSE
SYMMETRY Symmetry
INVARIANTS
    TypeOK
    RequestIsArmed
