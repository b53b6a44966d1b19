CONSTANTS
    T1 = T1
    T2 = T2
    Tasks <- MCTwo
    Kernel = Kernel
    Chars = {a}
    BS = BS
    NL = NL
    NUL = NUL
    Junk = Junk
    NullPtr = NullPtr
    Sizes = {1, 2}
    IntMax = 3
    MaxKeys = 2
SPECIFICATION Spec
CHECK_DEADLOCK FALSE
INVARIANT KeysReachTheRequester
