CONSTANTS
    T1 = T1
    T2 = T2
    Tasks <- MCOne
    Kernel = Kernel
    Chars = {a, b}
    BS = BS
    NL = NL
    NUL = NUL
    Junk = Junk
    NullPtr = NullPtr
    Sizes = {0, 1, 2, 3}
    IntMax = 3
    MaxKeys = 3
SPECIFICATION Spec
CHECK_DEADLOCK FALSE
INVARIANTS
    LineIsWhatWasTyped
    WritesAtMostNAndNul
PROPERTIES
    EveryCallReturns
