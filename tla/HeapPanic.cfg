SPECIFICATION Spec
CONSTANTS
    PAGESIZE = 8
    HSIZE = 1
    MALLOC_MINSIZE = 4
    SizeRange = 1000
    Sizes <- MCSmall
    MaxPages = 4
    MaxStacks = 1
    MaxUsed = 3
    MaxLost = 1
    MaxFollowed = 1
INVARIANT
    NoPanic
