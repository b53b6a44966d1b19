SPECIFICATION Spec
CONSTANTS
    PAGESIZE = 8
    HSIZE = 1
    MALLOC_MINSIZE = 4
    SizeRange = 1000
    Sizes <- MCLarge
    MaxPages = 5
    MaxStacks = 2
    MaxUsed = 3
    MaxLost = 1
    MaxFollowed = 1
INVARIANTS
    TypeOK
    ListTilesHeap
    HeapOwnsItsPages
    HeldIsAllocated
PROPERTY
    MallocReturns
