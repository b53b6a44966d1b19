CONSTANTS
    MaxPhysPages = 18
    FirstPage = 5
    BootPages <- MCBootPages
    MbiReserved <- MCMbiReserved
    NDirs = 2
    NTables = 2
    NPages = 7
    Kernel = Kernel
    A = A
    B = B
    Spaces <- MCSpaces
    NullPtr = NullPtr
    UserPages <- MCUserPages
    HeapPages <- MCHeapPages
SYMMETRY Symmetry
SPECIFICATION Spec
INVARIANTS
    TypeOK
    BitmapMatchesTables
    NoAliasing
    TreesClosed
    KernelShared
PROPERTY
    AllocationsAreFresh
    ImplementsOwnership
