CONSTANTS
    MaxPhysPages = 24
    FirstPage = 5
    BootPages <- MCBootPages
    MbiReserved <- MCMbiReserved
    NDirs = 2
    NTables = 2
    NPages = 8
    Kernel = 0
    Spaces <- MCSpaces2
    NullPtr = NullPtr
    MaxPid = 3
    Images <- MCImages
    StackPage <- MCStack
    FaultPages <- MCFault
    MaxHeap = 1
    MaxStale = 1
SPECIFICATION Spec
INVARIANTS
    TypeOK
    MemoryInOrder
    AddressSpacesMatchTasks
    KernelPagesOwned
    EarlyReturnsAreSafe
PROPERTIES
    IdleKernelLoads
    RoundRobin
