CONSTANTS
    Readers = {boot}
    Boot = boot
    Requests <- MCRequests
    SectorSize = 2
    Low = 2
    High = 4
    MaxLba = 4
    MaxInt = 8
SPECIFICATION Spec
INVARIANTS
    TypeOK
    RegistersAreOurs
PROPERTIES
    KeepsPromise
    ReadReturns
