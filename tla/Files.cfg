CONSTANTS
    Readers = {boot}
    Boot = boot
    Disk <- MCDisk
    Paths <- MCPaths
    NDirect = 1
    Wrap = 32
    GroupWrap = 6
    Junk <- MCJunk
    MaxNodes = 7
    MaxFaults = 2
SPECIFICATION Spec
INVARIANTS
    NodesFormTree
    UsesLiveNodes
    ResolvesRight
    LoadsTheFile
PROPERTIES
    LoadReturns
