CONSTANTS
    MaxPid = 4
    MaxStep = 1
    CallSteps = 2
    MaxStale = 1
SPECIFICATION Spec
INVARIANTS
    ResumesInPlace
    TssIsCurrents
    CallerIsKept
