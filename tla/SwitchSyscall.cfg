CONSTANTS
    MaxPid = 3
    MaxStep = 1
    CallSteps = 2
    MaxStale = 0
SPECIFICATION Spec
INVARIANTS
    CallsReturnToCaller
