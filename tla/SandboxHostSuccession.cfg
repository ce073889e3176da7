CONSTANTS
    o1 = o1
    o2 = o2
    Operation = {o1, o2}
    Generations = 2
    Cleanup = {o1}
    DataPlane = {o2}
    PageSize = 1
    MaxAssignments = 2
    MaxEpoch = 2
    MaximumReceipts = 2
    MaxOutput = 1
    MaxFaults = 1
SPECIFICATION HostSpec

CONSTRAINT Succession
INVARIANTS
    SuccessionIsClean
CHECK_DEADLOCK FALSE
