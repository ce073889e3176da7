CONSTANTS
    MaxTurns = 2
    MaxInvocations = 1
    MaxApprovals = 0
    MaxOperations = 0
    MaximumUses = 1
    ToolCall = {c1}
    Policy = {p1}
    Publisher = {r1}
    ContinueAfter = 1000
    MaxFaults = 1
    Thread = {t1, t2}
    Closer = {x1, x2}
    MaxSets = 2
    MaxCalls = 1
CONSTRAINT ProgressScope
VIEW ProgressView
SPECIFICATION ProgressSpec
INVARIANTS
    SendsOnlyWhatItMay
PROPERTIES
    
    ClosersReturn
CHECK_DEADLOCK FALSE
