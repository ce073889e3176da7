CONSTANTS
    MaxTurns = 1
    MaxInvocations = 0
    MaxApprovals = 1
    MaxOperations = 1
    MaximumUses = 2
    ToolCall = {c1}
    Policy = {p1}
    Worker = {w1, w2}
    MaxFaults = 2
    MaxRenewals = 0
VIEW ToolView
SPECIFICATION ToolSpec
INVARIANTS
    NeverResubmitted
CHECK_DEADLOCK FALSE
