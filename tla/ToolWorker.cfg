CONSTANTS
    MaxTurns = 1
    MaxInvocations = 0
    MaxApprovals = 1
    MaxOperations = 1
    MaximumUses = 2
    ToolCall = {c1}
    Policy = {p1}
    Worker = {w1, w2}
    MaxFaults = 1
    MaxRenewals = 1
VIEW ToolView
SPECIFICATION FairToolSpec
INVARIANTS
    ExecutionIsEarned
PROPERTIES
    LatestClaimantFinalizes
    IntentIsDecided
CHECK_DEADLOCK FALSE
