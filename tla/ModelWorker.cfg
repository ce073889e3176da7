CONSTANTS
    MaxTurns = 2
    MaxInvocations = 1
    MaxApprovals = 1
    MaxOperations = 0
    MaximumUses = 1
    ToolCall = {c1}
    Policy = {p1}
    Worker = {w1, w2}
    Lone = w1
    ProviderEnd = {"succeeded", "failed", "tool"}
    PolicyDecision = {TRUE, FALSE}
    MaxFaults = 2
    ProgressFaults = 1
VIEW ModelView
SPECIFICATION PartSpec
INVARIANTS
    AnswerIsFaithful
PROPERTIES
    AnswersAreRecorded
CHECK_DEADLOCK FALSE
