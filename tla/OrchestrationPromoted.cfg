CONSTANTS
    MaxTurns = 2
    MaxInvocations = 1
    MaxApprovals = 0
    MaxOperations = 0
    MaximumUses = 1
    ToolCall = {c1}
    Policy = {p1}
    Publisher = {r1}
    ContinueAfter = 1000
    MaxFaults = 0
VIEW OrchestrationView
SPECIFICATION FairOrchestrationSpec
PROPERTIES
    RunningTurnIsInvoked
