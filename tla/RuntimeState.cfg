CONSTANTS
    MaxTurns = 3
    MaxInvocations = 3
    MaxApprovals = 2
    MaxOperations = 2
    MaximumUses = 2
    ToolCall = {c1}
    Policy = {p1}
CONSTRAINT InScope
VIEW StateView
SPECIFICATION Spec
INVARIANTS
    TurnsAreOrderly
    OneTerminalEvent
    ExecutionIsAuthorized
PROPERTIES
    NothingIsRevised
CHECK_DEADLOCK FALSE
