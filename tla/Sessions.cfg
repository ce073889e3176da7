CONSTANTS
    SessionPart = {"delivery", "admission", "payload", "mcp", "codec"}
    MaxTurns = 1
    MaxInvocations = 2
    MaxApprovals = 0
    MaxOperations = 0
    MaximumUses = 1
    ToolCall = {c1}
    Policy = {p1}
    Publisher = {r1, r2}
    ContinueAfter = 2
    MaxFaults = 1
    Sender = {r1, r2, r3}
    InputKey = {k1, k2}
    Digest = {d1, d2}
    MaxAdmitted = 3
    Small = small
    Plain = plain
    Dense = dense
    Source = {small, plain, dense}
    WireSize <- WireSizes
    ZstdSize <- ZstdSizes
    referenceWireSize = 4
    BlobLimits = {8, 9}
    CodecWorker = {r1, r2}
    MinimumAge = 1
    MaxAge = 2
    MaxHistory = 2
    McpOperation = {r1, r2}
    maximumToolPages = 2
    MaxReconciles = 2
    Document <- Documents
    EditByte <- EditBytes
    maximumTools = 3
    MaxInputParts = 2
    maximumNameBytes = 2
    maximumContentBytes = 280
CONSTRAINT SessionsScope
SYMMETRY Replicas
VIEW SessionsView
SPECIFICATION SessionsSpec
INVARIANTS
    SignalledAndOnce
    AdmittedExactly
    RecordedDecodes
    McpAnswerIsReal
    DocumentsAreCanonical
CHECK_DEADLOCK FALSE
