CONSTANTS
    ServicePart = {"store", "kernel", "backfill", "milestone", "approval", "teardown", "order", "migrate", "catalog", "lookups", "session", "views"}
    Caller = {a1, a2}
    IdempotencyKey = {i1, i2}
    Request = {r1, r2}
    NoRequest = NoRequest
    MaxAttempts = 2
    MaxCalls = 3
    Key = {1, 2, 3, 4, 5}
    Content = {c1}
    MaxTurns = 3
    MaxRevisions = 2
    PageLimits = {2}
    Controller = {a1, a2}
    Requests = 1
    Created <- CreatedAt
    Expires <- ExpiresAt
    MaxNow = 2
    MaxFaults = 1
    Invocation = {a1, a2, a3}
    Requirement = {q1, q2}
    Owned = {q1}
    MaxDeliveries = 3
    Actor = {owner, admin, other}
    ApprovalOwner = owner
    TenantAdmin = {admin}
    DecisionKey = {k1, k2}
    maximumScopeUses = 2
    maximumApprovalWindow = 2
    MaxInstant = 3
    Operator = {a1, a2}
    Rendering = {1, 2}
    Object <- Objects
    MaxUID = 4
    ApiCaller = {a1, a2}
    ApiKey = {k1, k2}
    MaxApiCalls = 3
    EventPageLimit = 2
CONSTRAINT KeysInOrder
SYMMETRY Alike
VIEW ServicesView
SPECIFICATION ServicesSpec
INVARIANTS
    
    KernelIsTruthful
    OneVerdict
    ToldIsRetained
    
PROPERTIES
    Implements
    ServesInOrder
    DecisionStands
CHECK_DEADLOCK FALSE
