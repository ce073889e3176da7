CONSTANTS
    PlatformPart = {"core", "spool", "volumes", "snapshots", "jailer", "guest", "agent", "secret", "transfer", "snapshot-restore", "mount", "ownership", "session", "handoff", "lease", "workspace", "proxy", "lists", "follows", "views", "api"}
    Alice = alice
    Bob = bob
    Local = local
    Second = second
    Remote = remote
    Principal = {alice, bob}
    CoreClient = {local, second, remote}
    Owner <- ClientOwner
    Policy <- ClientPolicy
    OperationID = {r1, r2}
    Draft = {1, 2}
    FirstDraft <- Drafts
    Slot = {s1}
    Waiter = {w1}
    ProducedBytes = 1
    Patterns <- Secrets
    Chunk <- Chunks
    Redacted = "R"
    MaximumOutputChunk = 3
    ProducedLimit = 6
    RetainedLimit = 3
    Reader = {z1}
    Volume = {v1}
    Mount = {m1}
    Snapshot = {n1}
    Creator = {r1, r2}
    Holder = {r1, r2}
    MaxProvenance = 1
    MaxGeneration = 2
    MaxTime = 1
    Harness = harness
    Reaper = {reaper}
    Exchange = {r1, r2}
    maximumGuestOutputChunks = 2
    maximumGuestCommandOutputBytes = 2
    MaxProduced = 3
    MaxDescendants = 2
    Delivery = {r1, r2}
    Create = {r1, r2}
    Coordinator = {r1, r2}
    maximumHistory = 2
    MaxClock = 4
    HostRun = {r1, r2}
    RetryAttempts = 2
    MaxUint = 3
    Transfer = {r1, r2}
    Target = {g1}
    Artifact = {a1}
    Parts = 2
    MaxStagings = 3
    MaxTransfers = 3
    ProxyRequest = {r1, r2, q3}
    Declared = {r1, r2}
    ProjectedOperation = {r1, r2}
    Resources = 2
    Metadata = {"m1", "m2"}
    PageLimit = 1
    MaxOperationVersion = 3
    BoundClient = {r1, r2}
    ControlID = {i1}
    ControlDigest = {"d1", "d2"}
    VolumeInput = {"d1"}
    BindingLifetime = 2
    ControlRetention = 1
    maxOperationEventPage = 2
    MaxControlTime = 3
    MaxControlVersion = 3
    MaxControlRequests = 3
SYMMETRY Interchangeable
SPECIFICATION PlatformSpec
INVARIANTS
    CoreIsShared
    OutputIsRead
    StoreIsDurable
    
    
    ProbeIsProved
    TransfersAreWhole
    
    ControlReadsTrue
CHECK_DEADLOCK FALSE
