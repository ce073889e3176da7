CONSTANTS
    Digest = {d1, d2}
    Media = {revision, artifact, descriptor}
    RevisionMedia = revision
    DescriptorMedia = descriptor
    Authorized = {"collect_expired", "erase_tenant"}
    Writer = {w1}
    Operator = {o1, o2}
    NoReference = NoReference
    MaxRecords = 2
    MaxDeletionFaults = 1
SPECIFICATION FairRetentionSpec
INVARIANTS
    ContentIsAccounted
PROPERTIES
    
    IntentIsCarriedOut
CHECK_DEADLOCK FALSE
