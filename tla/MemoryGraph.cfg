CONSTANTS
    e1 = e1  e2 = e2
    s1 = s1  s2 = s2  s3 = s3
    srcA = srcA  srcB = srcB
    k1 = k1  k2 = k2  k3 = k3
    Entities = {e1}
    Snapshots = {s1, s2, s3}
    Sources = {srcA, srcB}
    Keys = {k1, k2}
    Mapped = {k1}
    Owner <- MCOwner
    SourceOf <- MCSourceOf
    FetchedAt <- MCFetchedAt
    ExtractedKeys <- MCExtracted
    Reasons = {"stale_rebuild", "manual_reject"}
    HardReasons = {"manual_reject"}
    StaleRebuild = "stale_rebuild"
    NoReason = NoReason  NoSnap = NoSnap  NoEntity = NoEntity  NoState = NoState
SPECIFICATION Spec
PROPERTIES
    ActiveClaimsReachGraph
