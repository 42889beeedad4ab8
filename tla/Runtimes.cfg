SPECIFICATION MCSpec
CONSTANTS
    s1 = s1
    g1 = g1
    g2 = g2
    w1 = w1
    w2 = w2
    k1 = k1
    k2 = k2
    t1 = t1
    t2 = t2
    v1 = v1
    v2 = v2
    c1 = c1
    c2 = c2
    empty = empty
    text = text
    binary = binary
    prefixed = prefixed
    large = large
    b1 = b1
    b2 = b2
    a1 = a1
    a2 = a2
    None = None
    Sources <- MCSources
    Workers <- MCWorkers
    MaxFetched = 2
    MaxParsed = 2
    BatchSize = 1
    MaxRuns = 3
    MaxAttempts = 1
    Keys <- MCKeys
    Entities = {1, 2}
    Priorities = {1, 5}
    StaleAfter = 2
    ArchiveAfter = 2
    MaxEntries = 1
    Ttl = 2
    MaxRetries = 1
    RetryDelay = 2
    MaxTick = 3
    Stages <- MCStages
    Threads <- MCThreads
    FailureThreshold = 2
    RecoveryTicks = 2
    HalfOpenSuccesses = 2
    Unbounded = 99
    Ids <- MCIds
    Held <- MCHeld
    Tiers <- MCTiers
    TierTtl <- MCTierTtl
    Contents <- MCContents
    Form <- MCForm
    Writers <- MCWorkers
    MaxRows = 2
    Garbled = c1
    Rebuilds <- MCRebuilds
    Rejects <- MCRejects
    Reasons = {"stale_rebuild", "duplicate", "manual_reject"}
    HardReasons = {"manual_reject"}
    StaleRebuild = "stale_rebuild"
INVARIANTS
    RuntimeSafe
    MemorySafe
    BreakerSafe
    VaultSafe
    EvidenceSafe
    RowIsAudited
CHECK_DEADLOCK FALSE
