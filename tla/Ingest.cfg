CONSTANTS
    s1 = s1  s2 = s2  None = None
    Sessions <- MCSessions
    Rows <- MCRows
    Sites <- MCSites
    Links = {"a", "b", "c", "f"}
    Fixed <- MCFixed
    Targets = {"a"}
    PageLimit = 3
    MaxItems = 5
    MaxRuns = 2
    Urls = {"a", "b", "c", "d", "e"}
    StartUrls = {"a", "b"}
    Content <- MCContent
    LinksOf <- MCLinksOf
    Deepest = {"c"}
    Listed = {"a", "b", "c", "d"}
    Disallowed = {}
    Blocked = {"y"}
    MaxRequests = 2
    Concurrency = 2
    Files <- MCFiles
    MaxCalls = 2
    Steps <- MCSteps
    Gates <- MCSessions
    MaxStarts = 3
    Edits <- MCEdits
SPECIFICATION MCSpec
INVARIANTS
    FetchSafe
    ImportSafe
    ProofSafe
CHECK_DEADLOCK FALSE
