SPECIFICATION MCSpec
CONSTANTS
    u1 = u1
    t1 = t1
    t2 = t2
    p1 = p1
    p2 = p2
    s1 = s1
    s2 = s2
    r1 = r1
    r2 = r2
    x1 = x1
    i1 = i1
    k1 = k1
    None = None
    Sessions <- MCSessions
    Users <- MCUsers
    Threads <- MCThreads
    MaxSessions = 3
    Procs <- MCProcs
    Limit = 1
    Window = 2
    MaxTime = 2
    Bearers <- MCBearers
    Labels = {"1", "1(a)"}
    Unnamed = {"1"}
    Texts = {"a", "b"}
    Documents <- MCDocuments
    MaxRows = 3
    MaxRevs = 3
    MaxItems = 1
    Sources <- MCSources
    MaxDrafts = 1
    MaxActions = 4
    Forms <- MCForms
    MaxRecords = 2
    MaxSnapshots = 1
    Pairs = {x1}
    Reviewers = {r1, r2}
    MaxLog = 4
    Names = {i1}
    Externals = {k1}
    Alike = {}
    MaxEntities = 3
    MaxRefs = 1
    SourceTypes = {"court_records", "news"}
    EventForms <- MCEvents
    IncidentForms <- MCIncidents
    MaxSources = 2
    MaxEvents = 2
    MaxIncidents = 1
    Limits = {1, 2}
    CaseLimit = 1
    Chosen = {"verified_court_record", "rejected"}
    Nodes <- MCNodes
    ValidFroms = {1}
    Depths = {1, 2, 4}
    EdgeLimit = 2
    Enough <- MCEnough
    MaxEdges = 3
INVARIANTS
    AccessSafe
    ReviewSafe
    SearchesSafe
    EntitiesSafe
CHECK_DEADLOCK FALSE
