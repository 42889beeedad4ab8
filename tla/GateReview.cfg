SPECIFICATION Spec
CONSTANTS
    held = held
    open = open
    source1 = source1
    old = old
    new = new
    unsafe = unsafe
    Incidents = {held, open}
    LegalSources = {source1}
    Contents = {old, new, unsafe}
    Blocked = {unsafe}
    Imports <- MCImports
    AdapterFed = {held}
    Loop = loop
    Threads = {retractA}
    Decisions <- MCDecisions
    Absent = Absent
    NoTx = NoTx
    NoReview = NoReview
INVARIANTS
    PublicIsDecided
    BlockedNotPublic
    PublicHasPublicStatus
    ReviewKept
    HistoryExactUnlessRaced
