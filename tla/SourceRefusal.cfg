SPECIFICATION Spec
CONSTANTS
    laws = laws
    p1 = p1
    p2 = p2
    r1 = r1
    r2 = r2
    Sources = {laws}
    Court = laws
    SpecAutomation <- MCSpecAutomation
    SpecLifecycle <- MCSpecLifecycle
    k1 = k1
    k2 = k2
    item = item
    act = act
    entry = entry
    Recs = {item, act, entry}
    Instruments = {act}
    Events = {entry}
    Twice = {entry}
    Sessions = {p1, p2}
    Replicas = {r1, r2}
    Home <- MCHome
    Keys = {k1, k2}
    MaxRuns = 2
    NoOne = NoOne
INVARIANT RefusalKept
