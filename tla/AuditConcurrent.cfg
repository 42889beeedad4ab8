CONSTANTS
    w1 = w1  w2 = w2  d1 = d1
    Sessions = {w1, w2, d1}
    Direct = {d1}
    MaxId = 4
    MaxClock = 5
SPECIFICATION Spec
SYMMETRY Symmetry
CHECK_DEADLOCK FALSE
INVARIANTS
    LinksResolve
    QuietChainVerifies
    BreakIsPermanent
