SPECIFICATION AllEnds
CONSTANTS
    Items = {i1, i2, i3}
    Requests = {r1, r2}
    Dispatchers = {d1, d2}
    BatchSize = 2
    MaxFaults = 1
    None = None
    s1 = s1  s2 = s2  Doc = Doc
INVARIANTS
    ExactlyOnce
    NoLimbo
    OnlyCommitted
    ClaimsDisjoint
PROPERTIES
    ImplementsDelivery
    EveryRowSettles
    EveryRequestEnds
CHECK_DEADLOCK FALSE
