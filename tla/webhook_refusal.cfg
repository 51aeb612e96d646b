SPECIFICATION Spec
CONSTANTS
    r1 = r1
    r2 = r2
    Records = {r1}
    Due <- MCDue
    Deliveries = {q1, q2, q3}
    Keys = {k1}
    Target <- MCTarget
    Offset = 0
    LastTick = 0
    MaxFaults = 0
    None = None
INVARIANTS
    DuplicatesHaveFired
CHECK_DEADLOCK FALSE
