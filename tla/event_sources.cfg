SPECIFICATION Spec
CONSTANTS
    r1 = r1
    r2 = r2
    Records = {r1, r2}
    Due <- MCDue
    Deliveries = {q1, q2}
    Keys = {k1}
    Target <- MCTarget
    Offset = 1
    LastTick = 3
    MaxFaults = 1
    None = None
SYMMETRY DeliverySymmetry
INVARIANTS
    KeySettledOnce
    OncePerDay
CHECK_DEADLOCK FALSE
