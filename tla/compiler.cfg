SPECIFICATION Spec
CONSTANTS
    a = a
    b = b
    c = c
    Nil = Nil
    States = {a, b, c}
    First = a
    Declarations <- MCDeclarations
    Budget = 2
    Lags = {0, 1}
    LastDay = 3
INVARIANTS BreachedOnTime EveryStateReached
PROPERTIES DeclaredProcess
SYMMETRY Others
CHECK_DEADLOCK FALSE
