SPECIFICATION Spec
CONSTANTS
    s1 = s1
    s2 = s2
    s3 = s3
    Doc = Doc
    None = None
    Steps = {s1, s2, s3}
    Initial = {s1, s2}
    Sequence <- MCSequence
    Sequences = {1, 5}
    MinApprovals = 2
    Requests = {r1, r2, r3}
    MaxOpen = 3
SYMMETRY RequestSymmetry
INVARIANTS
    TypeOK
    DecisionBackedByAudit
    VerdictBacked
    StatusBacked
    VerdictsExclusive
    SequentialOrder
    CascadeSharesRequest
CHECK_DEADLOCK FALSE
