SPECIFICATION Spec
CONSTANTS
    s1 = s1
    s2 = s2
    s3 = s3
    Doc = Doc
    None = None
    Steps = {s1, s2}
    Initial = {s1, s2}
    Sequence <- MCSequence
    Sequences = {1}
    MinApprovals = 0
    Requests = {r1, r2}
    MaxOpen = 2
INVARIANTS
    RollupComplete
CHECK_DEADLOCK FALSE
