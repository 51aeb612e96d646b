SPECIFICATION Spec
CONSTANTS
    s1 = s1
    s2 = s2
    s3 = s3
    Doc = Doc
    None = None
    Steps = {s1, s2, s3}
    Initial = {s1, s2, s3}
    Sequence <- MCSequence
    Sequences = {1}
    MinApprovals = 2
    Requests = {r1, r2, r3, r4}
    MaxOpen = 1
SYMMETRY RequestSymmetry
INVARIANTS
    VerdictFinal
    UniqueSequence
PROPERTIES
    ImplementsVerdict
CHECK_DEADLOCK FALSE
