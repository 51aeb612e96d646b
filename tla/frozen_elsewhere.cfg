SPECIFICATION OneAtATime
CONSTANTS
    r1 = r1  r2 = r2  p1 = p1  p2 = p2  c1 = c1  c2 = c2
    e1 = e1  l1 = l1  l2 = l2  g1 = g1  g2 = g2  k1 = k1  k2 = k2  k3 = k3
    Nil = Nil
    Sequence = Sequence
    Parents = {p1}
    Children = {c1, c2}
    Requests = {r1, r2}
    Overlap = {FALSE}
    Steered = {FALSE}
    Need = 2
    MasterData = TRUE
    Frozen = {"Submitted"}
    MaxNumber = 2
    Cards = {k1, k2, k3}
    Lanes = {g1, g2}
    Settings <- MCSettings
    MaxOrder = 6
    Periods = {p1, p2}
    Entries = {e1}
    Lines = {l1, l2}
    Postings = {FALSE}
    Amounts <- MCAmounts
PROPERTIES FrozenOnEveryPath
SYMMETRY Same
