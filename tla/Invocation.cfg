SPECIFICATION Spec
CONSTANTS
    c1 = c1
    c2 = c2
    p1 = p1
    p2 = p2
    m1 = m1
    m2 = m2
    r = r
    s0 = s0
    s1 = s1
    d1 = d1
    d2 = d2
    Cmds = {c1, c2}
    Plans = {p1, p2}
    Mains = {m1, m2}
    Reviewers = {m1, r}
    Sources = {s0, s1}
    Deltas = {d1, d2}
    Result <- MCResult
    MaxStarts = 5
    MaxCrashes = 1
    MaxErrors = 1
    MaxEdits = 1
SYMMETRY Symmetry
CHECK_DEADLOCK FALSE
INVARIANTS
    TypeOK
    Authorized
    PlanFirst
    NothingLeftBehind
PROPERTIES
    EvidenceKept
    OnlyConsumers
