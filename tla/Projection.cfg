SPECIFICATION Spec
CONSTANTS
    p = p
    q = q
    r = r
    Paths = {p, q, r}
    Allowed = {p, q}
    Ignored = {q}
    Hunks = {1, 2}
    Texts = {0, 1}
    Start <- RemovedStart
    Edits <- MCEdits
    MaxWork = 1
    MaxEdits = 0
    MaxErrors = 0
CHECK_DEADLOCK FALSE
INVARIANTS
    PatchShowsResult
