SPECIFICATION Spec
CONSTANTS
    p = p
    q = q
    r = r
    Paths = {p, q, r}
    Allowed = {p, q}
    Ignored = {q}
    Hunks = {1, 2}
    Texts = {0, 1}
    Start <- MCStart
    Edits <- MCEdits
    MaxWork = 2
    MaxEdits = 2
    MaxErrors = 1
CHECK_DEADLOCK FALSE
INVARIANTS
    TypeOK
    TellsTheTruth
    VerifiedResult
    Undisturbed
    Replayable
