SPECIFICATION CleanupSpec
CONSTANTS
    p1 = p1
    c1 = c1
    c2 = c2
    e = e
    Attempts = {p1}
    Evidence = {e}
    EvidenceOf <- MCEvidenceOf
    NoFile = NoFile
    NoAttempt = NoAttempt
    MaxFailures = 1
    Cleaners = {c1, c2}
CHECK_DEADLOCK FALSE
INVARIANT ExplicitRecovery
