SPECIFICATION Spec
CONSTANTS
    p1 = p1
    p2 = p2
    p3 = p3
    e = e
    f = f
    Attempts = {p1, p2, p3}
    Evidence = {e, f}
    EvidenceOf <- SameEvidenceOf
    NoFile = NoFile
    NoAttempt = NoAttempt
    MaxFailures = 0
CHECK_DEADLOCK FALSE
INVARIANT PersistedExactlyOnce
