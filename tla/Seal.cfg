SPECIFICATION FairSpec
CONSTANTS
    p1 = p1
    p2 = p2
    p3 = p3
    e = e
    f = f
    Attempts = {p1, p2, p3}
    Evidence = {e, f}
    EvidenceOf <- MCEvidenceOf
    NoFile = NoFile
    NoAttempt = NoAttempt
    MaxFailures = 2
CONSTRAINT GapAvoided
CHECK_DEADLOCK FALSE
INVARIANTS
    TypeOK
    SuccessKept
    LeftoversClaimed
    OneAtWork
PROPERTIES
    SealedOnce
    RetrySeals
