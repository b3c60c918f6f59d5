SPECIFICATION Spec
CONSTANTS
    a = a
    b = b
    good = good
    wild = wild
    NGates = 2
    Trees = {a, b, good, wild}
    Green <- MCGreen
    InScope = {a, b, good}
    Sources = {0, 1}
    MaxAttempts = 2
    MaxEdits = 1
    MaxForks = 1
CHECK_DEADLOCK FALSE
INVARIANTS
    TypeOK
    GroupEnds
    SealableEvidence
    GatesVouch
    RetryTold
PROPERTIES
    Returns
