SPECIFICATION ServeSpec
CONSTANTS
    p1 = p1
    p2 = p2
    p3 = p3
    a = a
    b = b
    Sessions = {p1, p2, p3}
    Names = {a, b}
    NameOf <- MCNameOf
    All = All
    NoBoss = NoBoss
    Free = Free
    Orphan = Orphan
    Garbage = Garbage
    Servers = {p2}
    RunOf <- MCRunOf
    MaxPosts = 2
    MaxChores = 2
    MaxCrashes = 1
    MaxFails = 1
    SlowHolders = FALSE
CHECK_DEADLOCK FALSE
INVARIANTS
    NothingSkipped
    Answered
    HandedOnce
PROPERTIES
    MailHeard
