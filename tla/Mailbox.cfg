SPECIFICATION Spec
CONSTANTS
    p1 = p1
    p2 = p2
    p3 = p3
    a = a
    b = b
    Sessions = {p1, p2, p3}
    Names = {a, b}
    NameOf <- MCNameOf
    All = All
    NoBoss = NoBoss
    Free = Free
    Orphan = Orphan
    Garbage = Garbage
    MaxPosts = 2
    MaxChores = 3
    MaxCrashes = 1
    SlowHolders = TRUE
SYMMETRY Symmetric
CONSTRAINT LockHonoured
CHECK_DEADLOCK FALSE
INVARIANTS
    TypeOK
    MutualExclusion
    SeqsIncrease
    ViewsCurrent
    PostsKept
    JoinsKept
    Star
    NothingSkipped
PROPERTIES
    CursorAdvances
