CONSTANTS
    u1 = u1
    u2 = u2
    t1 = t1
    t2 = t2
    None = None
    Review = {1, 2, 3}
    User = {u1, u2}
    Target = {t1, t2}
    Author <- Authors
    Rating = {1, 2}
    Limit = 1
    Walked = {t1, u1}
    Stars = {None, 2}
    InitialRows <- Rows0
    MaxNow = 2
    MaxChanges = 2
SPECIFICATION FairSpec
INVARIANTS
    NoneMissed
    InOrder
PROPERTIES
    WalkEnds
CHECK_DEADLOCK FALSE
