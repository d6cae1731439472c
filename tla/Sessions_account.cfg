CONSTANTS
    s1 = s1
    s2 = s2
    s3 = s3
    q1 = q1
    q2 = q2
    c1 = c1
    c2 = c2
    None = None
    Gone = Gone
    Sid = {s1, s2}
    Req = {q1, q2}
    Tx = {c1, c2}
    Ops <- Owner
    RefreshTTL = 2
    MaxLifetime = 2
    Grace = 1
    MaxNow = 3
SPECIFICATION FairSpec
INVARIANTS
    LifetimeKept
    SignInWins
PROPERTIES
    ErasureHappens
CHECK_DEADLOCK FALSE
