CONSTANTS
    s1 = s1
    s2 = s2
    s3 = s3
    q1 = q1
    q2 = q2
    c1 = c1
    c2 = c2
    None = None
    Gone = Gone
    Sid = {s1, s2}
    Req = {q1}
    Tx = {c1, c2}
    Ops = {"register", "login", "request", "suspend", "reinstate"}
    RefreshTTL = 1
    MaxLifetime = 1
    Grace = 0
    MaxNow = 0
SPECIFICATION Spec
SYMMETRY SessionSymmetry
INVARIANTS
    SignInWins
CHECK_DEADLOCK FALSE
