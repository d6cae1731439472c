CONSTANTS
    s1 = s1
    s2 = s2
    s3 = s3
    q1 = q1
    q2 = q2
    c1 = c1
    c2 = c2
    None = None
    Gone = Gone
    Sid = {s1, s2, s3}
    Req = {q1}
    Tx = {c1, c2}
    Ops <- All
    RefreshTTL = 1
    MaxLifetime = 1
    Grace = 1
    MaxNow = 1
SPECIFICATION Spec
SYMMETRY SessionSymmetry
INVARIANTS
    OneHead
    Tombstone
PROPERTIES
    OnlyWhenDue
CHECK_DEADLOCK FALSE
