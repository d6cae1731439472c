CONSTANTS
    u1 = u1
    u2 = u2
    b1 = b1
    b2 = b2
    r1 = r1
    q1 = q1
    q2 = q2
    None = None
    User = {u1, u2}
    Moderator = {u2}
    Business = {b1, b2}
    Review = {r1}
    BusinessOf <- FirstOnly
    Request = {q1, q2}
    MaxClaims = 2
    MaxTexts = 0
SPECIFICATION Spec
SYMMETRY RequestSymmetry
INVARIANT RoleFollowsMembership
CHECK_DEADLOCK FALSE
