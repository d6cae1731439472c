CONSTANTS
    u1 = u1
    u2 = u2
    b1 = b1
    b2 = b2
    r1 = r1
    q1 = q1
    q2 = q2
    None = None
    User = {u1, u2}
    Moderator = {u1, u2}
    Business = {b1}
    Review = {r1}
    BusinessOf <- FirstOnly
    Request = {q1, q2}
    MaxClaims = 3
    MaxTexts = 2
SPECIFICATION Spec
SYMMETRY RequestSymmetry
INVARIANTS
    MembersApproved
    TrailTellsStatus
    EditsComplete
PROPERTIES
    OnlyManagersSpeak
CHECK_DEADLOCK FALSE
