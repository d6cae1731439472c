CONSTANTS
    u1 = u1
    u2 = u2
    r1 = r1
    r2 = r2
    r3 = r3
    c1 = c1
    c2 = c2
    None = None
    User <- MCUser
    Target = {1}
    ReviewId = {r1, r2}
    Rating = {1, 5}
    Day = 0
    Cooldown = 0
    MaxReviewsPerDay = 1
    Tx = {c1, c2}
    Outcome = {"published", "hidden"}
    TargetOutcome = {}
    UpgradeLevel = {"receipt_submitted"}
    ManagersOf <- MCManagersOf
    CreatorOf <- NoCreators
    Merges <- NoMerges
    MaxNow = 0
    MaxVersion = 2
SPECIFICATION Spec
SYMMETRY ReviewSymmetry
INVARIANTS
    TypeOK
    StatsExact
PROPERTIES
    NoLostEdit
    ImplementsLedger
CHECK_DEADLOCK FALSE
