CONSTANTS
    u1 = u1
    u2 = u2
    r1 = r1
    r2 = r2
    r3 = r3
    c1 = c1
    c2 = c2
    None = None
    User <- OneUser
    Target = {1, 2}
    ReviewId = {r1}
    Rating = {1}
    Day = 0
    Cooldown = 0
    MaxReviewsPerDay = 2
    Tx = {c1, c2}
    Outcome = {"published", "hidden"}
    TargetOutcome = {}
    UpgradeLevel = {}
    ManagersOf <- NoManagers
    CreatorOf <- NoCreators
    Merges <- OneMerge
    MaxNow = 0
    MaxVersion = 1
SPECIFICATION Spec
INVARIANTS
    NothingStranded
CHECK_DEADLOCK FALSE
