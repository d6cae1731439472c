CONSTANTS
    u1 = u1
    u2 = u2
    r1 = r1
    r2 = r2
    r3 = r3
    c1 = c1
    c2 = c2
    None = None
    User <- OneUser
    Target = {1, 2}
    ReviewId = {r1, r2}
    Rating = {1}
    Day = 1
    Cooldown = 2
    MaxReviewsPerDay = 1
    Tx = {c1, c2}
    Outcome = {"published"}
    TargetOutcome = {"hidden"}
    UpgradeLevel = {}
    ManagersOf <- NoManagers
    CreatorOf <- MCCreatorOf
    Merges <- BothMerges
    MaxNow = 1
    MaxVersion = 1
SPECIFICATION FairSpec
INVARIANTS
    DailyCap
    CooldownKept
    MergedExact
PROPERTIES
    MergeMovesAll
    EveryTxEnds
CHECK_DEADLOCK FALSE
