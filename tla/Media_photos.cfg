CONSTANTS
    p1 = p1
    p2 = p2
    h1 = h1
    h2 = h2
    None = None
    Erased = Erased
    Photo = {p1}
    Slot = {h1, h2}
    MaxMedia = 1
    Flaky = {"get", "put", "remove"}
    Outcome = {"published", "hidden"}
    MaxNow = 2
SPECIFICATION FairSpec
INVARIANTS
    PhotoKept
    OneFinalizer
PROPERTIES
    PhotosFollowReview
    QueueDrains
CHECK_DEADLOCK FALSE
