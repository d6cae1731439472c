CONSTANTS
    p1 = p1
    p2 = p2
    h1 = h1
    h2 = h2
    None = None
    Erased = Erased
    Photo = {p1}
    Slot = {h1, h2}
    MaxMedia = 1
    Flaky = {}
    Outcome = {"published", "hidden"}
    MaxNow = 2
SPECIFICATION FairSpec
PROPERTIES
    RestoredShown
CHECK_DEADLOCK FALSE
