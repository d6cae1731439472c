CONSTANTS
    p1 = p1
    p2 = p2
    h1 = h1
    h2 = h2
    None = None
    Erased = Erased
    Photo = {p1}
    Slot = {h1, h2}
    MaxMedia = 1
    Flaky = {"get", "remove"}
    Outcome = {"hidden"}
    MaxNow = 2
SPECIFICATION FairSpec
PROPERTIES
    LinkStopsWorking
CHECK_DEADLOCK FALSE
