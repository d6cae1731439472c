CONSTANTS
    u1 = u1
    u2 = u2
    e1 = e1
    d1 = d1
    d2 = d2
    f1 = f1
    f2 = f2
    w1 = w1
    w2 = w2
    None = None
    User = {u1, u2}
    Event = {e1}
    Recipient <- ToFirst
    Phone = {d1, d2}
    Family = {f1, f2}
    OwnerOf <- TwoOwners
    Worker = {w1, w2}
    MaxAttempts = 2
    Visibility = 2
    Budget = 1
    MaxDevices = 1
SPECIFICATION FairSpec
INVARIANTS
    OneSender
PROPERTIES
    ImplementsPromise
    EveryEventSettles
CHECK_DEADLOCK FALSE
