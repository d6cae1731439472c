CONSTANTS
    u1 = u1
    c1 = c1
    c2 = c2
    a1 = a1
    q1 = q1
    q2 = q2
    None = None
    Target = {1, 2, 3}
    User = {u1}
    City = {c1, c2}
    Area = {a1}
    CityOf <- Cities
    Request = {q1, q2}
    InitialTargets <- Targets0
    MaxReports = 2
    MaxCalls = 5
SPECIFICATION Spec
SYMMETRY RequestSymmetry
INVARIANTS
    AreaInCity
    MergesLeadSomewhere
    WaitInOrder
PROPERTIES
    OpenReportsMove
CHECK_DEADLOCK FALSE
