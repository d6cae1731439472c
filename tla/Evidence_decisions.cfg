CONSTANTS
    e1 = e1
    e2 = e2
    e3 = e3
    q1 = q1
    q2 = q2
    Nil = Nil
    Ticket = {e1, e2, e3}
    LevelBy <- ReceiptsAndPlace
    Request = {q1, q2}
    MaxEvidence = 2
SPECIFICATION EvidenceSpec
SYMMETRY RequestSymmetry
INVARIANTS
    LabelEarned
    OneDecisionEach
    FileKept
CHECK_DEADLOCK FALSE
