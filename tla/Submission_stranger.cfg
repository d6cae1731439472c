SPECIFICATION Spec
CONSTANTS
    u1 = u1  u2 = u2  k1 = k1  k2 = k2
    r1 = r1  r2 = r2 r3 = r3 q1 = q1 q2 = q2
    User = {u1, u2}
    Key = {k1}
    Rid = {r1, r2}
    Slot = {q1, q2}
    None = None
    KeyLife = 1
    Cooldown = 2
    MaxAttempts = 2
    MaxNow = 2
    SwitchDuringRun = TRUE
INVARIANTS UnderOwnName
CHECK_DEADLOCK FALSE
