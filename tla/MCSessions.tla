------------------------------ MODULE MCSessions ------------------------------
(* Instances of Sessions for TLC.                                          *)
EXTENDS Sessions, TLC

CONSTANTS s1, s2, s3, q1, q2, c1, c2

Owner == {"register", "login", "refresh", "request", "cancelRequest", "erase"}

All == {"register", "login", "refresh", "logout", "revokeSession", "logoutAll",
        "changePassword", "reset", "deactivate", "suspend", "reinstate", "request", "cancelRequest", "erase"}

SessionSymmetry == Permutations(Sid) \cup Permutations(Req) \cup Permutations(Tx)
===============================================================================
