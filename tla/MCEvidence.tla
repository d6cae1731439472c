------------------------------ MODULE MCEvidence -------------------------------
(* Instances of Evidence for TLC.                                          *)
EXTENDS Evidence, TLC

CONSTANTS e1, e2, e3, q1, q2

ReceiptsAndPlace ==
    (e1 :> "receipt_submitted" @@ e2 :> "location_verified" @@ e3 :> "receipt_submitted")

RequestSymmetry == Permutations(Request)
===============================================================================
