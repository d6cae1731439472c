------------------------------ MODULE MCOwnership ------------------------------
(* Instances of Ownership for TLC.                                         *)
EXTENDS Ownership, TLC

CONSTANTS u1, u2, b1, b2, r1, q1, q2

FirstOnly == [r \in Review |-> b1]

RequestSymmetry == Permutations(Request)
===============================================================================
