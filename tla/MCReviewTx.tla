------------------------------ MODULE MCReviewTx ------------------------------
(* Instances of ReviewTx for TLC.                                          *)
EXTENDS ReviewTx, TLC

CONSTANTS u1, u2, r1, r2, r3, c1, c2

MCUser == {u1, u2}

OneUser == {u1}

(* Target 1 belongs to a business u2 manages, who may review it too.       *)
MCManagersOf == [t \in Target |-> IF t = 1 THEN {u2} ELSE {}]

(* u1 contributed target 2, and is told when a moderator decides it.       *)
MCCreatorOf == [t \in Target |-> IF t = 2 THEN u1 ELSE None]

NoManagers == [t \in Target |-> {}]

NoCreators == [t \in Target |-> None]

NoMerges == {}

OneMerge == {<<2, 1>>}

BothMerges == {<<1, 2>>, <<2, 1>>}

ReviewSymmetry == Permutations(ReviewId) \cup Permutations(Tx)
===============================================================================
