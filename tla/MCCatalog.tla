------------------------------- MODULE MCCatalog -------------------------------
(* Instances of Catalog for TLC.                                           *)
EXTENDS Catalog, TLC

CONSTANTS u1, c1, c2, a1, q1, q2

Cities == (a1 :> c1)

Row(status, city) == [status |-> status, into |-> None, city |-> city, area |-> None]

(* Two published targets, one with a place; the third is published, or yet *)
(* to come.                                                                *)
Targets0 ==
    {(1 :> Row("published", c1)) @@ (2 :> Row("published", None)) @@ (3 :> t) :
        t \in {None, Row("published", None)}}

RequestSymmetry == Permutations(Request)
================================================================================
