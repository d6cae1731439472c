------------------------------- MODULE MCListing -------------------------------
(* Instances of Listing for TLC.                                           *)
EXTENDS Listing, TLC

CONSTANTS u1, u2, t1, t2

Authors == (1 :> u1) @@ (2 :> u2) @@ (3 :> u1)

Published(target, rating, created) ==
    [target |-> target, status |-> "published", rating |-> rating, created |-> created]

(* Two reviews of one target, at any ratings and at equal or different     *)
(* times; the third is of another target or is yet to come.                *)
Rows0 ==
    {(1 :> Published(t1, a, 0)) @@ (2 :> Published(t1, b, i)) @@ (3 :> c) :
        a \in Rating, b \in Rating, i \in {0, 1}, c \in {None, Published(t2, 2, 0)}}
================================================================================
