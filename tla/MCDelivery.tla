------------------------------ MODULE MCDelivery -------------------------------
EXTENDS Delivery, TLC
CONSTANTS u1, u2, e1, d1, d2, f1, f2, w1, w2
TwoOwners == (f1 :> u1 @@ f2 :> u2)
OneOwner == (f1 :> u1 @@ f2 :> u1)
ToFirst == (e1 :> u1)
===============================================================================
