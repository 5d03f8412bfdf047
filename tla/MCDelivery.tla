----------------------------- MODULE MCDelivery -----------------------------
(* Instance of Delivery for TLC.                                           *)
EXTENDS Delivery, TLC

CONSTANTS c1, c2, s1, s2

At(u, s) == [user |-> u, server |-> s]

\* One connection each on two nodes, and two of one user on one node.
MCPlaces == {c1 :> At(1, s1) @@ c2 :> At(2, s2), c1 :> At(1, s1) @@ c2 :> At(1, s1)}
=============================================================================
