----------------------------- MODULE MCSendPath -----------------------------
(* Instances of SendPath for TLC.                                          *)
EXTENDS SendPath, TLC

CONSTANTS g1, g2, u1, u2, c1, call1, call2, call3, rec1, rec2

\* One send in one group.
OneSend == {[group |-> g1, sender |-> u1, cid |-> c1]}

OneTable == [g \in Group |-> 0]
=============================================================================
