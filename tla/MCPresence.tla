----------------------------- MODULE MCPresence -----------------------------
(* Instance of Presence for TLC.                                           *)
EXTENDS Presence, TLC

CONSTANTS c1, c2, u1, s1

\* A user twice on one node, which may be lost between his connections.
MCUserOf == c1 :> u1 @@ c2 :> u1
MCServerOf == c1 :> s1 @@ c2 :> s1
=============================================================================
