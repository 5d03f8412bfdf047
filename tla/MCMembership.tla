---------------------------- MODULE MCMembership ----------------------------
(* Instance of Membership for TLC.                                         *)
EXTENDS Membership, TLC

CONSTANTS owner, u1, u2, u3, p1, p2

\* Requests are interchangeable, and so are the users but the owner.
Symmetry == Permutations(Process) \union Permutations(User \ {Owner})
=============================================================================
