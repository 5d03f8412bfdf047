--------------------------- MODULE MCOutboxRelay ---------------------------
(* Instances of OutboxRelay for TLC.                                       *)
EXTENDS OutboxRelay, TLC

CONSTANTS g1, g2, relay1, relay2

\* API processes are interchangeable, and so are groups.
Symmetry == Permutations(Relay) \union Permutations(Group)
=============================================================================
