---------------------------- MODULE MCSendGuard ----------------------------
(* Instances of SendGuard for TLC.                                         *)
EXTENDS SendGuard, TLC

CONSTANTS call1, call2, op1, op2

\* Goroutines are interchangeable.
Symmetry == Permutations(Caller) \union Permutations(Operator)
=============================================================================
