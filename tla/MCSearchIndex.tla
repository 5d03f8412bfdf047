---------------------------- MODULE MCSearchIndex ---------------------------
(* Instance of SearchIndex for TLC.                                        *)
EXTENDS SearchIndex
=============================================================================
