--------------------------- MODULE MCPagingWalks ----------------------------
(* Instances of PagingWalks for TLC.                                       *)
EXTENDS PagingWalks
=============================================================================
