----------------------------- MODULE MCTraverse -----------------------------
(***************************************************************************)
(* Scans of trees of up to three levels while they grow, at any time       *)
(* between two insertions.                                                 *)
(***************************************************************************)
EXTENDS MCBtree, BtreeTraverse
=============================================================================
