------------------------------- MODULE MCBtree -------------------------------
(***************************************************************************)
(* Small trees: keys are numbers, a record is a key and a payload, and two *)
(* records share a key so that a collision can be told from a replacement. *)
(***************************************************************************)
EXTENDS Btree

CONSTANT N   \* bound: the keys are 1 .. N

MCKey == 1 .. N

MCRecord == (MCKey \X {"a"}) \cup {<<2, "b">>}

MCKeyOf(r) == r[1]

(* The comparison of a key type that orders all its keys. *)
MCCmp(j, k) == j - k
=============================================================================
