---------------------------- MODULE MCKeyCompare ----------------------------
(***************************************************************************)
(* B-trees over the keys of real data types: a record is its key.          *)
(***************************************************************************)
EXTENDS Btree, KeyCompare

KeyIsRecord(r) == r

(* INT-16, stored little-endian: 0, 1, 255, 256, 258, 511 and 512. *)
Int16(x) == <<x % 256, x \div 256>>

Int16Keys == {Int16(x) : x \in {0, 1, 255, 256, 258, 511, 512}}

Int16Cmp(k1, k2) == mdbBtreeCmp("INT-16", k1, k2)
=============================================================================
