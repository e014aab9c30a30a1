---------------------------- MODULE OptimalOrder ----------------------------
(***************************************************************************)
(* How large a node is and how many children it has: mdbAllocateNode and   *)
(* mdbBtreeOptimalOrder (mastersdb/mdb/mdbbtree.c), BT_CALC_NODESIZE       *)
(* (mdbbtree_util.h).  Sizes are in bytes.  No sum comes near 2^32, and    *)
(* the one product that wraps around, of a node too small for any record,  *)
(* is cast back to int.                                                    *)
(***************************************************************************)
EXTENDS Integers, FiniteSetsExt

KB == 1024

LOWER_NS == KB

UPPER_NS == 1024 * KB

(* Mutant: a child for each record. *)
NodeSizeChildLess(order, record_size) ==
  (2 * order + 1) * 4 + (2 * order - 1) * record_size

(* The counter, the leaf flag, 2T children and 2T - 1 records. *)
NodeSize(order, record_size) ==
  2 * (order + 1) * 4 + (2 * order - 1) * record_size

(* The order of the largest node that fits into an ideal one. *)
LargestOrder(ideal_ns, record_size) ==
  (ideal_ns + record_size - 8) \div ((record_size + 4) * 2)

Difference(ideal_ns, record_size) ==
  ideal_ns - NodeSize(LargestOrder(ideal_ns, record_size), record_size)

(* The ideal sizes the loop goes through without `continue'. *)
IdealSizes(record_size) ==
  {k * KB : k \in LOWER_NS \div KB .. UPPER_NS \div KB} \ 0 .. record_size - 1

(* Mutant: the first of the ideal sizes with the least difference wins. *)
FirstFit(record_size) ==
  LET sizes == IdealSizes(record_size)
      least == Min({Difference(n, record_size) : n \in sizes})
  IN  LargestOrder(
        Min({n \in sizes : Difference(n, record_size) = least}), record_size)

(* The last of the ideal sizes with the least difference wins.  (Of records
   up to 1 MB; for larger ones the loop body never runs and the order is 0.) *)
mdbBtreeOptimalOrder(record_size) ==
  LET sizes == IdealSizes(record_size)
      least == Min({Difference(n, record_size) : n \in sizes})
  IN  LargestOrder(
        Max({n \in sizes : Difference(n, record_size) = least}), record_size)

-----------------------------------------------------------------------------
(* What a node of this order leaves free of its last kilobyte. *)
Waste(order, record_size) == (-NodeSize(order, record_size)) % KB

(* With this order a tree grows and shrinks as a B-tree does, its nodes have
   at most 1 MB, and no other order wastes less of the file, nor a larger one
   as little. *)
IsOptimal(order, record_size) ==
  /\ order >= 2
  /\ NodeSize(order, record_size) <= UPPER_NS
  /\ \A o \in 1 .. LargestOrder(UPPER_NS, record_size) :
       \/ Waste(order, record_size) < Waste(o, record_size)
       \/ Waste(order, record_size) = Waste(o, record_size) /\ o <= order
=============================================================================
