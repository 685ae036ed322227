------------------------------ MODULE MCVendor ------------------------------
(***************************************************************************)
(* An instance of Vendor for TLC: a burst of two requests, then one every  *)
(* other tick.                                                             *)
(***************************************************************************)
EXTENDS Vendor, TLC

OneBucket == << [gap |-> 2, cap |-> 3] >>

Symmetry == Permutations(Worker)
=============================================================================
