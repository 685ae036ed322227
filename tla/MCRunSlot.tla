----------------------------- MODULE MCRunSlot -----------------------------
(***************************************************************************)
(* Instances of RunSlot for TLC.                                           *)
(***************************************************************************)
EXTENDS RunSlot, TLC

CONSTANTS p1, p2

OneHost == [p \in Proc |-> "alpha"]
TwoHosts == (p1 :> "alpha") @@ (p2 :> "beta")

Symmetry == Permutations(Proc)
=============================================================================
