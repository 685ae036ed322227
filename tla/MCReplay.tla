------------------------------ MODULE MCReplay ------------------------------
(* Two handlers, two keys and every kind of request.                       *)
EXTENDS Replay, TLC

CONSTANTS h1, h2

Kinds == [b \in {"manual", "auto", "wait", "retriage"} |-> b]
Symmetry == Permutations({h1, h2})
=============================================================================
