---------------------------- MODULE MCIteration ----------------------------
(***************************************************************************)
(* Instances of Iteration for TLC: the stages that may go wrong in a run.  *)
(***************************************************************************)
EXTENDS Iteration

\* A critical stage and a paid one.
RecoveryFailures == {SEEDING, COLLECTING_TIPPED}

\* The same, one that only judges, and the last stage, whose end is also the end of a walk.
WalkFailures == {SEEDING, TRIAGING, COLLECTING_TIPPED, SCHEDULING}

OnlySeeding == {SEEDING}
=============================================================================
