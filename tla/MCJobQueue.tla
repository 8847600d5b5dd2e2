----------------------------- MODULE MCJobQueue -----------------------------
(* The symmetry of JobQueue's safety run. *)
EXTENDS JobQueue, TLC

JobSymmetry == Permutations(Jobs)
=============================================================================
