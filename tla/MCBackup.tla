------------------------------ MODULE MCBackup ------------------------------
(* Symmetry of the runs, contents and tables of RunPipeline and Backup. *)
EXTENDS Backup, TLC

BackupSymmetry ==
  Permutations(Runs) \cup Permutations(Hashes) \cup Permutations(Tables)
=============================================================================
