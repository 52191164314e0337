------------------------- MODULE MCBackupController -------------------------
(***************************************************************************)
(* Instances of BackupController for TLC.                                  *)
(***************************************************************************)
EXTENDS BackupRefinement, TLC

BackupSymmetry == Permutations(Backups)
=============================================================================
