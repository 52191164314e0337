------------------------ MODULE MCRestoreController ------------------------
(***************************************************************************)
(* Instances of RestoreController for TLC.  With Faults the operator       *)
(* crashes, calls fail and waits run out; with Turns several restores are  *)
(* created, some of them invalid, and Jobs fail: there every restore must  *)
(* end.                                                                    *)
(***************************************************************************)
EXTENDS RestoreController

Faults == {"crash", "error", "status", "wait"}
Turns  == {"overlap", "invalid", "jobError"}

MCEventSets == {Faults, Turns}
=============================================================================
