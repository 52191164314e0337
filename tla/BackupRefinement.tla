-------------------------- MODULE BackupRefinement --------------------------
(***************************************************************************)
(* BackupController implements BackupQueue: the lease is the turn, and the *)
(* recorded state and the deletion of a backup are its phase.  It does so  *)
(* as long as status writes and the side effects of a success do not fail  *)
(* and allowParallel is not edited: see README.md for what happens then.   *)
(***************************************************************************)
EXTENDS BackupController

PhaseOfState ==
    [New |-> "waiting", Suspended |-> "active", Starting |-> "active",
     Running |-> "active", Failed |-> "failed", Succeeded |-> "succeeded"]

queuePhase ==
    [b \in Backups |->
        IF life[b] \in {"deleting", "gone"} THEN "withdrawn"
        ELSE PhaseOfState[state[b]]]

Queue == INSTANCE BackupQueue
         WITH Nobody <- NoLease, phase <- queuePhase, turn <- lease

\* With allowParallel=false the operator runs backups one after the other, as
\* BackupQueue says.
ImplementsBackupQueue == Queue!Spec
=============================================================================
