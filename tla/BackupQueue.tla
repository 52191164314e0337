---------------------------- MODULE BackupQueue ----------------------------
(***************************************************************************)
(* What spec.backup.allowParallel=false promises, without leases, Jobs or  *)
(* reconciles: backups of a cluster run one after the other.  A backup     *)
(* runs, and succeeds, only in its turn, and the turn passes on only when  *)
(* the backup has ended or has been withdrawn (its object is deleted).     *)
(***************************************************************************)
CONSTANTS Backups, Nobody

VARIABLES
    phase,   \* how far every backup is
    turn     \* the backup whose turn it is

vars == <<phase, turn>>

Phases == {"waiting", "active", "failed", "succeeded", "withdrawn"}
Ended  == {"failed", "succeeded", "withdrawn"}

TypeOK ==
    /\ phase \in [Backups -> Phases]
    /\ turn \in Backups \cup {Nobody}

Init ==
    /\ phase = [b \in Backups |-> "waiting"]
    /\ turn = Nobody

\* A withdrawn backup may still be handed the turn by an operation under way.
Take(b) ==
    /\ turn = Nobody
    /\ phase[b] \in {"waiting", "withdrawn"}
    /\ turn' = b
    /\ UNCHANGED phase

Begin(b) ==
    /\ turn = b
    /\ phase[b] = "waiting"
    /\ phase' = [phase EXCEPT ![b] = "active"]
    /\ UNCHANGED turn

Succeed(b) ==
    /\ turn = b
    /\ phase[b] \in {"waiting", "active"}
    /\ phase' = [phase EXCEPT ![b] = "succeeded"]
    /\ UNCHANGED turn

Fail(b) ==
    /\ phase[b] \in {"waiting", "active"}
    /\ phase' = [phase EXCEPT ![b] = "failed"]
    /\ UNCHANGED turn

Withdraw(b) ==
    /\ phase' = [phase EXCEPT ![b] = "withdrawn"]
    /\ UNCHANGED turn

PassOn(b) ==
    /\ turn = b
    /\ phase[b] \in Ended
    /\ turn' = Nobody
    /\ UNCHANGED phase

Next == \E b \in Backups : Take(b) \/ Begin(b) \/ Succeed(b) \/ Fail(b)
                           \/ Withdraw(b) \/ PassOn(b)

Spec == Init /\ [][Next]_vars
=============================================================================
