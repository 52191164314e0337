-------------------------- MODULE BackupController --------------------------
(***************************************************************************)
(* The reconciler of PerconaXtraDBClusterBackup objects                    *)
(* (src/pkg/controller/pxcbackup), the backup lease (src/pkg/k8s/lease.go) *)
(* and the deadlines.                                                      *)
(*                                                                         *)
(* Every backup has its own work queue key: reconciles of one backup are   *)
(* serialised, reconciles of different backups run concurrently            *)
(* (MAX_CONCURRENT_RECONCILES), and the finalizers of a deleted backup run *)
(* in a goroutine of their own.  A reconcile is split at every call to the *)
(* API server; pc[b] names the call the reconcile of b makes next.         *)
(***************************************************************************)
EXTENDS Naturals, FiniteSets

CONSTANTS
    Backups,            \* the backup objects of one cluster
    NoLease,            \* the lease object does not exist
    Workers,            \* capacity of the channel chLimit (S3_WORKERS_LIMIT)
    BackupIfUnhealthy,  \* cluster.Spec.Unsafe.BackupIfUnhealthy
    Deadlines,          \* the deadlines that are configured
    UserFinalizers,     \* the sets of finalizers a user may put on a backup
    OnVolume,           \* the backups whose storage is a volume (a PVC)
    Unhealthy,          \* how a cluster may be when it is not ready
    Events,             \* the environment events that happen
    MaxDisturbances     \* bound on the number of disturbances

EventKinds == {"crash", "read", "status", "release", "sideEffects", "finalizer",
               "delete", "toggle", "misconfigure", "staleCondition", "ttl"}

DeadlineKinds == {"starting", "running", "suspended"}

ASSUME BackupAssumption ==
    /\ NoLease \notin Backups
    /\ IsFiniteSet(Backups)
    /\ Workers \in Nat \ {0}
    /\ BackupIfUnhealthy \in BOOLEAN
    /\ Deadlines \subseteq DeadlineKinds
    /\ UserFinalizers \subseteq SUBSET {"delete-backup"}
    /\ OnVolume \subseteq Backups
    /\ Unhealthy \subseteq {"settling", "degraded", "down"}
    /\ Events \subseteq EventKinds
    /\ MaxDisturbances \in Nat

-----------------------------------------------------------------------------
(***************************************************************************)
(* Objects kept by the API server.                                         *)
(***************************************************************************)
VARIABLES
    life,        \* the backup object: absent, live, deleting, gone
    state,       \* its recorded .status.state
    finalizers,  \* its finalizers
    purged,      \* the backups whose PVC has been deleted
    job,         \* its Job object
    late,        \* the deadlines that have passed for it
    lease,       \* the holder of the cluster's backup lease
    cluster,     \* what a reconcile reads of the PerconaXtraDBCluster
    disturbances \* how many calls have failed, crashes and changes have happened

(***************************************************************************)
(* Memory of the operator.                                                 *)
(***************************************************************************)
VARIABLES
    pc,     \* the next API call of the reconcile of a backup
    mem,    \* cr.Status.State of the object the reconcile works on
    view,   \* the cluster object the reconcile works on
    gpc,    \* the next call of the finalizer goroutine of a backup
    gfin,   \* finalizers of the object the goroutine works on
    gkeep   \* finalizers the goroutine is going to keep

objVars == <<life, state, finalizers, purged, job, late, lease, cluster>>
apiVars == <<objVars, disturbances>>
opVars  == <<pc, mem, view, gpc, gfin, gkeep>>
vars    == <<life, state, finalizers, purged, job, late, lease, cluster,
             disturbances, pc, mem, view, gpc, gfin, gkeep>>

-----------------------------------------------------------------------------
States   == {"New", "Suspended", "Starting", "Running", "Failed", "Succeeded"}
Terminal == {"Failed", "Succeeded"}
Active   == {"Suspended", "Starting", "Running"}

Lives  == {"absent", "live", "deleting", "gone"}

\* Status.Status and Status.PXC of the cluster: Ready; not Ready with all PXC
\* nodes ready; not Ready with some of them ready; with none of them ready.
Healths == {"ready", "settling", "degraded", "down"}

DeleteBackup == "delete-backup"   \* percona.com/delete-backup
ReleaseLock  == "release-lock"    \* internal.percona.com/release-lock
FinalizerKinds == {DeleteBackup, ReleaseLock}

\* A Job: the progress of its pods, .spec.suspend, the Suspended condition,
\* the keep-job finalizer and whether it has a deletion timestamp.
JobPhases == {"none", "pending", "running", "complete", "failed"}
Jobs == [phase : JobPhases, suspend : BOOLEAN, suspended : BOOLEAN,
         keep : BOOLEAN, dying : BOOLEAN]

NoJob  == [phase |-> "none", suspend |-> FALSE, suspended |-> FALSE,
           keep |-> FALSE, dying |-> FALSE]
\* A mutant: a Job without the keep-job finalizer.
NewJobUnprotected == [phase |-> "pending", suspend |-> FALSE,
                      suspended |-> FALSE, keep |-> FALSE, dying |-> FALSE]

NewJob == [phase |-> "pending", suspend |-> FALSE, suspended |-> FALSE,
           keep |-> TRUE, dying |-> FALSE]

Exists(b)   == job[b].phase # "none"
Finished(b) == job[b].phase \in {"complete", "failed"}

Views  == [health : Healths, parallel : BOOLEAN]
NoView == [health |-> "ready", parallel |-> FALSE]

PCs == {"idle", "jobFinalizers", "cluster", "failEarly", "finalizers",
        "deadlines", "failDeadline", "failAndClean", "cleanFinalizer",
        "cleanDelete", "reconcileJob", "suspend", "suspendStatus", "resume",
        "resumeStatus", "acquireGet", "acquireCreate", "createJob",
        "failCreate", "jobStatus", "sideEffects", "writeStatus",
        "releaseGet", "releaseDelete"}
GPCs == {"idle", "deleteBackup", "lockGet", "lockDelete", "update"}

TypeOK ==
    /\ life \in [Backups -> Lives]
    /\ state \in [Backups -> States]
    /\ finalizers \in [Backups -> SUBSET FinalizerKinds]
    /\ purged \subseteq Backups
    /\ job \in [Backups -> Jobs]
    /\ late \in [Backups -> SUBSET DeadlineKinds]
    /\ lease \in Backups \cup {NoLease}
    /\ cluster \in [health : Healths, parallel : BOOLEAN, valid : BOOLEAN]
    /\ disturbances \in 0 .. MaxDisturbances
    /\ pc \in [Backups -> PCs]
    /\ mem \in [Backups -> States]
    /\ view \in [Backups -> Views]
    /\ gpc \in [Backups -> GPCs]
    /\ gfin \in [Backups -> SUBSET FinalizerKinds]
    /\ gkeep \in [Backups -> SUBSET FinalizerKinds]

Init ==
    /\ life = [b \in Backups |-> "absent"]
    /\ state = [b \in Backups |-> "New"]
    /\ finalizers = [b \in Backups |-> {}]
    /\ purged = {}
    /\ job = [b \in Backups |-> NoJob]
    /\ late = [b \in Backups |-> {}]
    /\ lease = NoLease
    /\ cluster = [health |-> "ready", parallel |-> FALSE, valid |-> TRUE]
    /\ disturbances = 0
    /\ pc = [b \in Backups |-> "idle"]
    /\ mem = [b \in Backups |-> "New"]
    /\ view = [b \in Backups |-> NoView]
    /\ gpc = [b \in Backups |-> "idle"]
    /\ gfin = [b \in Backups |-> {}]
    /\ gkeep = [b \in Backups |-> {}]

-----------------------------------------------------------------------------
(***************************************************************************)
(* The cluster object as a reconcile sees it.                              *)
(***************************************************************************)

\* cluster.CanBackup(): Ready, or some node ready and the unsafe flag set.
CanBackup(v) ==
    \/ v.health = "ready"
    \/ BackupIfUnhealthy /\ v.health # "down"

\* suspendJobIfNeeded: the conditions under which a Job gets suspended.  The
\* cluster is not Ready and PXC.Ready # PXC.Size; a failed Job is not skipped.
MustSuspend(b) ==
    /\ ~BackupIfUnhealthy
    /\ view[b].health \in {"degraded", "down"}
    /\ Exists(b)
    /\ ~job[b].suspended
    /\ job[b].phase # "complete"
    /\ ~job[b].suspend

\* resumeJobIfNeeded: the conditions under which a Job gets resumed.
MustResume(b) ==
    /\ view[b].health = "ready"
    /\ Exists(b)
    /\ job[b].suspend
    /\ job[b].suspended

\* getPXCBackupStateFromJob, with the check for running pods of
\* updateJobStatus: a Job with ready or failed pods is Running.
StateFromJob(j) ==
    CASE j.phase = "failed"   -> "Failed"
      [] j.phase = "complete" -> "Succeeded"
      [] j.phase = "running"  -> "Running"
      [] OTHER                -> "Starting"

\* runJobFinalizers: a Job that waits for its deletion disappears with its
\* last finalizer.
WithoutKeepJob(j) == IF j.dying THEN NoJob ELSE [j EXCEPT !.keep = FALSE]

\* The update of .spec.suspend by suspendJobIfNeeded and resumeJobIfNeeded.
Suspending(j) == [j EXCEPT !.suspend = TRUE]
Resuming(j)   == [j EXCEPT !.suspend = FALSE]

\* Deletion of a Job by the API server.
Deleted(j) == IF j.keep THEN [j EXCEPT !.dying = TRUE] ELSE NoJob

-----------------------------------------------------------------------------
(***************************************************************************)
(* Ends of a reconcile and writes of the status.                           *)
(***************************************************************************)
Goto(b, label) == pc' = [pc EXCEPT ![b] = label]

\* The reconcile returns and its local state is gone.
End(b) ==
    /\ Goto(b, "idle")
    /\ mem' = [mem EXCEPT ![b] = "New"]
    /\ view' = [view EXCEPT ![b] = NoView]

\* A mutant: the lock is released after a success only.
ReturnReleasingSuccess(b, s) ==
    IF ~view[b].parallel /\ s = "Succeeded"
    THEN /\ Goto(b, "releaseGet")
         /\ mem' = [mem EXCEPT ![b] = s]
         /\ UNCHANGED view
    ELSE End(b)

\* The reconcile returns with cr.Status.State = s after the deferred release
\* of the lock has been installed: the lock is released when s is terminal,
\* whatever has been written to the API server.
Return(b, s) ==
    IF ~view[b].parallel /\ s \in Terminal
    THEN /\ Goto(b, "releaseGet")
         /\ mem' = [mem EXCEPT ![b] = s]
         /\ UNCHANGED view
    ELSE End(b)

\* A call fails, the operator crashes or the cluster changes; or nothing of
\* that kind happens in the step.
Disturbance ==
    /\ disturbances < MaxDisturbances
    /\ disturbances' = disturbances + 1

Happens(kind) == kind \in Events /\ Disturbance

Calm == UNCHANGED disturbances

\* updateStatus: the recorded state is overwritten, or the write fails.
UpdateStatus(b, s) ==
    /\ life[b] # "gone"
    /\ state' = [state EXCEPT ![b] = s]
    /\ Calm

UpdateStatusFails(b) ==
    /\ Happens("status") \/ (life[b] = "gone" /\ Calm)
    /\ UNCHANGED state

crVars  == <<life, finalizers, purged>>
jobVars == <<job, late>>
envVars == <<cluster, disturbances>>
gVars   == <<gpc, gfin, gkeep>>

-----------------------------------------------------------------------------
(***************************************************************************)
(* Reconcile.                                                              *)
(***************************************************************************)

\* tryRunBackupFinalizers: one goroutine per backup, at most Workers of them.
TryRunBackupFinalizers(b) ==
    IF /\ life[b] = "deleting"
       /\ gpc[b] = "idle"
       /\ Cardinality({c \in Backups : gpc[c] # "idle"}) < Workers
    THEN /\ gpc' = [gpc EXCEPT ![b] = "deleteBackup"]
         /\ gfin' = [gfin EXCEPT ![b] = finalizers[b]]
         /\ gkeep' = [gkeep EXCEPT ![b] = {}]
    ELSE UNCHANGED gVars

\* A mutant: a finished backup is reconciled like any other.
GetIgnoringResult(b) ==
    /\ pc[b] = "idle"
    /\ life[b] \in {"live", "deleting"}
    /\ TryRunBackupFinalizers(b)
    /\ \/ life[b] = "deleting" /\ UNCHANGED <<pc, mem>>
       \/ /\ life[b] = "live"
          /\ Goto(b, "cluster")
          /\ mem' = [mem EXCEPT ![b] = state[b]]
    /\ UNCHANGED <<view, apiVars>>

\* Reconcile: read the backup, start its finalizers, stop when it is finished
\* or being deleted.
Get(b) ==
    /\ pc[b] = "idle"
    /\ life[b] \in {"live", "deleting"}
    /\ TryRunBackupFinalizers(b)
    /\ \/ /\ state[b] \in Terminal
          /\ Goto(b, "jobFinalizers")
          /\ UNCHANGED mem
       \/ /\ state[b] \notin Terminal
          /\ life[b] = "deleting"
          /\ UNCHANGED <<pc, mem>>
       \/ /\ state[b] \notin Terminal
          /\ life[b] = "live"
          /\ Goto(b, "cluster")
          /\ mem' = [mem EXCEPT ![b] = state[b]]
    /\ UNCHANGED <<view, apiVars>>

RunJobFinalizers(b) ==
    /\ pc[b] = "jobFinalizers"
    /\ job' = [job EXCEPT ![b] = IF Exists(b) THEN WithoutKeepJob(@) ELSE @]
    /\ End(b)
    /\ UNCHANGED <<crVars, state, late, lease, envVars, gVars>>

\* getCluster and the checks of the storage and of the options, which fail the
\* backup before the release of the lock is deferred.
GetCluster(b) ==
    /\ pc[b] = "cluster"
    /\ view' = [view EXCEPT ![b] = [health |-> cluster.health,
                                    parallel |-> cluster.parallel]]
    /\ Goto(b, IF cluster.valid THEN "finalizers" ELSE "failEarly")
    /\ UNCHANGED <<mem, apiVars, gVars>>

FailEarly(b) ==
    /\ pc[b] = "failEarly"
    /\ UpdateStatus(b, "Failed") \/ UpdateStatusFails(b)
    /\ End(b)
    /\ UNCHANGED <<crVars, jobVars, lease, cluster, gVars>>

\* A mutant: the finalizer is set on the object in memory only.
EnsureFinalizersInMemory(b) ==
    /\ pc[b] = "finalizers"
    /\ Goto(b, "deadlines")
    /\ UNCHANGED <<apiVars, mem, view, gVars>>

\* ensureFinalizers: the API server accepts no new finalizer for an object
\* that is being deleted.
EnsureFinalizers(b) ==
    /\ pc[b] = "finalizers"
    /\ IF view[b].parallel \/ ReleaseLock \in finalizers[b]
       THEN Goto(b, "deadlines") /\ UNCHANGED <<finalizers, mem, view>>
       ELSE IF life[b] = "live"
       THEN /\ finalizers' = [finalizers EXCEPT ![b] = @ \cup {ReleaseLock}]
            /\ Goto(b, "deadlines")
            /\ UNCHANGED <<mem, view>>
       ELSE End(b) /\ UNCHANGED finalizers
    /\ UNCHANGED <<life, purged, state, jobVars, lease, envVars, gVars>>

\* checkStartingDeadline, checkRunningDeadline and checkSuspendedDeadline.
StartingDeadlineExceeded(b) == mem[b] = "New" /\ "starting" \in late[b]

RunningDeadlineApplies(b) == mem[b] = "Starting" /\ "running" \in Deadlines

RunningDeadlineExceeded(b) ==
    RunningDeadlineApplies(b) /\ Exists(b) /\ "running" \in late[b]

SuspendedDeadlineExceeded(b) ==
    /\ Exists(b)
    /\ job[b].suspend
    /\ job[b].suspended
    /\ "suspended" \in late[b]

CheckDeadlines(b) ==
    /\ pc[b] = "deadlines"
    /\ \/ /\ StartingDeadlineExceeded(b)
          /\ Goto(b, "failDeadline")
          /\ UNCHANGED <<mem, view>>
       \/ /\ ~StartingDeadlineExceeded(b)
          /\ RunningDeadlineExceeded(b) \/ SuspendedDeadlineExceeded(b)
          /\ Goto(b, "failAndClean")
          /\ UNCHANGED <<mem, view>>
       \/ /\ RunningDeadlineApplies(b) /\ ~Exists(b)
          /\ Return(b, mem[b])
       \/ /\ ~StartingDeadlineExceeded(b)
          /\ ~RunningDeadlineExceeded(b)
          /\ ~SuspendedDeadlineExceeded(b)
          /\ ~(RunningDeadlineApplies(b) /\ ~Exists(b))
          /\ Goto(b, "reconcileJob")
          /\ UNCHANGED <<mem, view>>
    /\ UNCHANGED <<apiVars, gVars>>

\* The deadline branch of Reconcile: Failed is recorded first, and only then
\* is the Job of a running or suspended deadline deleted.
FailDeadline(b) ==
    /\ pc[b] \in {"failDeadline", "failAndClean"}
    /\ \/ /\ UpdateStatus(b, "Failed")
          /\ \/ /\ pc[b] = "failAndClean"
                /\ Goto(b, "cleanFinalizer")
                /\ mem' = [mem EXCEPT ![b] = "Failed"]
                /\ UNCHANGED view
             \/ /\ pc[b] = "failDeadline"
                /\ Return(b, "Failed")
       \/ /\ UpdateStatusFails(b)
          /\ Return(b, "Failed")
    /\ UNCHANGED <<crVars, jobVars, lease, cluster, gVars>>

\* cleanUpJob: runJobFinalizers, then the deletion.
CleanUpFinalizer(b) ==
    /\ pc[b] = "cleanFinalizer"
    /\ IF Exists(b)
       THEN /\ job' = [job EXCEPT ![b] = WithoutKeepJob(@)]
            /\ Goto(b, "cleanDelete")
            /\ UNCHANGED <<mem, view>>
       ELSE UNCHANGED job /\ Return(b, mem[b])
    /\ UNCHANGED <<crVars, state, late, lease, envVars, gVars>>

CleanUpDelete(b) ==
    /\ pc[b] = "cleanDelete"
    /\ job' = [job EXCEPT ![b] = IF Exists(b) THEN Deleted(@) ELSE @]
    /\ Return(b, mem[b])
    /\ UNCHANGED <<crVars, state, late, lease, envVars, gVars>>

\* What follows reconcileBackupJob: CanBackup, then the lock for a new backup.
AfterReconcileJob(b, s) ==
    IF CanBackup(view[b])
    THEN /\ Goto(b, IF s = "New" /\ ~view[b].parallel
                    THEN "acquireGet" ELSE "createJob")
         /\ mem' = [mem EXCEPT ![b] = s]
         /\ UNCHANGED view
    ELSE Return(b, s)

ReconcileBackupJob(b) ==
    /\ pc[b] = "reconcileJob"
    /\ \/ /\ MustSuspend(b)
          /\ Goto(b, "suspend")
          /\ UNCHANGED <<mem, view>>
       \/ /\ MustResume(b)
          /\ Goto(b, "resume")
          /\ UNCHANGED <<mem, view>>
       \/ /\ ~MustSuspend(b) /\ ~MustResume(b)
          /\ AfterReconcileJob(b, mem[b])
    /\ UNCHANGED <<apiVars, gVars>>

\* suspendJobIfNeeded: update of the Job, then of the status.
SuspendJob(b) ==
    /\ pc[b] = "suspend"
    /\ IF Exists(b)
       THEN /\ job' = [job EXCEPT ![b] = Suspending(@)]
            /\ Goto(b, "suspendStatus")
            /\ UNCHANGED <<mem, view>>
       ELSE UNCHANGED job /\ Return(b, mem[b])
    /\ UNCHANGED <<crVars, state, late, lease, envVars, gVars>>

SuspendStatus(b) ==
    /\ pc[b] = "suspendStatus"
    /\ \/ UpdateStatus(b, "Suspended") /\ AfterReconcileJob(b, "Suspended")
       \/ UpdateStatusFails(b) /\ Return(b, "Suspended")
    /\ UNCHANGED <<crVars, jobVars, lease, cluster, gVars>>

\* resumeJobIfNeeded: update of the Job, then of the status.
ResumeJob(b) ==
    /\ pc[b] = "resume"
    /\ IF Exists(b)
       THEN /\ job' = [job EXCEPT ![b] = Resuming(@)]
            /\ Goto(b, "resumeStatus")
            /\ UNCHANGED <<mem, view>>
       ELSE UNCHANGED job /\ Return(b, mem[b])
    /\ UNCHANGED <<crVars, state, late, lease, envVars, gVars>>

ResumeStatus(b) ==
    /\ pc[b] = "resumeStatus"
    /\ \/ UpdateStatus(b, "Starting") /\ AfterReconcileJob(b, "Starting")
       \/ UpdateStatusFails(b) /\ Return(b, "Starting")
    /\ UNCHANGED <<crVars, jobVars, lease, cluster, gVars>>

\* A mutant: the holder of the lease that was found is not compared.
AcquireLeaseGetAnyHolder(b) ==
    /\ pc[b] = "acquireGet"
    /\ Goto(b, IF lease = NoLease THEN "acquireCreate" ELSE "createJob")
    /\ UNCHANGED <<mem, view, apiVars, gVars>>

\* AcquireLease: Get, then Create when the lease does not exist; a concurrent
\* Create makes it fail with AlreadyExists.
AcquireLeaseGet(b) ==
    /\ pc[b] = "acquireGet"
    /\ \/ /\ lease = NoLease
          /\ Goto(b, "acquireCreate")
          /\ UNCHANGED <<mem, view>>
       \/ /\ lease = b
          /\ Goto(b, "createJob")
          /\ UNCHANGED <<mem, view>>
       \/ /\ lease \notin {NoLease, b}
          /\ Return(b, mem[b])
    /\ UNCHANGED <<apiVars, gVars>>

\* A mutant: AlreadyExists counts as success.
AcquireLeaseCreateOrExists(b) ==
    /\ pc[b] = "acquireCreate"
    /\ lease' = IF lease = NoLease THEN b ELSE lease
    /\ Goto(b, "createJob")
    /\ UNCHANGED <<mem, view, crVars, state, jobVars, envVars, gVars>>

AcquireLeaseCreate(b) ==
    /\ pc[b] = "acquireCreate"
    /\ IF lease = NoLease
       THEN /\ lease' = b
            /\ Goto(b, "createJob")
            /\ UNCHANGED <<mem, view>>
       ELSE UNCHANGED lease /\ Return(b, mem[b])
    /\ UNCHANGED <<crVars, state, jobVars, envVars, gVars>>

\* createBackupJob: Create, or the Job that already exists.  Any error on the
\* way fails the backup, also when the Job exists or its Create took effect.
JobCreated(b) ==
    IF Exists(b)
    THEN UNCHANGED jobVars
    ELSE /\ job' = [job EXCEPT ![b] = NewJob]
         /\ late' = [late EXCEPT ![b] = @ \ {"running", "suspended"}]

CreateBackupJob(b) ==
    /\ pc[b] = "createJob"
    /\ \/ JobCreated(b) /\ Goto(b, "jobStatus") /\ Calm
       \/ /\ Happens("read")
          /\ JobCreated(b) \/ UNCHANGED jobVars
          /\ Goto(b, "failCreate")
    /\ UNCHANGED <<crVars, state, lease, cluster, gVars, mem, view>>

FailCreate(b) ==
    /\ pc[b] = "failCreate"
    /\ UpdateStatus(b, "Failed") \/ UpdateStatusFails(b)
    /\ Return(b, "Failed")
    /\ UNCHANGED <<crVars, jobVars, lease, cluster, gVars>>

\* updateJobStatus: the state computed from the Job replaces the one in memory
\* before the side effects of a success and before the write.
UpdateJobStatus(b) ==
    /\ pc[b] = "jobStatus"
    /\ IF Exists(b) /\ StateFromJob(job[b]) # mem[b]
       THEN /\ mem' = [mem EXCEPT ![b] = StateFromJob(job[b])]
            /\ Goto(b, IF StateFromJob(job[b]) = "Succeeded"
                       THEN "sideEffects" ELSE "writeStatus")
            /\ UNCHANGED view
       ELSE Return(b, mem[b])
    /\ UNCHANGED <<apiVars, gVars>>

\* The files of the binlog collector and the mysql-init secret are removed;
\* any error returns before the status is written.
SideEffects(b) ==
    /\ pc[b] = "sideEffects"
    /\ \/ Goto(b, "writeStatus") /\ Calm /\ UNCHANGED <<mem, view>>
       \/ Happens("sideEffects") /\ Return(b, mem[b])
    /\ UNCHANGED <<objVars, gVars>>

WriteStatus(b) ==
    /\ pc[b] = "writeStatus"
    /\ UpdateStatus(b, mem[b]) \/ UpdateStatusFails(b)
    /\ Return(b, mem[b])
    /\ UNCHANGED <<crVars, jobVars, lease, cluster, gVars>>

\* ReleaseLease in the deferred function: Get, then a Delete by name without a
\* precondition.  An error is logged and dropped.
ReleaseLeaseGet(b) ==
    /\ pc[b] = "releaseGet"
    /\ \/ /\ lease = b
          /\ Goto(b, "releaseDelete")
          /\ Calm
          /\ UNCHANGED <<mem, view>>
       \/ /\ (lease # b /\ Calm) \/ Happens("release")
          /\ End(b)
    /\ UNCHANGED <<objVars, gVars>>

ReleaseLeaseDelete(b) ==
    /\ pc[b] = "releaseDelete"
    /\ \/ lease' = NoLease /\ Calm
       \/ Happens("release") /\ UNCHANGED lease
    /\ End(b)
    /\ UNCHANGED <<crVars, state, jobVars, cluster, gVars>>

\* A call fails at a point where Reconcile just returns the error.
APIError(b) ==
    /\ Happens("read")
    /\ \/ pc[b] \in {"jobFinalizers", "cluster", "finalizers"} /\ End(b)
       \/ /\ pc[b] \in {"deadlines", "cleanFinalizer", "cleanDelete",
                        "reconcileJob", "suspend", "resume", "acquireGet",
                        "acquireCreate", "jobStatus"}
          /\ Return(b, mem[b])
    /\ UNCHANGED <<objVars, gVars>>

Reconcile(b) ==
    \/ Get(b) \/ RunJobFinalizers(b) \/ GetCluster(b) \/ FailEarly(b)
    \/ EnsureFinalizers(b) \/ CheckDeadlines(b) \/ FailDeadline(b)
    \/ CleanUpFinalizer(b) \/ CleanUpDelete(b) \/ ReconcileBackupJob(b)
    \/ SuspendJob(b) \/ SuspendStatus(b) \/ ResumeJob(b) \/ ResumeStatus(b)
    \/ AcquireLeaseGet(b) \/ AcquireLeaseCreate(b) \/ CreateBackupJob(b)
    \/ FailCreate(b) \/ UpdateJobStatus(b) \/ SideEffects(b)
    \/ WriteStatus(b) \/ ReleaseLeaseGet(b) \/ ReleaseLeaseDelete(b)

-----------------------------------------------------------------------------
(***************************************************************************)
(* runBackupFinalizers, in its goroutine.                                  *)
(***************************************************************************)
Keep(b, f) == gkeep' = [gkeep EXCEPT ![b] = @ \cup {f}]

\* delete-backup: the finalizer is dropped when there is nothing to remove (no
\* destination is recorded) or the backup has been removed, and kept when the
\* removal fails.  A PVC that is not found any more is a failure
\* (deleteBackupPVC); objects that are gone are not.
FinalizeDeleteBackup(b) ==
    /\ gpc[b] = "deleteBackup"
    /\ gpc' = [gpc EXCEPT ![b] = "lockGet"]
    /\ \/ /\ \/ DeleteBackup \notin gfin[b]
             \/ state[b] \in {"New", "Failed"} /\ b \notin purged
          /\ Calm /\ UNCHANGED <<gkeep, purged>>
       \/ /\ DeleteBackup \in gfin[b] /\ state[b] # "New" /\ b \notin purged
          /\ purged' = purged \cup ({b} \cap OnVolume)
          /\ Calm /\ UNCHANGED gkeep
       \/ /\ DeleteBackup \in gfin[b] /\ state[b] # "New"
          /\ Happens("finalizer") \/ (b \in purged /\ Calm)
          /\ Keep(b, DeleteBackup)
          /\ UNCHANGED purged
    /\ UNCHANGED <<life, finalizers, state, jobVars, lease, cluster, pc, mem,
                   view, gfin>>

\* A mutant: another holder is an error.
FinalizeLockGetStrict(b) ==
    /\ gpc[b] = "lockGet"
    /\ \/ /\ ReleaseLock \in gfin[b] /\ lease = b
          /\ gpc' = [gpc EXCEPT ![b] = "lockDelete"]
          /\ UNCHANGED gkeep
       \/ /\ ReleaseLock \in gfin[b] /\ lease # b
          /\ gpc' = [gpc EXCEPT ![b] = "update"]
          /\ Keep(b, ReleaseLock)
       \/ /\ ReleaseLock \notin gfin[b]
          /\ gpc' = [gpc EXCEPT ![b] = "update"]
          /\ UNCHANGED gkeep
    /\ UNCHANGED <<apiVars, pc, mem, view, gfin>>

\* runReleaseLockFinalizer: a missing lease or another holder is no error.
FinalizeLockGet(b) ==
    /\ gpc[b] = "lockGet"
    /\ \/ /\ ReleaseLock \in gfin[b] /\ lease = b
          /\ gpc' = [gpc EXCEPT ![b] = "lockDelete"]
          /\ Calm
          /\ UNCHANGED gkeep
       \/ /\ ReleaseLock \notin gfin[b] \/ lease # b
          /\ gpc' = [gpc EXCEPT ![b] = "update"]
          /\ Calm
          /\ UNCHANGED gkeep
       \/ /\ Happens("release") /\ ReleaseLock \in gfin[b]
          /\ gpc' = [gpc EXCEPT ![b] = "update"]
          /\ Keep(b, ReleaseLock)
    /\ UNCHANGED <<objVars, pc, mem, view, gfin>>

FinalizeLockDelete(b) ==
    /\ gpc[b] = "lockDelete"
    /\ gpc' = [gpc EXCEPT ![b] = "update"]
    /\ \/ lease' = NoLease /\ Calm /\ UNCHANGED gkeep
       \/ Happens("release") /\ UNCHANGED lease /\ Keep(b, ReleaseLock)
    /\ UNCHANGED <<crVars, state, jobVars, cluster, pc, mem, view, gfin>>

\* Update of the object with the finalizers that are kept; without finalizers
\* the object disappears.  An error is logged, and the next reconcile starts
\* the finalizers again.
FinalizeUpdate(b) ==
    /\ gpc[b] = "update"
    /\ \/ /\ finalizers' = [finalizers EXCEPT ![b] = gkeep[b]]
          /\ life' = [life EXCEPT ![b] = IF gkeep[b] = {} THEN "gone" ELSE @]
          /\ Calm
       \/ Happens("finalizer") /\ UNCHANGED <<life, finalizers>>
    /\ gpc' = [gpc EXCEPT ![b] = "idle"]
    /\ gfin' = [gfin EXCEPT ![b] = {}]
    /\ gkeep' = [gkeep EXCEPT ![b] = {}]
    /\ UNCHANGED <<purged, state, jobVars, lease, cluster, pc, mem, view>>

RunBackupFinalizers(b) ==
    \/ FinalizeDeleteBackup(b) \/ FinalizeLockGet(b)
    \/ FinalizeLockDelete(b) \/ FinalizeUpdate(b)

-----------------------------------------------------------------------------
(***************************************************************************)
(* The environment: users, time, the cluster, Jobs and the garbage         *)
(* collector of Kubernetes, crashes of the operator.                       *)
(***************************************************************************)
CreateBackup(b) ==
    /\ life[b] = "absent"
    /\ life' = [life EXCEPT ![b] = "live"]
    /\ \E f \in UserFinalizers :
           finalizers' = [finalizers EXCEPT ![b] = f]
    /\ UNCHANGED <<purged, state, jobVars, lease, envVars, opVars>>

RemoveBackup(b) ==
    /\ "delete" \in Events
    /\ life[b] = "live"
    /\ life' = [life EXCEPT ![b] = IF finalizers[b] = {} THEN "gone"
                                   ELSE "deleting"]
    /\ UNCHANGED <<finalizers, purged, state, jobVars, lease, envVars, opVars>>

\* The time of a configured deadline passes: since the creation of the backup,
\* since the creation of the Job, since the Job has been suspended.
DeadlinePasses(b, d) ==
    /\ life[b] = "live"
    /\ d \in Deadlines \ late[b]
    /\ d = "running" => Exists(b)
    /\ d = "suspended" => job[b].suspended
    /\ late' = [late EXCEPT ![b] = @ \cup {d}]
    /\ UNCHANGED <<crVars, state, job, lease, envVars, opVars>>

LoseReadiness ==
    /\ Disturbance
    /\ \E h \in Unhealthy \ {cluster.health} :
           cluster' = [cluster EXCEPT !.health = h]
    /\ UNCHANGED <<crVars, state, jobVars, lease, opVars>>

BecomeReady ==
    /\ cluster.health # "ready"
    /\ cluster' = [cluster EXCEPT !.health = "ready"]
    /\ UNCHANGED <<crVars, state, jobVars, lease, disturbances, opVars>>

EditCluster ==
    /\ \/ /\ Happens("toggle")
          /\ cluster' = [cluster EXCEPT !.parallel = ~@]
       \/ /\ Happens("misconfigure")
          /\ cluster' = [cluster EXCEPT !.valid = ~@]
    /\ UNCHANGED <<crVars, state, jobVars, lease, opVars>>

InPhase(j, p) == [j EXCEPT !.phase = p]

\* A suspended Job loses its pods.
ObservedSuspend(j) ==
    [j EXCEPT !.suspended = j.suspend,
              !.phase = IF j.suspend THEN "pending" ELSE @]

\* The Job controller: pods start, unless suspended; some versions leave the
\* Suspended condition of a resumed Job in place.
JobStarts(b) ==
    /\ job[b].phase = "pending"
    /\ ~job[b].suspend /\ ~job[b].dying
    /\ ~job[b].suspended \/ "staleCondition" \in Events
    /\ job' = [job EXCEPT ![b] = InPhase(@, "running")]
    /\ UNCHANGED <<crVars, state, late, lease, envVars, opVars>>

JobFinishes(b) ==
    /\ job[b].phase = "running"
    /\ \E p \in {"complete", "failed"} :
           job' = [job EXCEPT ![b] = InPhase(@, p)]
    /\ UNCHANGED <<crVars, state, late, lease, envVars, opVars>>

JobObservesSuspend(b) ==
    /\ job[b].phase \in {"pending", "running"}
    /\ job[b].suspend # job[b].suspended
    /\ job' = [job EXCEPT ![b] = ObservedSuspend(@)]
    /\ late' = [late EXCEPT ![b] = @ \ {"suspended"}]
    /\ UNCHANGED <<crVars, state, lease, envVars, opVars>>

\* ttlSecondsAfterFinished.
JobExpires(b) ==
    /\ "ttl" \in Events
    /\ Finished(b)
    /\ job' = [job EXCEPT ![b] = Deleted(@)]
    /\ UNCHANGED <<crVars, state, late, lease, envVars, opVars>>

\* Garbage collection of the dependents of an object that is gone.
CollectJob(b) ==
    /\ life[b] = "gone" /\ Exists(b)
    /\ job' = [job EXCEPT ![b] = Deleted(@)]
    /\ UNCHANGED <<crVars, state, late, lease, envVars, opVars>>

\* The operator restarts; its memory is lost.
Crash ==
    /\ Happens("crash")
    /\ pc' = [b \in Backups |-> "idle"]
    /\ mem' = [b \in Backups |-> "New"]
    /\ view' = [b \in Backups |-> NoView]
    /\ gpc' = [b \in Backups |-> "idle"]
    /\ gfin' = [b \in Backups |-> {}]
    /\ gkeep' = [b \in Backups |-> {}]
    /\ UNCHANGED objVars

JobController(b) == JobStarts(b) \/ JobFinishes(b) \/ JobObservesSuspend(b)

Next ==
    \/ \E b \in Backups :
           \/ Reconcile(b) \/ APIError(b) \/ RunBackupFinalizers(b)
           \/ CreateBackup(b) \/ RemoveBackup(b)
           \/ \E d \in DeadlineKinds : DeadlinePasses(b, d)
           \/ JobController(b) \/ JobExpires(b) \/ CollectJob(b)
    \/ LoseReadiness \/ BecomeReady \/ EditCluster \/ Crash

Spec == Init /\ [][Next]_vars

\* The work queue delivers every backup again (RequeueAfter and retries after
\* an error), goroutines run, Jobs get on, a cluster becomes ready again.
Fairness ==
    /\ \A b \in Backups :
           /\ WF_vars(Reconcile(b))
           /\ WF_vars(RunBackupFinalizers(b))
           /\ WF_vars(JobStarts(b)) /\ WF_vars(JobFinishes(b))
           /\ WF_vars(JobObservesSuspend(b)) /\ WF_vars(CollectJob(b))
    /\ WF_vars(BecomeReady)

FairSpec == Spec /\ Fairness

-----------------------------------------------------------------------------
(***************************************************************************)
(* Properties of the lease.                                                *)
(***************************************************************************)

\* The lease disappears only by a release of its own holder: ReleaseLease
\* deletes by name, long after it has compared the holder, and neither another
\* reconcile nor a finalizer goroutine may have replaced the lease in between.
OnlyHolderReleases ==
    [][lease # NoLease /\ lease' # lease =>
           /\ lease' = NoLease
           /\ pc[lease] = "releaseDelete" \/ gpc[lease] = "lockDelete"]_vars

\* A held lease can always be given back: its holder still exists and carries
\* the release-lock finalizer, so that deleting the backup frees the cluster
\* even after a crash, a failed release or a change of allowParallel.
LeaseHolderAccountable ==
    lease # NoLease =>
        /\ life[lease] \in {"live", "deleting"}
        /\ ReleaseLock \in finalizers[lease]

(***************************************************************************)
(* The inductive invariant behind the two properties above.                *)
(***************************************************************************)

\* Where a reconcile is between ensureFinalizers and the lease.
BeforeLease == {"deadlines", "reconcileJob", "suspend", "suspendStatus",
                "resume", "resumeStatus", "acquireGet", "acquireCreate"}

CanBeReleased(b) ==
    life[b] \in {"live", "deleting"} /\ ReleaseLock \in finalizers[b]

\* Only an object that exists has finalizers.
FinalizersOfObjects ==
    \A b \in Backups : finalizers[b] # {} => life[b] \in {"live", "deleting"}

\* A reconcile on its way to the lease has secured the finalizer first.
FinalizerBeforeLease ==
    \A b \in Backups :
        /\ pc[b] \in BeforeLease /\ ~view[b].parallel => CanBeReleased(b)
        /\ pc[b] \in {"acquireGet", "acquireCreate"} => ~view[b].parallel

\* A finalizer goroutine works on the finalizers as they are, and no reconcile
\* of its backup gets past the check of the deletion timestamp.
GoroutineIsAlone ==
    \A b \in Backups :
        gpc[b] # "idle" =>
            /\ life[b] = "deleting"
            /\ pc[b] \in {"idle", "jobFinalizers"}
            /\ gfin[b] = finalizers[b]

\* Who is about to delete the lease still holds it; a goroutine that has left
\* the lease behind keeps the finalizer if its backup is still the holder.
DeleterHolds ==
    \A b \in Backups :
        /\ pc[b] = "releaseDelete" => lease = b
        /\ gpc[b] = "lockDelete" => lease = b
        /\ gpc[b] = "update" /\ lease = b => ReleaseLock \in gkeep[b]

LeaseInv ==
    /\ LeaseHolderAccountable
    /\ FinalizersOfObjects
    /\ FinalizerBeforeLease
    /\ GoroutineIsAlone
    /\ DeleterHolds

(***************************************************************************)
(* Properties of the Jobs and of the recorded state.                       *)
(***************************************************************************)

\* A recorded result is final: no late reconcile overwrites it.
ResultIsFinal ==
    [][\A b \in Backups : state[b] \in Terminal => state'[b] = state[b]]_vars

\* A Job disappears only after the result of its backup has been recorded (or
\* with its backup): otherwise the next reconcile would run the backup again.
JobOutlivesItsResult ==
    [][\A b \in Backups :
           Exists(b) /\ ~Exists(b)' =>
               state[b] \in Terminal \/ life[b] = "gone"]_vars

\* Two backups never have unfinished Jobs at the same time, as long as neither
\* is being deleted (a deleted backup gives the lease back at once).
JobsDoNotOverlap ==
    \A a, b \in Backups :
        /\ life[a] = "live" /\ Exists(a) /\ ~Finished(a)
        /\ life[b] = "live" /\ Exists(b) /\ ~Finished(b)
        => a = b

\* Every backup gets its turn and ends, whatever others wait for the lease and
\* however it is suspended and resumed, unless it is deleted.
EveryBackupEnds ==
    \A b \in Backups :
        life[b] = "live" ~> state[b] \in Terminal \/ life[b] # "live"

\* The PVC of a deleted backup is gone and the write that drops its finalizer
\* has not been made: no later attempt gets past the missing PVC.
Stuck(b) ==
    /\ life[b] = "deleting" /\ gpc[b] = "idle"
    /\ b \in purged /\ DeleteBackup \in finalizers[b]

\* A deleted backup goes away, also when all finalizer workers are busy and when
\* a removal or a write of the finalizers fails.  The exception is a backup on a
\* volume for which that write fails after the removal: it stays, and tries again
\* for ever, so that others may find the workers busy each time they ask.
DeletionCompletes ==
    \A b \in Backups :
        life[b] = "deleting" ~> life[b] = "gone" \/ \E c \in Backups : Stuck(c)

(***************************************************************************)
(* What a test of the repository says, and the code does not keep.         *)
(***************************************************************************)

\* The test of allowParallel compares the creation of a Job with the end of
\* the Job of the failed backup before it.
NextJobAfterPreviousFailed == JobsDoNotOverlap
=============================================================================
