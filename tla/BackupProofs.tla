---------------------------- MODULE BackupProofs ----------------------------
(***************************************************************************)
(* The backup lease, for any number of backups, any set of environment     *)
(* events and any configuration of the deadlines; and that it keeps the    *)
(* backups of a cluster apart, for any number of backups, crashes,         *)
(* deletions and failing writes of the status.                             *)
(***************************************************************************)
EXTENDS BackupRefinement, TLAPS

(***************************************************************************)
(* Type correctness.                                                       *)
(***************************************************************************)

\* The two ways in which a reconcile returns keep the types of its locals.
LEMMA ReturnType ==
    ASSUME TypeOK, NEW b \in Backups, NEW s \in States,
           End(b) \/ Return(b, s)
    PROVE  /\ pc' \in [Backups -> PCs]
           /\ mem' \in [Backups -> States]
           /\ view' \in [Backups -> Views]
<1>1. CASE End(b)
  BY Zenon, <1>1 DEF End, Goto, TypeOK, PCs, States, Views, NoView, Healths
<1>2. CASE Return(b, s)
  <2>1. CASE ~view[b].parallel /\ s \in Terminal
    BY <1>2, <2>1 DEF Return, Goto, TypeOK, PCs
  <2>2. CASE ~(~view[b].parallel /\ s \in Terminal)
    BY Zenon, <1>2, <2>2, <1>1 DEF Return, End, Goto, TypeOK, PCs, States,
         Views,
                            NoView, Healths
  <2> QED BY Zenon, <2>1, <2>2
<1> QED BY Zenon, <1>1, <1>2

\* The operations on Jobs return Jobs.
LEMMA JobsType ==
    ASSUME NEW j \in Jobs
    PROVE  /\ WithoutKeepJob(j) \in Jobs
           /\ Deleted(j) \in Jobs
           /\ Suspending(j) \in Jobs /\ Resuming(j) \in Jobs
           /\ \A p \in JobPhases : InPhase(j, p) \in Jobs
           /\ ObservedSuspend(j) \in Jobs
           /\ NoJob \in Jobs /\ NewJob \in Jobs
<1>1. NoJob \in Jobs /\ NewJob \in Jobs
  BY Zenon DEF Jobs, NoJob, NewJob, JobPhases
<1>2. WithoutKeepJob(j) \in Jobs
  BY Zenon, <1>1 DEF Jobs, WithoutKeepJob
<1>3. Deleted(j) \in Jobs
  BY Zenon, <1>1 DEF Jobs, Deleted
<1>4. Suspending(j) \in Jobs /\ Resuming(j) \in Jobs
  BY Zenon DEF Jobs, Suspending, Resuming
<1>5. \A p \in JobPhases : InPhase(j, p) \in Jobs
  BY Zenon DEF Jobs, InPhase
<1>6. ObservedSuspend(j) \in Jobs
  BY Zenon DEF Jobs, ObservedSuspend, JobPhases
<1> QED BY Zenon, <1>1, <1>2, <1>3, <1>4, <1>5, <1>6

\* The lease without a holder is not mistaken for one that a backup holds.
LEMMA NoLeaseIsNoBackup == NoLease \notin Backups
BY Zenon, BackupAssumption

\* The count of the disturbances stays within its bound.
LEMMA DisturbancesBounded ==
    ASSUME TypeOK, Calm \/ Disturbance
    PROVE  disturbances' \in 0 .. MaxDisturbances
BY BackupAssumption DEF TypeOK, Calm, Disturbance

\* A reconcile step keeps the types.
LEMMA ReconcileType ==
    ASSUME TypeOK, NEW b \in Backups, Reconcile(b) \/ APIError(b)
    PROVE  TypeOK'
<1> USE DEF crVars, jobVars, envVars, gVars, objVars, apiVars
<1>a. /\ job[b] \in Jobs
      /\ WithoutKeepJob(job[b]) \in Jobs
      /\ Deleted(job[b]) \in Jobs
      /\ Suspending(job[b]) \in Jobs
      /\ Resuming(job[b]) \in Jobs
      /\ NewJob \in Jobs
  <2>1. job[b] \in Jobs
    BY Zenon DEF TypeOK
  <2> QED BY Zenon, <2>1, JobsType
<1>b. mem[b] \in States /\ StateFromJob(job[b]) \in States
  BY Zenon DEF TypeOK, StateFromJob, States
<1>c. disturbances' \in 0 .. MaxDisturbances
  <2>1. Calm \/ Disturbance
    BY Zenon DEF Reconcile, Get, RunJobFinalizers, GetCluster, FailEarly,
           EnsureFinalizers, CheckDeadlines, FailDeadline, CleanUpFinalizer,
           CleanUpDelete, ReconcileBackupJob, SuspendJob, SuspendStatus,
           ResumeJob, ResumeStatus, AcquireLeaseGet, AcquireLeaseCreate,
           CreateBackupJob, FailCreate, UpdateJobStatus, SideEffects,
           WriteStatus, ReleaseLeaseGet, ReleaseLeaseDelete, APIError,
           UpdateStatus, UpdateStatusFails, Happens, Calm
  <2> QED BY Zenon, <2>1, DisturbancesBounded
<1> USE <1>c
<1>1. CASE Get(b)
  <2>1. gpc' \in [Backups -> GPCs] /\ gfin' \in [Backups -> SUBSET FinalizerKinds]
        /\ gkeep' \in [Backups -> SUBSET FinalizerKinds]
    BY <1>1 DEF Get, TryRunBackupFinalizers, TypeOK, GPCs
  <2>2. pc' \in [Backups -> PCs] /\ mem' \in [Backups -> States]
    BY <1>1 DEF Get, Goto, TypeOK, PCs
  <2> QED BY Zenon, <1>1, <2>1, <2>2 DEF Get, TypeOK
<1>2. CASE RunJobFinalizers(b)
  BY Zenon, <1>2, <1>a, ReturnType DEF RunJobFinalizers, TypeOK
<1>3. CASE GetCluster(b)
  <2>1. pc' \in [Backups -> PCs]
    BY Zenon, <1>3 DEF GetCluster, Goto, TypeOK, PCs
  <2>2. view' \in [Backups -> Views]
    BY Zenon, <1>3 DEF GetCluster, TypeOK, Views
  <2> QED BY Zenon, <1>3, <2>1, <2>2 DEF GetCluster, TypeOK
<1>4. CASE FailEarly(b)
  BY Zenon, <1>4, ReturnType DEF FailEarly, UpdateStatus, UpdateStatusFails,
       TypeOK, States
<1>5. CASE EnsureFinalizers(b)
  BY <1>5, ReturnType DEF EnsureFinalizers, Goto, TypeOK, PCs, FinalizerKinds
<1>6. CASE CheckDeadlines(b)
  BY <1>6, <1>b, ReturnType DEF CheckDeadlines, Goto, TypeOK, PCs
<1>7. CASE FailDeadline(b)
  <2>1. "Failed" \in States
    BY Zenon DEF States
  <2> QED BY <1>7, <2>1, ReturnType
          DEF FailDeadline, UpdateStatus, UpdateStatusFails, Goto, TypeOK, PCs
<1>8. CASE CleanUpFinalizer(b)
  BY <1>8, <1>a, <1>b, ReturnType DEF CleanUpFinalizer, Goto, TypeOK, PCs
<1>9. CASE CleanUpDelete(b)
  BY Zenon, <1>9, <1>a, <1>b, ReturnType DEF CleanUpDelete, TypeOK
<1>10. ASSUME NEW s \in States, AfterReconcileJob(b, s)
       PROVE  /\ pc' \in [Backups -> PCs]
              /\ mem' \in [Backups -> States]
              /\ view' \in [Backups -> Views]
  BY <1>10, ReturnType DEF AfterReconcileJob, Goto, TypeOK, PCs
<1>11. CASE ReconcileBackupJob(b)
  BY Zenon, <1>11, <1>10, <1>b DEF ReconcileBackupJob, Goto, TypeOK, PCs
<1>12. CASE SuspendJob(b)
  BY <1>12, <1>a, <1>b, ReturnType DEF SuspendJob, Goto, TypeOK, PCs
<1>13. CASE SuspendStatus(b)
  <2>1. "Suspended" \in States
    BY Zenon DEF States
  <2> QED BY <1>13, <1>10, <2>1, ReturnType
          DEF SuspendStatus, UpdateStatus, UpdateStatusFails, TypeOK
<1>14. CASE ResumeJob(b)
  BY <1>14, <1>a, <1>b, ReturnType DEF ResumeJob, Goto, TypeOK, PCs
<1>15. CASE ResumeStatus(b)
  <2>1. "Starting" \in States
    BY Zenon DEF States
  <2> QED BY <1>15, <1>10, <2>1, ReturnType
          DEF ResumeStatus, UpdateStatus, UpdateStatusFails, TypeOK
<1>16. CASE AcquireLeaseGet(b)
  BY Zenon, <1>16, <1>b, ReturnType DEF AcquireLeaseGet, Goto, TypeOK, PCs
<1>17. CASE AcquireLeaseCreate(b)
  BY Zenon, <1>17, <1>b, ReturnType DEF AcquireLeaseCreate, Goto, TypeOK, PCs
<1>18. CASE CreateBackupJob(b)
  <2>1. job' \in [Backups -> Jobs] /\ late' \in [Backups -> SUBSET DeadlineKinds]
    BY <1>18, <1>a DEF CreateBackupJob, JobCreated, TypeOK
  <2> QED BY Zenon, <1>18, <2>1 DEF CreateBackupJob, Goto, TypeOK, PCs
<1>19. CASE FailCreate(b)
  <2>1. "Failed" \in States
    BY Zenon DEF States
  <2> QED BY <1>19, <2>1, ReturnType
          DEF FailCreate, UpdateStatus, UpdateStatusFails, TypeOK
<1>20. CASE UpdateJobStatus(b)
  BY <1>20, <1>b, ReturnType DEF UpdateJobStatus, Goto, TypeOK, PCs
<1>21. CASE SideEffects(b)
  BY Zenon, <1>21, <1>b, ReturnType DEF SideEffects, Goto, TypeOK, PCs
<1>22. CASE WriteStatus(b)
  BY Zenon, <1>22, <1>b, ReturnType
     DEF WriteStatus, UpdateStatus, UpdateStatusFails, TypeOK
<1>23. CASE ReleaseLeaseGet(b)
  BY Zenon, <1>23, ReturnType, <1>b DEF ReleaseLeaseGet, Goto, TypeOK, PCs
<1>24. CASE ReleaseLeaseDelete(b)
  BY Zenon, <1>24, ReturnType, <1>b DEF ReleaseLeaseDelete, TypeOK
<1>25. CASE APIError(b)
  BY Zenon, <1>25, ReturnType, <1>b DEF APIError, TypeOK
<1> QED BY Zenon, <1>1, <1>2, <1>3, <1>4, <1>5, <1>6, <1>7, <1>8, <1>9, <1>11,
           <1>12, <1>13, <1>14, <1>15, <1>16, <1>17, <1>18, <1>19, <1>20,
           <1>21, <1>22, <1>23, <1>24, <1>25 DEF Reconcile

\* A step of a finalizer goroutine keeps the types.
LEMMA FinalizersType ==
    ASSUME TypeOK, NEW b \in Backups, RunBackupFinalizers(b)
    PROVE  TypeOK'
<1> USE DEF crVars, jobVars, envVars, objVars, apiVars
<1>a. disturbances' \in 0 .. MaxDisturbances
  <2>1. Calm \/ Disturbance
    BY Zenon DEF RunBackupFinalizers, FinalizeDeleteBackup, FinalizeLockGet,
           FinalizeLockDelete, FinalizeUpdate, Happens, Calm
  <2> QED BY Zenon, <2>1, DisturbancesBounded
<1> USE <1>a
<1>1. CASE FinalizeDeleteBackup(b)
  BY <1>1 DEF FinalizeDeleteBackup, Keep, TypeOK, GPCs, FinalizerKinds
<1>2. CASE FinalizeLockGet(b)
  BY <1>2 DEF FinalizeLockGet, Keep, TypeOK, GPCs, FinalizerKinds
<1>3. CASE FinalizeLockDelete(b)
  BY <1>3 DEF FinalizeLockDelete, Keep, TypeOK, GPCs, FinalizerKinds
<1>4. CASE FinalizeUpdate(b)
  BY <1>4 DEF FinalizeUpdate, TypeOK, GPCs, Lives
<1> QED BY Zenon, <1>1, <1>2, <1>3, <1>4 DEF RunBackupFinalizers

\* A step of the environment keeps the types.
LEMMA EnvironmentType ==
    ASSUME TypeOK,
           \/ \E b \in Backups :
                  \/ CreateBackup(b) \/ RemoveBackup(b)
                  \/ \E d \in DeadlineKinds : DeadlinePasses(b, d)
                  \/ JobController(b) \/ JobExpires(b) \/ CollectJob(b)
           \/ LoseReadiness \/ BecomeReady \/ EditCluster \/ Crash
    PROVE  TypeOK'
<1> USE DEF crVars, jobVars, envVars, objVars, apiVars, opVars
<1>1. CASE LoseReadiness
  <2>1. PICK h \in Unhealthy : cluster' = [cluster EXCEPT !.health = h]
    BY Zenon, <1>1 DEF LoseReadiness
  <2>2. h \in Healths
    BY Zenon, BackupAssumption DEF Healths
  <2>3. cluster' \in [health : Healths, parallel : BOOLEAN, valid : BOOLEAN]
    BY Zenon, <2>1, <2>2 DEF TypeOK
  <2>4. disturbances' \in 0 .. MaxDisturbances
    BY Zenon, <1>1, DisturbancesBounded DEF LoseReadiness
  <2> QED BY Zenon, <1>1, <2>3, <2>4 DEF LoseReadiness, TypeOK
<1>2. CASE BecomeReady
  <2>1. cluster' \in [health : Healths, parallel : BOOLEAN, valid : BOOLEAN]
    BY Zenon, <1>2 DEF BecomeReady, TypeOK, Healths
  <2> QED BY Zenon, <1>2, <2>1 DEF BecomeReady, TypeOK
<1>3. CASE EditCluster
  <2>1. cluster' \in [health : Healths, parallel : BOOLEAN, valid : BOOLEAN]
    BY Zenon, <1>3 DEF EditCluster, TypeOK
  <2>2. disturbances' \in 0 .. MaxDisturbances
    BY Zenon, <1>3, DisturbancesBounded DEF EditCluster, Happens
  <2> QED BY Zenon, <1>3, <2>1, <2>2 DEF EditCluster, TypeOK
<1>4. CASE Crash
  <2>1. disturbances' \in 0 .. MaxDisturbances
    BY Zenon, <1>4, DisturbancesBounded DEF Crash, Happens
  <2> QED BY Zenon, <1>4, <2>1
          DEF Crash, TypeOK, PCs, States, Views, NoView, Healths, GPCs
<1>5. ASSUME NEW b \in Backups,
             \/ CreateBackup(b) \/ RemoveBackup(b)
             \/ \E d \in DeadlineKinds : DeadlinePasses(b, d)
             \/ JobController(b) \/ JobExpires(b) \/ CollectJob(b)
      PROVE  TypeOK'
  <2>1. CASE CreateBackup(b)
    BY <2>1, BackupAssumption DEF CreateBackup, TypeOK, Lives, FinalizerKinds,
         DeleteBackup
  <2>2. CASE RemoveBackup(b)
    BY Zenon, <2>2 DEF RemoveBackup, TypeOK, Lives
  <2>3. ASSUME NEW d \in DeadlineKinds, DeadlinePasses(b, d)
        PROVE  TypeOK'
    BY Zenon, <2>3 DEF DeadlinePasses, TypeOK
  <2>4. /\ Deleted(job[b]) \in Jobs
        /\ ObservedSuspend(job[b]) \in Jobs
        /\ \A p \in JobPhases : InPhase(job[b], p) \in Jobs
    <3>1. job[b] \in Jobs
      BY Zenon DEF TypeOK
    <3> QED BY Zenon, <3>1, JobsType
  <2>5. CASE JobStarts(b)
    BY Zenon, <2>5, <2>4 DEF JobStarts, TypeOK, JobPhases
  <2>6. CASE JobFinishes(b)
    BY <2>6, <2>4 DEF JobFinishes, TypeOK, JobPhases
  <2>7. CASE JobObservesSuspend(b)
    BY Zenon, <2>7, <2>4 DEF JobObservesSuspend, TypeOK
  <2>8. CASE JobExpires(b)
    BY Zenon, <2>8, <2>4 DEF JobExpires, TypeOK
  <2>9. CASE CollectJob(b)
    BY Zenon, <2>9, <2>4 DEF CollectJob, TypeOK
  <2> QED BY Zenon, <1>5, <2>1, <2>2, <2>3, <2>5, <2>6, <2>7, <2>8, <2>9 DEF
       JobController
<1> QED BY Zenon, <1>1, <1>2, <1>3, <1>4, <1>5

\* Every variable keeps its type (TypeOK) whatever reconciles, goroutines and
\* the environment do.
THEOREM TypeCorrect == Spec => []TypeOK
<1>1. Init => TypeOK
  BY BackupAssumption
     DEF Init, TypeOK, Lives, States, Jobs, NoJob, JobPhases, PCs, GPCs,
         Views, NoView, Healths
<1>2. TypeOK /\ [Next]_vars => TypeOK'
  <2> SUFFICES ASSUME TypeOK, [Next]_vars PROVE TypeOK'
    OBVIOUS
  <2>1. CASE UNCHANGED vars
    BY Zenon, <2>1 DEF vars, TypeOK
  <2>2. CASE Next
    BY Zenon, <2>2, ReconcileType, FinalizersType, EnvironmentType DEF Next
  <2> QED BY Zenon, <2>1, <2>2
<1> QED BY <1>1, <1>2, PTL DEF Spec

-----------------------------------------------------------------------------
(***************************************************************************)
(* Results.                                                                *)
(***************************************************************************)
\* Where a reconcile still may write the result of its backup, and where it
\* removes what the result has made superfluous.
Working  == PCs \ {"idle", "jobFinalizers", "cleanFinalizer", "cleanDelete",
                   "releaseGet", "releaseDelete"}
Clearing == {"jobFinalizers", "cleanFinalizer", "cleanDelete"}

\* A reconcile that may write the result has found none, one that removes the
\* keep-job finalizer has recorded it, and until then the Job has the finalizer.
ResultFits(b) ==
    /\ pc[b] \in Working => state[b] \notin Terminal
    /\ pc[b] \in Clearing => state[b] \in Terminal
    /\ Exists(b) /\ state[b] \notin Terminal => job[b].keep

\* ... of every backup.
ResultInv == \A b \in Backups : ResultFits(b)

\* What a step does to the result and to the Job of b, and to no others.
ResultStep(b) ==
    /\ \A c \in Backups \ {b} : pc'[c] = pc[c] /\ state'[c] = state[c]
         /\ job'[c] = job[c]
    /\ ResultFits(b)'
    /\ state[b] \in Terminal => state'[b] = state[b]
    /\ Exists(b) /\ ~Exists(b)' => state[b] \in Terminal

\* A reconcile returns with the result in memory that it has, or has not, written.
LEMMA ReturnPlace ==
    ASSUME TypeOK, NEW b \in Backups, NEW s, End(b) \/ Return(b, s)
    PROVE  /\ pc'[b] \notin Working \cup Clearing
           /\ \A c \in Backups \ {b} : pc'[c] = pc[c]
  BY DEF TypeOK, End, Return, Goto, Working, Clearing

\* or goes on with the backup.
LEMMA AfterPlace ==
    ASSUME TypeOK, NEW b \in Backups, NEW s, AfterReconcileJob(b, s)
    PROVE  /\ pc'[b] \notin Clearing
           /\ \A c \in Backups \ {b} : pc'[c] = pc[c]
<1>1. CASE CanBackup(view[b])
  BY Zenon, <1>1 DEF AfterReconcileJob, TypeOK, Goto, Clearing
<1>2. CASE ~CanBackup(view[b])
  BY Zenon, <1>2, ReturnPlace DEF AfterReconcileJob
<1> QED BY Zenon, <1>1, <1>2

\* A step of a reconcile writes a result only where there is none, and removes the
\* keep-job finalizer only where there is one.
LEMMA ReconcileResult ==
    ASSUME TypeOK, ResultInv, NEW b \in Backups, Reconcile(b) \/ APIError(b)
    PROVE  ResultStep(b)
<1> USE DEF crVars, jobVars, envVars, gVars, objVars, apiVars, ResultStep, ResultFits,
      ResultInv, Exists
<1>0. /\ pc \in [Backups -> PCs] /\ state \in [Backups -> States]
      /\ job \in [Backups -> Jobs]
  BY Zenon DEF TypeOK
<1>1. CASE Get(b)
  BY Zenon, <1>0, <1>1 DEF Get, Goto, Working, Clearing
<1>2. CASE RunJobFinalizers(b) \/ CleanUpFinalizer(b) \/ CleanUpDelete(b)
  <2>1. /\ UNCHANGED state /\ state[b] \in Terminal
        /\ \A c \in Backups \ {b} : job'[c] = job[c]
    BY Zenon, <1>0, <1>2 DEF RunJobFinalizers, CleanUpFinalizer, CleanUpDelete,
         Clearing
  <2>2. pc'[b] \notin Working /\ \A c \in Backups \ {b} : pc'[c] = pc[c]
    BY Zenon, <1>0, <1>2, ReturnPlace DEF RunJobFinalizers, CleanUpFinalizer,
         CleanUpDelete, Goto, Working
  <2> QED BY Zenon, <2>1, <2>2
<1>3. CASE GetCluster(b) \/ EnsureFinalizers(b) \/ CheckDeadlines(b)
             \/ AcquireLeaseGet(b)
             \/ AcquireLeaseCreate(b) \/ UpdateJobStatus(b) \/ SideEffects(b)
  <2>1. UNCHANGED <<state, job>> /\ pc[b] \in Working
    BY Zenon, <1>3 DEF GetCluster, EnsureFinalizers, CheckDeadlines,
         AcquireLeaseGet, AcquireLeaseCreate,
                UpdateJobStatus, SideEffects, Working, PCs
  <2>2. pc'[b] \notin Clearing /\ \A c \in Backups \ {b} : pc'[c] = pc[c]
    BY Zenon, <1>0, <1>3, ReturnPlace
       DEF GetCluster, EnsureFinalizers, CheckDeadlines, AcquireLeaseGet,
         AcquireLeaseCreate,
           UpdateJobStatus, SideEffects, Goto, Clearing
  <2> QED BY Zenon, <2>1, <2>2
<1>4. CASE FailEarly(b) \/ FailCreate(b) \/ WriteStatus(b)
  <2>1. UNCHANGED job /\ pc[b] \in Working
          /\ \A c \in Backups \ {b} : state'[c] = state[c]
    BY Zenon, <1>0, <1>4 DEF FailEarly, FailCreate, WriteStatus, UpdateStatus,
         UpdateStatusFails, Working, PCs
  <2>2. pc'[b] \notin Working \cup Clearing /\ \A c \in Backups \ {b} : pc'[c] = pc[c]
    BY Zenon, <1>4, ReturnPlace DEF FailEarly, FailCreate, WriteStatus
  <2> QED BY Zenon, <2>1, <2>2
<1>5. CASE FailDeadline(b)
  <2>1. UNCHANGED job /\ pc[b] \in Working
          /\ \A c \in Backups \ {b} : state'[c] = state[c]
    BY Zenon, <1>0, <1>5 DEF FailDeadline, UpdateStatus, UpdateStatusFails,
         Working, PCs
  <2>2. /\ pc'[b] \notin Working /\ \A c \in Backups \ {b} : pc'[c] = pc[c]
        /\ pc'[b] \in Clearing => state'[b] \in Terminal
    BY Zenon, <1>0, <1>5, ReturnPlace DEF FailDeadline, UpdateStatus, Goto,
         Working, Terminal
  <2> QED BY Zenon, <2>1, <2>2
<1>6. CASE ReconcileBackupJob(b) \/ SuspendJob(b) \/ ResumeJob(b)
  <2>1. /\ UNCHANGED state /\ pc[b] \in Working
        /\ \A c \in Backups \ {b} : job'[c] = job[c]
    BY Zenon, <1>0, <1>6 DEF ReconcileBackupJob, SuspendJob, ResumeJob, Working,
         PCs
  <2>2. pc'[b] \notin Clearing /\ \A c \in Backups \ {b} : pc'[c] = pc[c]
    BY Zenon, <1>0, <1>6, ReturnPlace, AfterPlace DEF ReconcileBackupJob,
         SuspendJob, ResumeJob, Goto, Clearing
  <2>3. job'[b].phase = job[b].phase /\ job'[b].keep = job[b].keep
    BY <1>0, <1>6 DEF ReconcileBackupJob, SuspendJob, ResumeJob, Suspending,
         Resuming, Jobs
  <2> QED BY Zenon, <2>1, <2>2, <2>3
<1>7. CASE SuspendStatus(b) \/ ResumeStatus(b)
  <2>1. /\ UNCHANGED job /\ pc[b] \in Working
        /\ \A c \in Backups \ {b} : state'[c] = state[c]
        /\ state'[b] \in {state[b], "Suspended", "Starting"}
    BY Zenon, <1>0, <1>7 DEF SuspendStatus, ResumeStatus, UpdateStatus,
         UpdateStatusFails, Working, PCs
  <2>2. pc'[b] \notin Clearing /\ \A c \in Backups \ {b} : pc'[c] = pc[c]
    BY Zenon, <1>7, ReturnPlace, AfterPlace DEF SuspendStatus, ResumeStatus
  <2> QED BY Zenon, <2>1, <2>2 DEF Terminal
<1>8. CASE CreateBackupJob(b)
  <2>1. UNCHANGED state /\ pc[b] \in Working /\ pc'[b] \notin Clearing
          /\ \A c \in Backups \ {b} : pc'[c] = pc[c]
    BY Zenon, <1>0, <1>8 DEF CreateBackupJob, Goto, Working, Clearing, PCs
  <2>2. /\ \A c \in Backups \ {b} : job'[c] = job[c]
        /\ job'[b] = job[b] \/ (~Exists(b) /\ job'[b] = NewJob)
    BY Zenon, <1>0, <1>8 DEF CreateBackupJob, JobCreated
  <2> QED BY <2>1, <2>2 DEF NewJob
<1>9. CASE ReleaseLeaseGet(b) \/ ReleaseLeaseDelete(b)
  <2>1. UNCHANGED <<state, job>>
    BY Zenon, <1>9 DEF ReleaseLeaseGet, ReleaseLeaseDelete
  <2>2. pc'[b] \notin Working \cup Clearing /\ \A c \in Backups \ {b} : pc'[c] = pc[c]
    BY Zenon, <1>0, <1>9, ReturnPlace DEF ReleaseLeaseGet, ReleaseLeaseDelete,
         Goto, Working, Clearing
  <2> QED BY Zenon, <2>1, <2>2
<1>10. CASE APIError(b)
  <2>1. UNCHANGED <<state, job>>
    BY Zenon, <1>10 DEF APIError
  <2>2. pc'[b] \notin Working \cup Clearing /\ \A c \in Backups \ {b} : pc'[c] = pc[c]
    BY Zenon, <1>10, ReturnPlace DEF APIError
  <2> QED BY Zenon, <2>1, <2>2
<1> QED BY Zenon, <1>1, <1>2, <1>3, <1>4, <1>5, <1>6, <1>7, <1>8, <1>9, <1>10
     DEF Reconcile

\* The Job controller, the garbage collector, the finalizers and the user change
\* no result, and no Job disappears that has the finalizer.
LEMMA OtherResult ==
    ASSUME TypeOK, ResultInv, NEW b \in Backups,
           \/ RunBackupFinalizers(b) \/ CreateBackup(b) \/ RemoveBackup(b)
           \/ \E d \in DeadlineKinds : DeadlinePasses(b, d)
           \/ JobController(b) \/ JobExpires(b) \/ CollectJob(b)
    PROVE  ResultStep(b)
<1> USE DEF crVars, jobVars, envVars, objVars, apiVars, opVars, ResultStep, ResultFits,
      ResultInv, Exists
<1>0. job \in [Backups -> Jobs]
  BY Zenon DEF TypeOK
<1>1. UNCHANGED <<pc, state>>
  BY Zenon DEF RunBackupFinalizers, FinalizeDeleteBackup, FinalizeLockGet,
       FinalizeLockDelete, FinalizeUpdate,
         CreateBackup, RemoveBackup, DeadlinePasses, JobController, JobStarts,
           JobFinishes,
         JobObservesSuspend, JobExpires, CollectJob
<1>2. CASE JobController(b)
  <2>1. /\ \A c \in Backups \ {b} : job'[c] = job[c]
        /\ job[b].phase # "none" /\ job'[b].phase # "none" /\ job'[b].keep = job[b].keep
    <3>1. CASE JobStarts(b) \/ JobFinishes(b)
      BY Zenon, <1>0, <3>1 DEF JobStarts, JobFinishes, InPhase, Jobs
    <3>2. CASE JobObservesSuspend(b)
      BY Zenon, <1>0, <3>2 DEF JobObservesSuspend, ObservedSuspend, Jobs
    <3> QED BY Zenon, <1>2, <3>1, <3>2 DEF JobController
  <2> QED BY Zenon, <1>1, <2>1
<1>3. CASE JobExpires(b) \/ CollectJob(b)
  <2>1. (\A c \in Backups \ {b} : job'[c] = job[c]) /\ job'[b] = Deleted(job[b])
          /\ job[b].phase # "none"
    BY Zenon, <1>0, <1>3 DEF JobExpires, CollectJob, Finished
  <2>2. job[b].keep => job'[b].phase = job[b].phase /\ job'[b].keep
    BY Zenon, <1>0, <2>1 DEF Deleted, Jobs
  <2>3. ~job[b].keep => job'[b].phase = "none"
    BY <2>1 DEF Deleted, NoJob
  <2> QED BY Zenon, <1>1, <2>1, <2>2, <2>3
<1>4. CASE \/ RunBackupFinalizers(b) \/ CreateBackup(b) \/ RemoveBackup(b)
           \/ \E d \in DeadlineKinds : DeadlinePasses(b, d)
  <2>1. UNCHANGED job
    BY Zenon, <1>4 DEF RunBackupFinalizers, FinalizeDeleteBackup,
         FinalizeLockGet, FinalizeLockDelete, FinalizeUpdate,
                CreateBackup, RemoveBackup, DeadlinePasses
  <2> QED BY Zenon, <1>1, <2>1
<1> QED BY Zenon, <1>2, <1>3, <1>4

\* Any step of the system, seen from the results and the Jobs.
LEMMA ResultsStep ==
    ASSUME TypeOK, ResultInv, [Next]_vars
    PROVE  /\ ResultInv'
           /\ \A b \in Backups : /\ state[b] \in Terminal => state'[b] = state[b]
                                 /\ Exists(b) /\ ~Exists(b)' => state[b] \in Terminal
<1>1. CASE \E b \in Backups : ResultStep(b)
  <2>1. PICK b \in Backups : ResultStep(b)
    BY Zenon, <1>1
  <2>2. ASSUME NEW c \in Backups \ {b}
        PROVE ResultFits(c)' /\ state'[c] = state[c] /\ Exists(c)' = Exists(c)
    BY Zenon, <2>1 DEF ResultStep, ResultFits, ResultInv, Exists
  <2> QED BY Zenon, <2>1, <2>2 DEF ResultStep, ResultInv
<1>2. CASE LoseReadiness \/ BecomeReady \/ EditCluster \/ Crash \/ UNCHANGED vars
  <2>1. UNCHANGED <<state, job>> /\ \A b \in Backups : pc'[b] \in {pc[b], "idle"}
    BY Zenon, <1>2 DEF LoseReadiness, BecomeReady, EditCluster, Crash, vars,
         crVars, jobVars, opVars, objVars
  <2> QED BY Zenon, <2>1 DEF ResultInv, ResultFits, Exists, Working, Clearing
<1> QED BY Zenon, <1>1, <1>2, ReconcileResult, OtherResult DEF Next

\* What the results rest on holds in every state.
LEMMA ResultInvariant == Spec => [](TypeOK /\ ResultInv)
<1>1. Init => ResultInv
  BY DEF Init, ResultInv, ResultFits, Exists, NoJob, Working, Clearing
<1>2. TypeOK /\ ResultInv /\ [Next]_vars => ResultInv'
  BY Zenon, ResultsStep
<1> QED BY <1>1, <1>2, TypeCorrect, PTL DEF Spec

\* A recorded result is final (ResultIsFinal): no reconcile that has read the
\* backup before overwrites it, whichever of its calls failed.
THEOREM ResultsAreFinal == Spec => ResultIsFinal
<1>1. TypeOK /\ ResultInv /\ [Next]_vars =>
        [\A b \in Backups : state[b] \in Terminal => state'[b] = state[b]]_vars
  BY Zenon, ResultsStep
<1> QED BY <1>1, ResultInvariant, PTL DEF Spec, ResultIsFinal

\* No Job disappears before the result of its backup has been recorded
\* (JobOutlivesItsResult), so that no reconcile runs a backup a second time.
THEOREM JobsOutliveTheirResults == Spec => JobOutlivesItsResult
<1>1. TypeOK /\ ResultInv /\ [Next]_vars =>
        [\A b \in Backups :
             Exists(b) /\ ~Exists(b)' => state[b] \in Terminal \/ life[b] = "gone"]_vars
  BY Zenon, ResultsStep
<1> QED BY <1>1, ResultInvariant, PTL DEF Spec, JobOutlivesItsResult

-----------------------------------------------------------------------------
(***************************************************************************)
(* The lease invariant.                                                    *)
(***************************************************************************)

\* A step of a reconcile that touches neither the lease nor the finalizers: it
\* moves on, and does not enter the stretch before the lease from outside.
LocalStep(b) ==
    /\ UNCHANGED <<life, finalizers, lease, gpc, gfin, gkeep>>
    /\ \E l \in PCs :
           /\ pc' = [pc EXCEPT ![b] = l]
           /\ \/ UNCHANGED view
              \/ l = "idle" /\ view' = [view EXCEPT ![b] = NoView]
           /\ pc[b] \in {"idle", "jobFinalizers"} => l = "idle"
           /\ l \in BeforeLease => pc[b] \in BeforeLease
           /\ l \in {"acquireGet", "acquireCreate"} => ~view[b].parallel
           /\ l # "releaseDelete"

\* Such a step keeps the invariant.
LEMMA LocalStepKeepsLeaseInv ==
    ASSUME TypeOK, LeaseInv, NEW b \in Backups, LocalStep(b)
    PROVE  LeaseInv'
<1>1. PICK l \in PCs :
         /\ pc' = [pc EXCEPT ![b] = l]
         /\ \/ UNCHANGED view
            \/ l = "idle" /\ view' = [view EXCEPT ![b] = NoView]
         /\ pc[b] \in {"idle", "jobFinalizers"} => l = "idle"
         /\ l \in BeforeLease => pc[b] \in BeforeLease
         /\ l \in {"acquireGet", "acquireCreate"} => ~view[b].parallel
         /\ l # "releaseDelete"
  BY Zenon DEF LocalStep
<1>2. UNCHANGED <<life, finalizers, lease, gpc, gfin, gkeep>>
  BY Zenon DEF LocalStep
<1>3. LeaseHolderAccountable'
  BY Zenon, <1>2 DEF LeaseInv, LeaseHolderAccountable
<1>7. FinalizersOfObjects'
  BY Zenon, <1>2 DEF LeaseInv, FinalizersOfObjects
<1>4. FinalizerBeforeLease'
  BY Zenon, <1>1, <1>2 DEF LeaseInv, FinalizerBeforeLease, CanBeReleased,
       TypeOK,
                    BeforeLease
<1>5. GoroutineIsAlone'
  BY Zenon, <1>1, <1>2 DEF LeaseInv, GoroutineIsAlone, TypeOK
<1>6. DeleterHolds'
  BY Zenon, <1>1, <1>2 DEF LeaseInv, DeleterHolds, TypeOK
<1> QED BY Zenon, <1>3, <1>4, <1>5, <1>6, <1>7 DEF LeaseInv

\* The steps that only concern the reconcile itself.
LEMMA ReturnIsLocal ==
    ASSUME TypeOK, NEW b \in Backups, NEW s \in States,
           pc[b] \notin {"idle", "jobFinalizers"},
           UNCHANGED <<life, finalizers, lease, gpc, gfin, gkeep>>,
           End(b) \/ Return(b, s)
    PROVE  LocalStep(b)
<1>1. CASE End(b)
  BY Zenon, <1>1 DEF LocalStep, End, Goto, PCs, BeforeLease
<1>2. CASE Return(b, s)
  BY Zenon, <1>1, <1>2 DEF Return, LocalStep, Goto, PCs, BeforeLease
<1> QED BY Zenon, <1>1, <1>2

\* Entering one of the labels of the stretch, or one outside of it.
LEMMA GotoIsLocal ==
    ASSUME TypeOK, NEW b \in Backups, NEW l \in PCs,
           pc[b] \notin {"idle", "jobFinalizers"},
           UNCHANGED <<life, finalizers, lease, gpc, gfin, gkeep>>,
           Goto(b, l), UNCHANGED view,
           l \in BeforeLease => pc[b] \in BeforeLease,
           l \in {"acquireGet", "acquireCreate"} => ~view[b].parallel,
           l # "releaseDelete"
    PROVE  LocalStep(b)
BY Zenon DEF LocalStep, Goto

\* A reconcile step keeps the lease invariant.
LEMMA ReconcileKeepsLeaseInv ==
    ASSUME TypeOK, LeaseInv, NEW b \in Backups, Reconcile(b) \/ APIError(b)
    PROVE  LeaseInv'
<1> USE DEF crVars, jobVars, envVars, gVars, objVars, apiVars
<1>a. mem[b] \in States /\ StateFromJob(job[b]) \in States
      /\ "Failed" \in States /\ "Suspended" \in States /\ "Starting" \in States
  BY Zenon DEF TypeOK, StateFromJob, States
<1>b. SUFFICES ASSUME ~LocalStep(b) PROVE LeaseInv'
  BY Zenon, LocalStepKeepsLeaseInv
<1>1. CASE Get(b)
  <2>1. UNCHANGED <<life, finalizers, lease, view>>
    BY Zenon, <1>1 DEF Get
  <2>2. \E l \in {"idle", "jobFinalizers", "cluster"} :
           /\ pc' = [pc EXCEPT ![b] = l]
           /\ l = "cluster" => life[b] = "live"
    BY Zenon, <1>1 DEF Get, Goto, TypeOK
  <2>3. \/ UNCHANGED <<gpc, gfin, gkeep>>
        \/ /\ life[b] = "deleting"
           /\ gpc' = [gpc EXCEPT ![b] = "deleteBackup"]
           /\ gfin' = [gfin EXCEPT ![b] = finalizers[b]]
           /\ gkeep' = [gkeep EXCEPT ![b] = {}]
    BY Zenon, <1>1 DEF Get, TryRunBackupFinalizers
  <2>4. LeaseHolderAccountable'
    BY Zenon, <2>1 DEF LeaseInv, LeaseHolderAccountable
  <2>8. FinalizersOfObjects'
    BY Zenon, <2>1 DEF LeaseInv, FinalizersOfObjects
  <2>5. FinalizerBeforeLease'
    BY Zenon, <2>1, <2>2 DEF LeaseInv, FinalizerBeforeLease, CanBeReleased,
         TypeOK,
                      BeforeLease
  <2>6. GoroutineIsAlone'
    BY <2>1, <2>2, <2>3 DEF LeaseInv, GoroutineIsAlone, TypeOK
  <2>7. DeleterHolds'
    BY Zenon, <2>1, <2>2, <2>3 DEF LeaseInv, DeleterHolds, TypeOK
  <2> QED BY Zenon, <2>4, <2>5, <2>6, <2>7, <2>8 DEF LeaseInv
<1>2. CASE RunJobFinalizers(b)
  BY Zenon, <1>2, <1>b DEF RunJobFinalizers, LocalStep, End, Goto, PCs,
       BeforeLease
<1>3. CASE GetCluster(b)
  <2>1. /\ UNCHANGED <<life, finalizers, lease, gpc, gfin, gkeep>>
        /\ pc[b] = "cluster"
        /\ \E l \in {"finalizers", "failEarly"} : pc' = [pc EXCEPT ![b] = l]
        /\ \A c \in Backups \ {b} : view'[c] = view[c]
    BY Zenon, <1>3 DEF GetCluster, Goto, TypeOK
  <2>2. LeaseHolderAccountable'
    BY Zenon, <2>1 DEF LeaseInv, LeaseHolderAccountable
  <2>6. FinalizersOfObjects'
    BY Zenon, <2>1 DEF LeaseInv, FinalizersOfObjects
  <2>3. FinalizerBeforeLease'
    BY Zenon, <2>1 DEF LeaseInv, FinalizerBeforeLease, CanBeReleased, TypeOK,
         BeforeLease
  <2>4. GoroutineIsAlone'
    BY Zenon, <2>1 DEF LeaseInv, GoroutineIsAlone, TypeOK
  <2>5. DeleterHolds'
    BY Zenon, <2>1 DEF LeaseInv, DeleterHolds, TypeOK
  <2> QED BY Zenon, <2>2, <2>3, <2>4, <2>5, <2>6 DEF LeaseInv
<1>4. CASE FailEarly(b)
  BY Zenon, <1>4, <1>a, <1>b, ReturnIsLocal DEF FailEarly
<1>5. CASE EnsureFinalizers(b)
  <2>1. CASE End(b) /\ UNCHANGED finalizers
    BY Zenon, <1>5, <2>1, <1>a, <1>b, ReturnIsLocal DEF EnsureFinalizers
  <2>2. CASE ~(End(b) /\ UNCHANGED finalizers)
    <3>1. /\ UNCHANGED <<life, lease, gpc, gfin, gkeep, view>>
          /\ pc' = [pc EXCEPT ![b] = "deadlines"]
          /\ pc[b] = "finalizers"
          /\ view[b].parallel \/ ReleaseLock \in finalizers'[b]
          /\ finalizers' # finalizers => life[b] = "live"
          /\ \A c \in Backups : finalizers[c] \subseteq finalizers'[c]
          /\ \A c \in Backups \ {b} : finalizers[c] = finalizers'[c]
      BY <1>5, <2>2 DEF EnsureFinalizers, Goto, TypeOK
    <3>2. LeaseHolderAccountable'
      BY Zenon, <3>1 DEF LeaseInv, LeaseHolderAccountable, TypeOK
    <3>3. gpc[b] = "idle"
      BY Zenon, <3>1 DEF LeaseInv, GoroutineIsAlone
    <3>4. GoroutineIsAlone'
      BY Zenon, <3>1, <3>3 DEF LeaseInv, GoroutineIsAlone, TypeOK
    <3>5. DeleterHolds'
      BY Zenon, <3>1 DEF LeaseInv, DeleterHolds, TypeOK
    <3>7. FinalizersOfObjects'
      BY Zenon, <3>1 DEF LeaseInv, FinalizersOfObjects, TypeOK
    <3>6. FinalizerBeforeLease'
      <4>1. \A c \in Backups \ {b} : pc'[c] = pc[c]
        BY Zenon, <3>1 DEF TypeOK
      <4>2. ~view[b].parallel => CanBeReleased(b)'
        BY Zenon, <3>1 DEF CanBeReleased, LeaseInv, FinalizersOfObjects
      <4>3. pc'[b] = "deadlines"
        BY Zenon, <3>1 DEF TypeOK
      <4> QED BY Zenon, <3>1, <4>1, <4>2, <4>3
              DEF LeaseInv, FinalizerBeforeLease, CanBeReleased, BeforeLease
    <3> QED BY Zenon, <3>2, <3>4, <3>5, <3>6, <3>7 DEF LeaseInv
  <2> QED BY Zenon, <2>1, <2>2
<1>6. CASE CheckDeadlines(b)
  BY Zenon, <1>6, <1>a, <1>b, ReturnIsLocal, GotoIsLocal
     DEF CheckDeadlines, PCs, BeforeLease
<1>7. CASE FailDeadline(b)
  BY Zenon, <1>7, <1>a, <1>b, ReturnIsLocal, GotoIsLocal
     DEF FailDeadline, PCs, BeforeLease
<1>8. CASE CleanUpFinalizer(b)
  BY Zenon, <1>8, <1>a, <1>b, ReturnIsLocal, GotoIsLocal
     DEF CleanUpFinalizer, PCs, BeforeLease
<1>9. CASE CleanUpDelete(b)
  BY Zenon, <1>9, <1>a, <1>b, ReturnIsLocal DEF CleanUpDelete
<1>10. ASSUME NEW s \in States, AfterReconcileJob(b, s),
              pc[b] \in BeforeLease,
              UNCHANGED <<life, finalizers, lease, gpc, gfin, gkeep>>
       PROVE  FALSE
  BY Zenon, <1>10, <1>b, ReturnIsLocal, GotoIsLocal
     DEF AfterReconcileJob, PCs, BeforeLease
<1>11. CASE ReconcileBackupJob(b)
  BY Zenon, <1>11, <1>10, <1>a, <1>b, GotoIsLocal
     DEF ReconcileBackupJob, PCs, BeforeLease
<1>12. CASE SuspendJob(b)
  BY Zenon, <1>12, <1>a, <1>b, ReturnIsLocal, GotoIsLocal
     DEF SuspendJob, PCs, BeforeLease
<1>13. CASE SuspendStatus(b)
  BY Zenon, <1>13, <1>10, <1>a, <1>b, ReturnIsLocal DEF SuspendStatus,
       BeforeLease
<1>14. CASE ResumeJob(b)
  BY Zenon, <1>14, <1>a, <1>b, ReturnIsLocal, GotoIsLocal
     DEF ResumeJob, PCs, BeforeLease
<1>15. CASE ResumeStatus(b)
  BY Zenon, <1>15, <1>10, <1>a, <1>b, ReturnIsLocal DEF ResumeStatus,
       BeforeLease
<1>16. CASE AcquireLeaseGet(b)
  <2>1. ~view[b].parallel
    BY Zenon, <1>16 DEF AcquireLeaseGet, LeaseInv, FinalizerBeforeLease
  <2> QED BY Zenon, <1>16, <2>1, <1>a, <1>b, ReturnIsLocal, GotoIsLocal
          DEF AcquireLeaseGet, PCs, BeforeLease
<1>17. CASE AcquireLeaseCreate(b)
  <2>1. CASE lease # NoLease
    BY Zenon, <1>17, <2>1, <1>a, <1>b, ReturnIsLocal DEF AcquireLeaseCreate
  <2>2. CASE lease = NoLease
    <3>1. /\ UNCHANGED <<life, finalizers, gpc, gfin, gkeep, view>>
          /\ lease' = b
          /\ pc[b] = "acquireCreate"
          /\ pc' = [pc EXCEPT ![b] = "createJob"]
      BY Zenon, <1>17, <2>2 DEF AcquireLeaseCreate, Goto
    <3>2. CanBeReleased(b) /\ gpc[b] = "idle"
      BY Zenon, <3>1 DEF LeaseInv, FinalizerBeforeLease, GoroutineIsAlone,
           BeforeLease
    <3>3. LeaseHolderAccountable'
      BY Zenon, <3>1, <3>2 DEF LeaseHolderAccountable, CanBeReleased
    <3>4. FinalizersOfObjects' /\ GoroutineIsAlone'
      BY Zenon, <3>1, <3>2 DEF LeaseInv, FinalizersOfObjects, GoroutineIsAlone,
           TypeOK
    <3>5. FinalizerBeforeLease'
      BY Zenon, <3>1 DEF LeaseInv, FinalizerBeforeLease, CanBeReleased,
           BeforeLease,
                  TypeOK
    <3>6. DeleterHolds'
      BY Zenon, <3>1, <3>2, <2>2, NoLeaseIsNoBackup DEF LeaseInv, DeleterHolds,
           TypeOK
    <3> QED BY Zenon, <3>3, <3>4, <3>5, <3>6 DEF LeaseInv
  <2> QED BY Zenon, <2>1, <2>2
<1>18. CASE CreateBackupJob(b)
  BY Zenon, <1>18, <1>b, GotoIsLocal DEF CreateBackupJob, PCs, BeforeLease
<1>19. CASE FailCreate(b)
  BY Zenon, <1>19, <1>a, <1>b, ReturnIsLocal DEF FailCreate
<1>20. CASE UpdateJobStatus(b)
  BY Zenon, <1>20, <1>a, <1>b, ReturnIsLocal, GotoIsLocal
     DEF UpdateJobStatus, PCs, BeforeLease
<1>21. CASE SideEffects(b)
  BY Zenon, <1>21, <1>a, <1>b, ReturnIsLocal, GotoIsLocal
     DEF SideEffects, PCs, BeforeLease
<1>22. CASE WriteStatus(b)
  BY Zenon, <1>22, <1>a, <1>b, ReturnIsLocal DEF WriteStatus
<1>23. CASE ReleaseLeaseGet(b)
  <2>1. CASE End(b)
    BY Zenon, <1>23, <2>1, <1>a, <1>b, ReturnIsLocal DEF ReleaseLeaseGet
  <2>2. CASE ~End(b)
    <3>1. /\ UNCHANGED <<life, finalizers, lease, gpc, gfin, gkeep, view>>
          /\ lease = b
          /\ pc[b] = "releaseGet"
          /\ pc' = [pc EXCEPT ![b] = "releaseDelete"]
      BY Zenon, <1>23, <2>2 DEF ReleaseLeaseGet, Goto
    <3>2. LeaseHolderAccountable' /\ FinalizersOfObjects'
      BY Zenon, <3>1 DEF LeaseInv, LeaseHolderAccountable, FinalizersOfObjects
    <3>3. FinalizerBeforeLease'
      BY Zenon, <3>1 DEF LeaseInv, FinalizerBeforeLease, CanBeReleased,
           BeforeLease,
                  TypeOK
    <3>4. GoroutineIsAlone'
      BY Zenon, <3>1 DEF LeaseInv, GoroutineIsAlone, TypeOK
    <3>5. DeleterHolds'
      BY Zenon, <3>1 DEF LeaseInv, DeleterHolds, TypeOK
    <3> QED BY Zenon, <3>2, <3>3, <3>4, <3>5 DEF LeaseInv
  <2> QED BY Zenon, <2>1, <2>2
<1>24. CASE ReleaseLeaseDelete(b)
  <2>1. CASE UNCHANGED lease
    BY Zenon, <1>24, <2>1, <1>a, <1>b, ReturnIsLocal DEF ReleaseLeaseDelete
  <2>2. CASE lease' # lease
    <3>1. /\ UNCHANGED <<life, finalizers, gpc, gfin, gkeep>>
          /\ lease' = NoLease
          /\ pc[b] = "releaseDelete"
          /\ pc' = [pc EXCEPT ![b] = "idle"]
          /\ view' = [view EXCEPT ![b] = NoView]
      BY Zenon, <1>24, <2>2 DEF ReleaseLeaseDelete, End, Goto
    <3>2. lease = b /\ gpc[b] = "idle"
      BY Zenon, <3>1 DEF LeaseInv, DeleterHolds, GoroutineIsAlone
    <3>3. LeaseHolderAccountable' /\ FinalizersOfObjects'
      BY Zenon, <3>1 DEF LeaseInv, LeaseHolderAccountable, FinalizersOfObjects
    <3>4. FinalizerBeforeLease'
      BY Zenon, <3>1 DEF LeaseInv, FinalizerBeforeLease, CanBeReleased,
           BeforeLease,
                  TypeOK
    <3>5. GoroutineIsAlone'
      BY Zenon, <3>1, <3>2 DEF LeaseInv, GoroutineIsAlone, TypeOK
    <3>6. DeleterHolds'
      BY Zenon, <3>1, <3>2, NoLeaseIsNoBackup DEF LeaseInv, DeleterHolds, TypeOK
    <3> QED BY Zenon, <3>3, <3>4, <3>5, <3>6 DEF LeaseInv
  <2> QED BY Zenon, <2>1, <2>2
<1>25. CASE APIError(b)
  <2>1. CASE pc[b] = "jobFinalizers"
    BY Zenon, <1>25, <2>1, <1>b DEF APIError, LocalStep, End, Goto, PCs,
         BeforeLease
  <2>2. CASE pc[b] # "jobFinalizers"
    BY Zenon, <1>25, <2>2, <1>a, <1>b, ReturnIsLocal DEF APIError
  <2> QED BY Zenon, <2>1, <2>2
<1> QED BY Zenon, <1>1, <1>2, <1>3, <1>4, <1>5, <1>6, <1>7, <1>8, <1>9, <1>11,
           <1>12, <1>13, <1>14, <1>15, <1>16, <1>17, <1>18, <1>19, <1>20,
           <1>21, <1>22, <1>23, <1>24, <1>25 DEF Reconcile

\* A step of a finalizer goroutine keeps the lease invariant.
LEMMA FinalizersKeepLeaseInv ==
    ASSUME TypeOK, LeaseInv, NEW b \in Backups, RunBackupFinalizers(b)
    PROVE  LeaseInv'
<1> USE DEF crVars, jobVars, envVars, objVars, apiVars
<1>a. UNCHANGED <<pc, view>>
  BY Zenon DEF RunBackupFinalizers, FinalizeDeleteBackup, FinalizeLockGet,
         FinalizeLockDelete, FinalizeUpdate
<1>b. gpc[b] # "idle"
  BY Zenon DEF RunBackupFinalizers, FinalizeDeleteBackup, FinalizeLockGet,
         FinalizeLockDelete, FinalizeUpdate
<1>c. /\ life[b] = "deleting" /\ pc[b] \in {"idle", "jobFinalizers"}
      /\ gfin[b] = finalizers[b]
  BY Zenon, <1>b DEF LeaseInv, GoroutineIsAlone
<1>1. CASE FinalizeDeleteBackup(b) \/ FinalizeLockGet(b)
  <2>1. /\ UNCHANGED <<life, finalizers, lease, gfin>>
        /\ \A c \in Backups \ {b} : gpc'[c] = gpc[c] /\ gkeep'[c] = gkeep[c]
    BY Zenon, <1>1 DEF FinalizeDeleteBackup, FinalizeLockGet, Keep, TypeOK
  <2>2. /\ gpc'[b] \in {"lockGet", "lockDelete", "update"}
        /\ gpc'[b] = "lockDelete" => lease = b
        /\ gpc'[b] = "update" /\ lease = b =>
               ReleaseLock \notin gfin[b] \/ ReleaseLock \in gkeep'[b]
    BY <1>1 DEF FinalizeDeleteBackup, FinalizeLockGet, Keep, TypeOK
  <2>3. /\ LeaseHolderAccountable' /\ FinalizersOfObjects'
        /\ FinalizerBeforeLease'
    BY Zenon, <1>a, <2>1 DEF LeaseInv, LeaseHolderAccountable,
         FinalizersOfObjects,
                      FinalizerBeforeLease, CanBeReleased
  <2>4. GoroutineIsAlone'
    BY Zenon, <1>a, <1>c, <2>1, <2>2 DEF LeaseInv, GoroutineIsAlone
  <2>5. lease = b => ReleaseLock \in gfin[b]
    BY Zenon, <1>c, NoLeaseIsNoBackup DEF LeaseInv, LeaseHolderAccountable
  <2>6. DeleterHolds'
    BY Zenon, <1>a, <2>1, <2>2, <2>5 DEF LeaseInv, DeleterHolds
  <2> QED BY Zenon, <2>3, <2>4, <2>6 DEF LeaseInv
<1>2. CASE FinalizeLockDelete(b)
  <2>1. /\ UNCHANGED <<life, finalizers, gfin>>
        /\ gpc' = [gpc EXCEPT ![b] = "update"]
        /\ \/ lease' = NoLease /\ UNCHANGED gkeep
           \/ lease' = lease /\ Keep(b, ReleaseLock)
    BY Zenon, <1>2 DEF FinalizeLockDelete
  <2>6. lease' = NoLease \/ (lease' = lease /\ ReleaseLock \in gkeep'[b])
    BY Zenon, <2>1 DEF Keep, TypeOK
  <2>2. lease = b
    BY Zenon, <1>2 DEF FinalizeLockDelete, LeaseInv, DeleterHolds
  <2>3. /\ LeaseHolderAccountable' /\ FinalizersOfObjects'
        /\ FinalizerBeforeLease'
    BY Zenon, <1>a, <2>1 DEF LeaseInv, LeaseHolderAccountable,
         FinalizersOfObjects,
                      FinalizerBeforeLease, CanBeReleased
  <2>4. GoroutineIsAlone'
    BY Zenon, <1>a, <1>c, <2>1 DEF LeaseInv, GoroutineIsAlone, TypeOK
  <2>8. /\ gpc'[b] = "update" /\ pc'[b] = pc[b] /\ pc[b] # "releaseDelete"
        /\ \A c \in Backups \ {b} : gpc'[c] = gpc[c] /\ pc'[c] = pc[c]
    BY Zenon, <1>a, <1>c, <2>1 DEF TypeOK
  <2>9. \A c \in Backups \ {b} : lease # c /\ lease' # c
    BY Zenon, <2>2, <2>6, NoLeaseIsNoBackup
  <2>10. lease' = b => ReleaseLock \in gkeep'[b]
    BY Zenon, <2>6, NoLeaseIsNoBackup
  <2>5. DeleterHolds'
    BY Zenon, <2>8, <2>9, <2>10 DEF LeaseInv, DeleterHolds
  <2> QED BY Zenon, <2>3, <2>4, <2>5 DEF LeaseInv
<1>3. CASE FinalizeUpdate(b)
  <2>1. /\ UNCHANGED lease
        /\ gpc' = [gpc EXCEPT ![b] = "idle"]
        /\ \A c \in Backups \ {b} : /\ gkeep'[c] = gkeep[c]
                                     /\ gfin'[c] = gfin[c]
                                     /\ life'[c] = life[c]
                                     /\ finalizers'[c] = finalizers[c]
        /\ \/ UNCHANGED <<life, finalizers>>
           \/ /\ finalizers'[b] = gkeep[b]
              /\ gkeep[b] # {} => life'[b] = life[b]
    BY Zenon, <1>3 DEF FinalizeUpdate, TypeOK
  <2>2. lease = b => ReleaseLock \in gkeep[b]
    BY Zenon, <1>3 DEF FinalizeUpdate, LeaseInv, DeleterHolds
  <2>3. LeaseHolderAccountable'
    BY Zenon, <2>1, <2>2, <1>c DEF LeaseInv, LeaseHolderAccountable, TypeOK
  <2>4. FinalizersOfObjects'
    BY Zenon, <2>1, <1>c DEF LeaseInv, FinalizersOfObjects
  <2>5. FinalizerBeforeLease'
    BY Zenon, <1>a, <1>c, <2>1 DEF LeaseInv, FinalizerBeforeLease,
         CanBeReleased,
                            BeforeLease
  <2>8. gpc'[b] = "idle" /\ \A c \in Backups \ {b} : gpc'[c] = gpc[c]
    BY Zenon, <2>1 DEF TypeOK
  <2>6. GoroutineIsAlone'
    BY <1>a, <2>1, <2>8 DEF LeaseInv, GoroutineIsAlone
  <2>7. DeleterHolds'
    BY Zenon, <1>a, <2>1, <2>8 DEF LeaseInv, DeleterHolds
  <2> QED BY Zenon, <2>3, <2>4, <2>5, <2>6, <2>7 DEF LeaseInv
<1> QED BY Zenon, <1>1, <1>2, <1>3 DEF RunBackupFinalizers

\* A step of the environment keeps the lease invariant.
LEMMA EnvironmentKeepsLeaseInv ==
    ASSUME TypeOK, LeaseInv,
           \/ \E b \in Backups :
                  \/ CreateBackup(b) \/ RemoveBackup(b)
                  \/ \E d \in DeadlineKinds : DeadlinePasses(b, d)
                  \/ JobController(b) \/ JobExpires(b) \/ CollectJob(b)
           \/ LoseReadiness \/ BecomeReady \/ EditCluster \/ Crash
    PROVE  LeaseInv'
<1> USE DEF crVars, jobVars, envVars, objVars, apiVars, opVars
<1> DEFINE leaseVars == <<life, finalizers, lease, pc, view, gpc, gfin, gkeep>>
<1>1. CASE UNCHANGED leaseVars
  BY Zenon, <1>1 DEF LeaseInv, LeaseHolderAccountable, FinalizersOfObjects,
              FinalizerBeforeLease, CanBeReleased, GoroutineIsAlone, DeleterHolds
<1>2. CASE Crash
  BY Zenon, <1>2 DEF Crash, LeaseInv, LeaseHolderAccountable,
       FinalizersOfObjects,
              FinalizerBeforeLease, GoroutineIsAlone, DeleterHolds, BeforeLease
<1>3. ASSUME NEW b \in Backups, CreateBackup(b) PROVE LeaseInv'
  <2>1. /\ UNCHANGED <<lease, pc, view, gpc, gfin, gkeep>>
        /\ life[b] = "absent" /\ life'[b] = "live"
        /\ \A c \in Backups \ {b} : /\ life'[c] = life[c]
                                     /\ finalizers'[c] = finalizers[c]
    BY Zenon, <1>3 DEF CreateBackup, TypeOK
  <2>2. gpc[b] = "idle" /\ lease # b /\ ~CanBeReleased(b)
    BY Zenon, <2>1, NoLeaseIsNoBackup DEF LeaseInv, GoroutineIsAlone,
                                  LeaseHolderAccountable, CanBeReleased
  <2>3. LeaseHolderAccountable' /\ FinalizersOfObjects'
    BY Zenon, <2>1, <2>2 DEF LeaseInv, LeaseHolderAccountable,
         FinalizersOfObjects, TypeOK
  <2>4. FinalizerBeforeLease'
    BY Zenon, <2>1, <2>2 DEF LeaseInv, FinalizerBeforeLease, CanBeReleased
  <2>5. GoroutineIsAlone' /\ DeleterHolds'
    BY Zenon, <2>1, <2>2 DEF LeaseInv, GoroutineIsAlone, DeleterHolds
  <2> QED BY Zenon, <2>3, <2>4, <2>5 DEF LeaseInv
<1>4. ASSUME NEW b \in Backups, RemoveBackup(b) PROVE LeaseInv'
  <2>1. /\ UNCHANGED <<lease, pc, view, gpc, gfin, gkeep, finalizers>>
        /\ life[b] = "live"
        /\ finalizers[b] # {} => life'[b] = "deleting"
        /\ \A c \in Backups \ {b} : life'[c] = life[c]
    BY Zenon, <1>4 DEF RemoveBackup, TypeOK
  <2>2. LeaseHolderAccountable' /\ FinalizersOfObjects'
    BY Zenon, <2>1 DEF LeaseInv, LeaseHolderAccountable, FinalizersOfObjects,
         TypeOK
  <2>3. FinalizerBeforeLease'
    BY Zenon, <2>1 DEF LeaseInv, FinalizerBeforeLease, CanBeReleased
  <2>4. GoroutineIsAlone' /\ DeleterHolds'
    BY Zenon, <2>1 DEF LeaseInv, GoroutineIsAlone, DeleterHolds
  <2> QED BY Zenon, <2>2, <2>3, <2>4 DEF LeaseInv
<1>5. ASSUME NEW b \in Backups,
             \/ \E d \in DeadlineKinds : DeadlinePasses(b, d)
             \/ JobController(b) \/ JobExpires(b) \/ CollectJob(b)
      PROVE  UNCHANGED leaseVars
  BY Zenon, <1>5 DEF DeadlinePasses, JobController, JobStarts, JobFinishes,
              JobObservesSuspend, JobExpires, CollectJob
<1>6. LoseReadiness \/ BecomeReady \/ EditCluster => UNCHANGED leaseVars
  BY Zenon DEF LoseReadiness, BecomeReady, EditCluster
<1> HIDE DEF leaseVars
<1> QED BY Zenon, <1>1, <1>2, <1>3, <1>4, <1>5, <1>6

\* So does every step,
LEMMA LeaseInvInductive == TypeOK /\ LeaseInv /\ [Next]_vars => LeaseInv'
<1> SUFFICES ASSUME TypeOK, LeaseInv, [Next]_vars PROVE LeaseInv'
  OBVIOUS
<1>1. CASE UNCHANGED vars
  BY Zenon, <1>1 DEF vars, LeaseInv, LeaseHolderAccountable,
       FinalizersOfObjects,
              FinalizerBeforeLease, CanBeReleased, GoroutineIsAlone, DeleterHolds
<1>2. CASE Next
  BY Zenon, <1>2, ReconcileKeepsLeaseInv, FinalizersKeepLeaseInv,
     EnvironmentKeepsLeaseInv DEF Next
<1> QED BY Zenon, <1>1, <1>2

\* and the invariant holds in every state.
LEMMA LeaseInvHolds == Spec => []LeaseInv
<1>1. Init => LeaseInv
  BY Zenon, NoLeaseIsNoBackup
     DEF Init, LeaseInv, LeaseHolderAccountable, FinalizersOfObjects,
         FinalizerBeforeLease, CanBeReleased, GoroutineIsAlone, DeleterHolds,
         BeforeLease
<1> QED BY <1>1, TypeCorrect, LeaseInvInductive, PTL DEF Spec

\* A held lease can always be given back (LeaseHolderAccountable): whatever
\* reconciles, goroutines, crashes, failing calls and edits of allowParallel
\* do, its holder exists and carries the release-lock finalizer.
THEOREM LeaseAccountable == Spec => []LeaseHolderAccountable
BY LeaseInvHolds, PTL DEF LeaseInv

\* The lease disappears only by a release of its own holder
\* (OnlyHolderReleases), although ReleaseLease compares the holder in one call
\* and deletes by name in a later one.
THEOREM HolderReleases == Spec => OnlyHolderReleases
<1>1. TypeOK /\ LeaseInv /\ [Next]_vars =>
        [lease # NoLease /\ lease' # lease =>
             /\ lease' = NoLease
             /\ pc[lease] = "releaseDelete" \/ gpc[lease] = "lockDelete"]_vars
  <2> SUFFICES ASSUME LeaseInv, Next, lease # NoLease, lease' # lease
               PROVE  /\ lease' = NoLease
                      /\ pc[lease] = "releaseDelete" \/ gpc[lease] = "lockDelete"
    BY Zenon DEF vars
  <2> USE DEF crVars, jobVars, envVars, gVars, objVars, apiVars, opVars
  <2>1. PICK b \in Backups : ReleaseLeaseDelete(b) \/ FinalizeLockDelete(b)
    <3>1. ASSUME NEW b \in Backups, Reconcile(b) \/ APIError(b)
          PROVE  ReleaseLeaseDelete(b)
      BY Zenon, <3>1 DEF Reconcile, Get, RunJobFinalizers, GetCluster,
           FailEarly,
           EnsureFinalizers, CheckDeadlines, FailDeadline, CleanUpFinalizer,
           CleanUpDelete, ReconcileBackupJob, SuspendJob, SuspendStatus,
           ResumeJob, ResumeStatus, AcquireLeaseGet, AcquireLeaseCreate,
           CreateBackupJob, FailCreate, UpdateJobStatus, SideEffects,
           WriteStatus, ReleaseLeaseGet, APIError
    <3>2. ASSUME NEW b \in Backups, RunBackupFinalizers(b)
          PROVE  FinalizeLockDelete(b)
      BY Zenon, <3>2 DEF RunBackupFinalizers, FinalizeDeleteBackup,
           FinalizeLockGet,
                  FinalizeUpdate
    <3>3. \A b \in Backups :
             ~(\/ CreateBackup(b) \/ RemoveBackup(b)
               \/ \E d \in DeadlineKinds : DeadlinePasses(b, d)
               \/ JobController(b) \/ JobExpires(b) \/ CollectJob(b))
      BY Zenon DEF CreateBackup, RemoveBackup, DeadlinePasses, JobController,
             JobStarts, JobFinishes, JobObservesSuspend, JobExpires, CollectJob
    <3>4. ~(LoseReadiness \/ BecomeReady \/ EditCluster \/ Crash)
      BY Zenon DEF LoseReadiness, BecomeReady, EditCluster, Crash
    <3> QED BY Zenon, <3>1, <3>2, <3>3, <3>4 DEF Next
  <2>2. lease = b /\ lease' = NoLease
    BY Zenon, <2>1 DEF ReleaseLeaseDelete, FinalizeLockDelete, LeaseInv,
         DeleterHolds
  <2>3. pc[b] = "releaseDelete" \/ gpc[b] = "lockDelete"
    BY Zenon, <2>1 DEF ReleaseLeaseDelete, FinalizeLockDelete
  <2> QED BY Zenon, <2>2, <2>3
<1> QED BY <1>1, TypeCorrect, LeaseInvHolds, PTL DEF Spec, OnlyHolderReleases

-----------------------------------------------------------------------------
(***************************************************************************)
(* The lease keeps the backups of a cluster apart.                         *)
(***************************************************************************)

\* What keeps a backup from failing under a Job that runs on: no deadline, and
\* no failing call in createBackupJob; and allowParallel stays as it is.
Steady ==
    Deadlines = {} /\ "read" \notin Events /\ "toggle" \notin Events

\* Where a reconcile works with the state it has read.
Reading == {"cluster", "failEarly", "finalizers", "deadlines", "reconcileJob",
            "suspend", "suspendStatus", "resume", "resumeStatus", "acquireGet",
            "acquireCreate", "createJob", "jobStatus"}

\* Where it acts on a Job that it has found.
OnJob == {"suspend", "suspendStatus", "resume", "resumeStatus", "sideEffects",
          "writeStatus"}

Unfinished(b) == Exists(b) /\ ~Finished(b)

\* A backup that does not exist has left nothing.
Unborn(b) ==
    life[b] = "absent" =>
        state[b] = "New" /\ job[b] = NoJob /\ pc[b] = "idle"

\* The branches that Steady rules out.
OnPath(b) ==
    /\ ~view[b].parallel /\ late[b] = {}
    /\ pc[b] \notin {"failDeadline", "failAndClean", "cleanFinalizer",
                     "cleanDelete", "failCreate"}

\* A reconcile that goes on has read no result, and nobody else writes one.
InMemory(b) ==
    /\ pc[b] \in Reading => mem[b] = state[b]
    /\ pc[b] \in Reading \cup OnJob => state[b] \notin Terminal
    /\ pc[b] \in {"sideEffects", "writeStatus"} => mem[b] # "New"
    /\ pc[b] = "jobFinalizers" => state[b] \in Terminal

\* The Job of an active backup exists and is kept.
Guarded(b) ==
    life[b] # "gone" =>
        /\ Exists(b) /\ state[b] \notin Terminal => job[b].keep
        /\ state[b] \in Active \/ pc[b] \in OnJob => Exists(b)

\* Who has an unfinished Job, or is about to create one, holds the lease.
Holds(b) ==
    life[b] = "live" =>
        /\ Unfinished(b) => lease = b
        /\ pc[b] = "createJob" /\ ~(Exists(b) /\ Finished(b)) => lease = b

\* Who is going to release the lease has no unfinished Job.
Releases(b) ==
    \/ pc[b] \in {"sideEffects", "releaseGet", "releaseDelete"}
    \/ pc[b] = "writeStatus" /\ mem[b] \in Terminal
    => ~Unfinished(b)

Excl(b) == Unborn(b) /\ OnPath(b) /\ InMemory(b) /\ Guarded(b) /\ Holds(b)
           /\ Releases(b)

ExclInv == ~cluster.parallel /\ \A b \in Backups : Excl(b)

-----------------------------------------------------------------------------
(***************************************************************************)
(* A step of one backup.                                                   *)
(***************************************************************************)

\* The step is one of b: it leaves the other backups alone, also the lease if
\* one of them has it.
StepOf(b) ==
    /\ \A c \in Backups \ {b} :
           /\ life'[c] = life[c] /\ state'[c] = state[c] /\ job'[c] = job[c]
           /\ late'[c] = late[c] /\ pc'[c] = pc[c] /\ mem'[c] = mem[c]
           /\ view'[c] = view[c]
           /\ lease = c => lease' = c
    /\ cluster'.parallel = cluster.parallel

\* Then only b has to be looked at.
LEMMA OthersKeep ==
    ASSUME ExclInv, NEW b \in Backups, StepOf(b), Excl(b)'
    PROVE  ExclInv'
<1> SUFFICES ASSUME NEW c \in Backups \ {b} PROVE Excl(c)'
  BY Zenon DEF ExclInv, StepOf
<1>1. Excl(c)
  BY Zenon DEF ExclInv
<1> QED BY Zenon, <1>1 DEF StepOf, Excl, Unborn, OnPath, InMemory, Guarded,
     Holds,
                    Releases, Unfinished, Exists, Finished

\* The end of a reconcile.
LEMMA EndPoint ==
    ASSUME TypeOK, NEW b \in Backups, End(b)
    PROVE  /\ pc'[b] = "idle" /\ mem'[b] = "New" /\ ~view'[b].parallel
           /\ \A c \in Backups \ {b} :
                  pc'[c] = pc[c] /\ mem'[c] = mem[c] /\ view'[c] = view[c]
BY Zenon DEF End, Goto, NoView, TypeOK

\* The return of a reconcile: with a result in memory it goes on to release the
\* lease.
LEMMA ReturnPoint ==
    ASSUME TypeOK, NEW b \in Backups, NEW s, Return(b, s), ~view[b].parallel
    PROVE  /\ s \in Terminal => pc'[b] = "releaseGet"
           /\ s \notin Terminal => pc'[b] = "idle"
           /\ ~view'[b].parallel
           /\ \A c \in Backups \ {b} :
                  pc'[c] = pc[c] /\ mem'[c] = mem[c] /\ view'[c] = view[c]
<1>1. CASE s \in Terminal
  BY Zenon, <1>1 DEF Return, Goto, TypeOK
<1>2. CASE s \notin Terminal
  BY Zenon, <1>2, EndPoint DEF Return
<1> QED BY Zenon, <1>1, <1>2

\* A step that moves a reconcile on and changes no object.
LEMMA MovePoint ==
    ASSUME TypeOK, NEW b \in Backups, NEW l, Goto(b, l)
    PROVE  pc'[b] = l /\ \A c \in Backups \ {b} : pc'[c] = pc[c]
BY Zenon DEF Goto, TypeOK

\* A step of a reconcile that changes no object: it stays where the state that
\* was read is in memory, or it ends.
LEMMA QuietMove ==
    ASSUME TypeOK, ExclInv, NEW b \in Backups,
           UNCHANGED <<life, state, job, late, lease, cluster>>,
           \A c \in Backups \ {b} :
               pc'[c] = pc[c] /\ mem'[c] = mem[c] /\ view'[c] = view[c],
           ~view'[b].parallel,
           \/ pc'[b] = "idle" /\ life[b] # "absent"
           \/ /\ pc'[b] = "jobFinalizers" /\ life[b] # "absent"
              /\ state[b] \in Terminal
           \/ /\ pc[b] \in Reading /\ mem'[b] = mem[b]
              /\ pc'[b] \in Reading \ {"suspend", "suspendStatus", "resume",
                                       "resumeStatus", "createJob"}
    PROVE  ExclInv'
<1>1. StepOf(b)
  BY Zenon DEF StepOf
<1>2. Excl(b)
  BY Zenon DEF ExclInv
<1>3. Excl(b)'
  BY Zenon, <1>2 DEF Excl, Unborn, OnPath, InMemory, Guarded, Holds, Releases,
              Unfinished, Exists, Finished, Reading, OnJob
<1> QED BY Zenon, <1>1, <1>3, OthersKeep

\* The reconcile of a steady backup up to the Job keeps the invariant.
LEMMA BeforeJobKeeps ==
    ASSUME Steady, TypeOK, LeaseInv, ExclInv, NEW b \in Backups,
           \/ Get(b) \/ GetCluster(b) \/ EnsureFinalizers(b)
           \/ CheckDeadlines(b) \/ AcquireLeaseGet(b)
    PROVE  ExclInv'
<1> USE DEF crVars, jobVars, envVars, gVars, objVars, apiVars
<1>a. Excl(b) /\ ~cluster.parallel
  BY Zenon DEF ExclInv
<1>b. /\ ~view[b].parallel /\ late[b] = {}
      /\ pc[b] \in Reading => mem[b] = state[b] /\ state[b] \notin Terminal
      /\ life[b] = "absent" => pc[b] = "idle"
  BY Zenon, <1>a DEF Excl, OnPath, InMemory, Unborn
<1>1. CASE Get(b)
  <2>1. /\ UNCHANGED <<life, state, job, late, lease, cluster, view>>
        /\ \A c \in Backups \ {b} : pc'[c] = pc[c] /\ mem'[c] = mem[c]
        /\ life[b] # "absent"
    BY Zenon, <1>1 DEF Get, Goto, TypeOK
  <2>2. CASE pc'[b] = "cluster"
    <3>1. state[b] \notin Terminal /\ mem'[b] = state[b] /\ pc[b] = "idle"
      BY Zenon, <1>1, <2>2 DEF Get, Goto, TypeOK
    <3>2. Excl(b)'
      BY Zenon, <1>a, <2>1, <2>2, <3>1
         DEF Excl, Unborn, OnPath, InMemory, Guarded, Holds, Releases,
             Unfinished, Exists, Finished, Reading, OnJob
    <3>3. StepOf(b)
      BY Zenon, <2>1 DEF StepOf
    <3> QED BY Zenon, <3>2, <3>3, OthersKeep
  <2>3. CASE pc'[b] # "cluster"
    <3>1. \/ pc'[b] = "idle"
          \/ pc'[b] = "jobFinalizers" /\ state[b] \in Terminal
      BY Zenon, <1>1, <2>3 DEF Get, Goto, TypeOK
    <3> QED BY Zenon, <1>b, <2>1, <3>1, QuietMove
  <2> QED BY Zenon, <2>2, <2>3
<1>2. CASE GetCluster(b)
  <2>1. /\ UNCHANGED <<life, state, job, late, lease, cluster, mem>>
        /\ \A c \in Backups \ {b} : pc'[c] = pc[c] /\ view'[c] = view[c]
        /\ pc[b] = "cluster" /\ pc'[b] \in {"finalizers", "failEarly"}
    BY Zenon, <1>2 DEF GetCluster, Goto, TypeOK
  <2>2. view'[b].parallel = cluster.parallel
    BY Zenon, <1>2 DEF GetCluster, TypeOK
  <2> QED BY Zenon, <1>a, <2>1, <2>2, QuietMove DEF Reading
<1>3. CASE EnsureFinalizers(b)
  <2>1. /\ UNCHANGED <<life, state, job, late, lease, cluster>>
        /\ pc[b] = "finalizers"
    BY Zenon, <1>3 DEF EnsureFinalizers
  <2>2. CASE End(b)
    BY Zenon, <1>b, <2>1, <2>2, EndPoint, QuietMove
  <2>3. CASE Goto(b, "deadlines") /\ UNCHANGED <<mem, view>>
    BY <1>b, <2>1, <2>3, MovePoint, QuietMove DEF Reading
  <2> QED BY Zenon, <1>3, <2>2, <2>3 DEF EnsureFinalizers
<1>4. CASE CheckDeadlines(b)
  <2>1. /\ UNCHANGED <<life, state, job, late, lease, cluster>>
        /\ pc[b] = "deadlines"
    BY Zenon, <1>4 DEF CheckDeadlines
  <2>2. CASE Return(b, mem[b])
    BY Zenon, <1>b, <2>1, <2>2, ReturnPoint, QuietMove DEF Reading
  <2>3. CASE Goto(b, "reconcileJob") /\ UNCHANGED <<mem, view>>
    BY <1>b, <2>1, <2>3, MovePoint, QuietMove DEF Reading
  <2> QED BY Zenon, <1>4, <1>b, <2>2, <2>3
          DEF CheckDeadlines, StartingDeadlineExceeded,
              RunningDeadlineExceeded, SuspendedDeadlineExceeded
<1>5. CASE AcquireLeaseGet(b)
  <2>1. /\ UNCHANGED <<life, state, job, late, lease, cluster>>
        /\ pc[b] = "acquireGet"
    BY Zenon, <1>5 DEF AcquireLeaseGet
  <2>2. CASE Return(b, mem[b])
    BY Zenon, <1>b, <2>1, <2>2, ReturnPoint, QuietMove DEF Reading
  <2>3. CASE Goto(b, "acquireCreate") /\ UNCHANGED <<mem, view>>
    BY <1>b, <2>1, <2>3, MovePoint, QuietMove DEF Reading
  <2>4. CASE lease = b /\ Goto(b, "createJob") /\ UNCHANGED <<mem, view>>
    <3>1. pc'[b] = "createJob" /\ \A c \in Backups \ {b} : pc'[c] = pc[c]
      BY Zenon, <2>4, MovePoint
    <3>2. Excl(b)'
      BY Zenon, <1>a, <1>b, <2>1, <2>4, <3>1
         DEF Excl, Unborn, OnPath, InMemory, Guarded, Holds, Releases,
             Unfinished, Exists, Finished, Reading, OnJob
    <3>3. StepOf(b)
      BY Zenon, <2>1, <2>4, <3>1 DEF StepOf
    <3> QED BY Zenon, <3>2, <3>3, OthersKeep
  <2> QED BY Zenon, <1>5, <2>2, <2>3, <2>4 DEF AcquireLeaseGet
<1> QED BY Zenon, <1>1, <1>2, <1>3, <1>4, <1>5

\* A step that may also write the status or change the Job of b keeps the
\* invariant if b itself is all right after it.
LEMMA OwnStep ==
    ASSUME TypeOK, ExclInv, NEW b \in Backups,
           UNCHANGED <<life, late, cluster>>,
           lease' = lease \/ lease \in {b, NoLease},
           \A c \in Backups \ {b} :
               /\ pc'[c] = pc[c] /\ mem'[c] = mem[c] /\ view'[c] = view[c]
               /\ state'[c] = state[c] /\ job'[c] = job[c],
           Excl(b)'
    PROVE  ExclInv'
<1>1. StepOf(b)
  BY Zenon, NoLeaseIsNoBackup DEF StepOf
<1> QED BY Zenon, <1>1, OthersKeep

\* What a write of the status changes.
LEMMA StatusPoint ==
    ASSUME TypeOK, NEW b \in Backups, NEW s,
           UpdateStatus(b, s) \/ UpdateStatusFails(b)
    PROVE  /\ \A c \in Backups \ {b} : state'[c] = state[c]
           /\ \/ life[b] # "gone" /\ state'[b] = s
              \/ state'[b] = state[b]
           /\ UpdateStatus(b, s) => life[b] # "gone" /\ state'[b] = s
BY Zenon DEF UpdateStatus, UpdateStatusFails, TypeOK

\* What suspending and resuming leave of a Job.
LEMMA SuspendPoint ==
    ASSUME NEW j \in Jobs, NEW k \in {Suspending(j), Resuming(j)}
    PROVE  k.phase = j.phase /\ (j.keep => k.keep)
BY Zenon DEF Jobs, Suspending, Resuming

\* What the removal of the finalizer and a deletion leave of it.
LEMMA DeletePoint ==
    ASSUME NEW j \in Jobs, NEW k \in {WithoutKeepJob(j), Deleted(j)}
    PROVE  /\ k.phase \in {j.phase, "none"}
           /\ k = Deleted(j) /\ j.keep => k.phase = j.phase /\ k.keep
<1>1. WithoutKeepJob(j).phase \in {j.phase, "none"}
  BY Zenon DEF Jobs, WithoutKeepJob, NoJob
<1>2. Deleted(j).phase \in {j.phase, "none"}
  BY Zenon DEF Jobs, Deleted, NoJob
<1>3. j.keep => Deleted(j).phase = j.phase /\ Deleted(j).keep
  BY Zenon DEF Jobs, Deleted
<1> QED BY Zenon, <1>1, <1>2, <1>3

\* What its progress and an observed suspension leave of it.
LEMMA ProgressPoint ==
    ASSUME NEW j \in Jobs, NEW p \in JobPhases
    PROVE  /\ InPhase(j, p).phase = p /\ (j.keep => InPhase(j, p).keep)
           /\ ObservedSuspend(j).phase \in {j.phase, "pending"}
           /\ j.keep => ObservedSuspend(j).keep
<1>1. InPhase(j, p).phase = p /\ (j.keep => InPhase(j, p).keep)
  BY Zenon DEF Jobs, InPhase
<1>2. /\ ObservedSuspend(j).phase \in {j.phase, "pending"}
      /\ j.keep => ObservedSuspend(j).keep
  BY Zenon DEF Jobs, ObservedSuspend
<1> QED BY Zenon, <1>1, <1>2

\* AfterReconcileJob keeps the invariant, whether or not the status has been
\* written just before.
LEMMA AfterReconcileJobKeeps ==
    ASSUME TypeOK, ExclInv, NEW b \in Backups, NEW s,
           AfterReconcileJob(b, s),
           UNCHANGED <<life, job, late, lease, cluster>>,
           \A c \in Backups \ {b} : state'[c] = state[c],
           state'[b] = s, s \in {"New"} \cup Active,
           pc[b] \in Reading,
           s # "New" => life[b] = "gone" \/ Exists(b)
    PROVE  ExclInv'
<1>a. Excl(b)
  BY Zenon DEF ExclInv
<1>b. ~view[b].parallel /\ s \notin Terminal
  BY Zenon, <1>a DEF Excl, OnPath, Active, Terminal
<1>c. life[b] # "absent" /\ state[b] \notin Terminal
  BY Zenon, <1>a DEF Excl, Unborn, InMemory, Reading
<1>1. CASE Return(b, s)
  <2>1. /\ pc'[b] = "idle" /\ ~view'[b].parallel
        /\ \A c \in Backups \ {b} :
               pc'[c] = pc[c] /\ mem'[c] = mem[c] /\ view'[c] = view[c]
    BY Zenon, <1>b, <1>1, ReturnPoint
  <2>2. Excl(b)'
    BY Zenon, <1>a, <1>b, <1>c, <2>1
       DEF Excl, Unborn, OnPath, InMemory, Guarded, Holds, Releases,
             Unfinished, Exists, Finished, Reading, OnJob, Active
  <2> QED BY Zenon, <2>1, <2>2, OwnStep
<1>2. CASE ~Return(b, s)
  <2>1. /\ pc'[b] = IF s = "New" THEN "acquireGet" ELSE "createJob"
        /\ mem'[b] = s /\ UNCHANGED view
        /\ \A c \in Backups \ {b} : pc'[c] = pc[c] /\ mem'[c] = mem[c]
    BY Zenon, <1>b, <1>2 DEF AfterReconcileJob, Goto, TypeOK
  <2>2. Excl(b)'
    BY Zenon, <1>a, <1>b, <1>c, <2>1
       DEF Excl, Unborn, OnPath, InMemory, Guarded, Holds, Releases,
             Unfinished, Exists, Finished, Reading, OnJob, Active
  <2> QED BY Zenon, <2>1, <2>2, OwnStep
<1> QED BY Zenon, <1>1, <1>2

\* The steps of a reconcile that suspend and resume a Job keep the invariant.
LEMMA SuspensionKeeps ==
    ASSUME Steady, TypeOK, ExclInv, NEW b \in Backups,
           \/ ReconcileBackupJob(b) \/ SuspendJob(b) \/ SuspendStatus(b)
           \/ ResumeJob(b) \/ ResumeStatus(b)
    PROVE  ExclInv'
<1> USE DEF crVars, jobVars, envVars, gVars, objVars, apiVars
<1>a. Excl(b) /\ job[b] \in Jobs /\ state[b] \in States
  BY Zenon DEF ExclInv, TypeOK
<1>b. /\ ~view[b].parallel
      /\ pc[b] \in Reading => mem[b] = state[b] /\ state[b] \notin Terminal
      /\ pc[b] \in Reading => life[b] # "absent"
  BY Zenon, <1>a DEF Excl, OnPath, InMemory, Unborn, Reading
<1>1. CASE ReconcileBackupJob(b)
  <2>1. /\ UNCHANGED <<life, state, job, late, lease, cluster>>
        /\ pc[b] = "reconcileJob"
    BY Zenon, <1>1 DEF ReconcileBackupJob
  <2>2. CASE AfterReconcileJob(b, mem[b])
    <3>1. mem[b] \in {"New"} \cup Active
      BY Zenon, <1>a, <1>b, <2>1 DEF Reading, States, Active, Terminal
    <3>2. mem[b] # "New" => life[b] = "gone" \/ Exists(b)
      BY Zenon, <1>a, <1>b, <2>1, <3>1 DEF Excl, Guarded, Reading
    <3> QED BY Zenon, <1>b, <2>1, <2>2, <3>1, <3>2, AfterReconcileJobKeeps DEF
         Reading
  <2>3. ASSUME NEW l \in {"suspend", "resume"}, Goto(b, l), Exists(b),
               UNCHANGED <<mem, view>>
        PROVE  ExclInv'
    <3>1. pc'[b] = l /\ \A c \in Backups \ {b} : pc'[c] = pc[c]
      BY Zenon, <2>3, MovePoint
    <3>2. Excl(b)'
      BY Zenon, <1>a, <1>b, <2>1, <2>3, <3>1
         DEF Excl, Unborn, OnPath, InMemory, Guarded, Holds, Releases,
             Unfinished, Exists, Finished, Reading, OnJob
    <3> QED BY Zenon, <2>1, <2>3, <3>1, <3>2, OwnStep
  <2> QED BY Zenon, <1>1, <2>2, <2>3 DEF ReconcileBackupJob, MustSuspend,
       MustResume
<1>2. CASE SuspendJob(b) \/ ResumeJob(b)
  <2>1. /\ UNCHANGED <<life, state, late, lease, cluster>>
        /\ pc[b] \in {"suspend", "resume"}
    BY Zenon, <1>2 DEF SuspendJob, ResumeJob
  <2>2. CASE Return(b, mem[b]) /\ UNCHANGED job
    BY Zenon, <1>b, <2>1, <2>2, ReturnPoint, QuietMove DEF Reading
  <2>3. CASE ~(Return(b, mem[b]) /\ UNCHANGED job)
    <3>1. /\ Exists(b) /\ UNCHANGED <<mem, view>>
          /\ pc'[b] \in {"suspendStatus", "resumeStatus"}
          /\ job'[b] \in {Suspending(job[b]), Resuming(job[b])}
          /\ \A c \in Backups \ {b} : pc'[c] = pc[c] /\ job'[c] = job[c]
      BY Zenon, <1>2, <2>3 DEF SuspendJob, ResumeJob, Goto, TypeOK
    <3>2. job'[b].phase = job[b].phase /\ (job[b].keep => job'[b].keep)
      BY Zenon, <1>a, <3>1, SuspendPoint
    <3>3. Excl(b)'
      BY Zenon, <1>a, <1>b, <2>1, <3>1, <3>2
         DEF Excl, Unborn, OnPath, InMemory, Guarded, Holds, Releases,
             Unfinished, Exists, Finished, Reading, OnJob
    <3> QED BY Zenon, <2>1, <3>1, <3>3, OwnStep
  <2> QED BY Zenon, <2>2, <2>3
<1>3. CASE SuspendStatus(b) \/ ResumeStatus(b)
  <2>1. /\ UNCHANGED <<life, job, late, lease, cluster>>
        /\ pc[b] \in {"suspendStatus", "resumeStatus"}
    BY Zenon, <1>3 DEF SuspendStatus, ResumeStatus
  <2>2. PICK s \in {"Suspended", "Starting"} :
           \/ UpdateStatus(b, s) /\ AfterReconcileJob(b, s)
           \/ UpdateStatusFails(b) /\ Return(b, s)
    BY Zenon, <1>3 DEF SuspendStatus, ResumeStatus
  <2>3. CASE UpdateStatus(b, s) /\ AfterReconcileJob(b, s)
    <3>1. /\ life[b] # "gone" /\ state'[b] = s
          /\ \A c \in Backups \ {b} : state'[c] = state[c]
      BY Zenon, <2>3, StatusPoint
    <3>2. Exists(b)
      BY Zenon, <1>a, <2>1, <3>1 DEF Excl, Guarded, OnJob
    <3> QED BY Zenon, <2>1, <2>3, <3>1, <3>2, AfterReconcileJobKeeps DEF Active,
         Reading
  <2>4. CASE UpdateStatusFails(b) /\ Return(b, s)
    <3>1. UNCHANGED state /\ s \notin Terminal
      BY Zenon, <2>4 DEF UpdateStatusFails, Terminal
    <3> QED BY Zenon, <1>b, <2>1, <2>4, <3>1, ReturnPoint, QuietMove DEF Reading
  <2> QED BY Zenon, <2>2, <2>3, <2>4
<1> QED BY Zenon, <1>1, <1>2, <1>3

\* The steps of a reconcile that take the lease, create the Job, and record what
\* has become of it keep the invariant.
LEMMA JobStepsKeep ==
    ASSUME Steady, TypeOK, ExclInv, NEW b \in Backups,
           \/ FailEarly(b) \/ AcquireLeaseCreate(b) \/ CreateBackupJob(b)
           \/ UpdateJobStatus(b) \/ SideEffects(b) \/ WriteStatus(b)
    PROVE  ExclInv'
<1> USE DEF crVars, jobVars, envVars, gVars, objVars, apiVars
<1>a. Excl(b) /\ job[b] \in Jobs /\ state[b] \in States
  BY Zenon DEF ExclInv, TypeOK
<1>b. /\ ~view[b].parallel /\ late[b] = {}
      /\ pc[b] \in Reading => mem[b] = state[b]
      /\ pc[b] \in Reading \cup OnJob => state[b] \notin Terminal
      /\ pc[b] \in Reading \cup OnJob => life[b] # "absent"
  BY Zenon, <1>a DEF Excl, OnPath, InMemory, Unborn, Reading, OnJob
<1>1. CASE FailEarly(b)
  <2>1. /\ UNCHANGED <<life, job, late, lease, cluster>>
        /\ pc[b] = "failEarly" /\ End(b)
        /\ UpdateStatus(b, "Failed") \/ UpdateStatusFails(b)
    BY Zenon, <1>1 DEF FailEarly
  <2>2. /\ state'[b] \in {"Failed", state[b]}
        /\ \A c \in Backups \ {b} : state'[c] = state[c]
    BY Zenon, <2>1, StatusPoint
  <2>3. /\ pc'[b] = "idle" /\ ~view'[b].parallel
        /\ \A c \in Backups \ {b} :
               pc'[c] = pc[c] /\ mem'[c] = mem[c] /\ view'[c] = view[c]
    BY Zenon, <2>1, EndPoint
  <2>4. Excl(b)'
    BY Zenon, <1>a, <1>b, <2>1, <2>2, <2>3
       DEF Excl, Unborn, OnPath, InMemory, Guarded, Holds, Releases,
             Unfinished, Exists, Finished, Reading, OnJob, Terminal, Active
  <2> QED BY Zenon, <2>1, <2>2, <2>3, <2>4, OwnStep
<1>2. CASE AcquireLeaseCreate(b)
  <2>1. UNCHANGED <<life, state, job, late, cluster>> /\ pc[b] = "acquireCreate"
    BY Zenon, <1>2 DEF AcquireLeaseCreate
  <2>2. CASE UNCHANGED lease /\ Return(b, mem[b])
    BY Zenon, <1>b, <2>1, <2>2, ReturnPoint, QuietMove DEF Reading
  <2>3. CASE /\ lease = NoLease /\ lease' = b
             /\ Goto(b, "createJob") /\ UNCHANGED <<mem, view>>
    <3>1. pc'[b] = "createJob" /\ \A c \in Backups \ {b} : pc'[c] = pc[c]
      BY Zenon, <2>3, MovePoint
    <3>2. Excl(b)'
      BY Zenon, <1>a, <1>b, <2>1, <2>3, <3>1
         DEF Excl, Unborn, OnPath, InMemory, Guarded, Holds, Releases,
             Unfinished, Exists, Finished, Reading, OnJob
    <3> QED BY ZenonT(30), <2>1, <2>3, <3>1, <3>2, OwnStep
  <2> QED BY Zenon, <1>2, <2>2, <2>3 DEF AcquireLeaseCreate
<1>3. CASE CreateBackupJob(b)
  <2>1. /\ UNCHANGED <<life, state, lease, cluster, mem, view>>
        /\ pc[b] = "createJob" /\ JobCreated(b) /\ Goto(b, "jobStatus")
    BY Zenon, <1>3 DEF CreateBackupJob, Happens, Steady
  <2>2. pc'[b] = "jobStatus" /\ \A c \in Backups \ {b} : pc'[c] = pc[c]
    BY Zenon, <2>1, MovePoint
  <2>3. /\ job'[b] = IF Exists(b) THEN job[b] ELSE NewJob
        /\ \A c \in Backups \ {b} : job'[c] = job[c]
    BY Zenon, <2>1 DEF JobCreated, TypeOK
  <2>4. late' = late
    <3>1. \/ late' = late
          \/ late' = [late EXCEPT ![b] = @ \ {"running", "suspended"}]
      BY Zenon, <2>1 DEF JobCreated
    <3>2. late[b] \ {"running", "suspended"} = late[b]
      BY Zenon, <1>b
    <3> QED BY Zenon, <3>1, <3>2 DEF TypeOK
  <2>5. NewJob.phase = "pending" /\ NewJob.keep
    BY Zenon DEF NewJob
  <2>6. Excl(b)'
    BY Zenon, <1>a, <1>b, <2>1, <2>2, <2>3, <2>4, <2>5
       DEF Excl, Unborn, OnPath, InMemory, Guarded, Holds, Releases,
             Unfinished, Exists, Finished, Reading, OnJob
  <2> QED BY Zenon, <2>1, <2>2, <2>3, <2>4, <2>6, OwnStep
<1>4. CASE UpdateJobStatus(b)
  <2>1. /\ UNCHANGED <<life, state, job, late, lease, cluster>>
        /\ pc[b] = "jobStatus"
    BY Zenon, <1>4 DEF UpdateJobStatus
  <2>2. CASE Return(b, mem[b])
    BY ZenonT(30), <1>b, <2>1, <2>2, ReturnPoint, QuietMove DEF Reading
  <2>3. CASE ~Return(b, mem[b])
    <3>1. /\ Exists(b) /\ UNCHANGED view
          /\ mem'[b] = StateFromJob(job[b])
          /\ pc'[b] = IF StateFromJob(job[b]) = "Succeeded"
                      THEN "sideEffects" ELSE "writeStatus"
          /\ \A c \in Backups \ {b} : pc'[c] = pc[c] /\ mem'[c] = mem[c]
      BY Zenon, <1>4, <2>3 DEF UpdateJobStatus, Goto, TypeOK
    <3>2. /\ StateFromJob(job[b]) # "New"
          /\ StateFromJob(job[b]) \in Terminal => Finished(b)
      BY Zenon DEF StateFromJob, Terminal, Finished
    <3>3. Excl(b)'
      BY Zenon, <1>a, <1>b, <2>1, <3>1, <3>2
         DEF Excl, Unborn, OnPath, InMemory, Guarded, Holds, Releases,
             Unfinished, Exists, Finished, Reading, OnJob, Terminal
    <3> QED BY Zenon, <2>1, <3>1, <3>3, OwnStep
  <2> QED BY Zenon, <2>2, <2>3
<1>5. CASE SideEffects(b)
  <2>1. /\ UNCHANGED <<life, state, job, late, lease, cluster>>
        /\ pc[b] = "sideEffects"
    BY Zenon, <1>5 DEF SideEffects
  <2>2. /\ pc'[b] \in {"writeStatus", "releaseGet", "idle"}
        /\ ~view'[b].parallel
        /\ pc'[b] = "writeStatus" => mem' = mem
        /\ \A c \in Backups \ {b} :
               pc'[c] = pc[c] /\ mem'[c] = mem[c] /\ view'[c] = view[c]
    BY Zenon, <1>b, <1>5, MovePoint, ReturnPoint DEF SideEffects
  <2>3. Excl(b)'
    BY Zenon, <1>a, <1>b, <2>1, <2>2
       DEF Excl, Unborn, OnPath, InMemory, Guarded, Holds, Releases,
             Unfinished, Exists, Finished, Reading, OnJob
  <2> QED BY Zenon, <2>1, <2>2, <2>3, OwnStep
<1>6. CASE WriteStatus(b)
  <2>1. /\ UNCHANGED <<life, job, late, lease, cluster>>
        /\ pc[b] = "writeStatus" /\ Return(b, mem[b])
        /\ UpdateStatus(b, mem[b]) \/ UpdateStatusFails(b)
    BY Zenon, <1>6 DEF WriteStatus
  <2>2. /\ \A c \in Backups \ {b} : state'[c] = state[c]
        /\ \/ life[b] # "gone" /\ state'[b] = mem[b]
           \/ state'[b] = state[b]
    BY Zenon, <2>1, StatusPoint
  <2>3. /\ pc'[b] = IF mem[b] \in Terminal THEN "releaseGet" ELSE "idle"
        /\ ~view'[b].parallel
        /\ \A c \in Backups \ {b} :
               pc'[c] = pc[c] /\ mem'[c] = mem[c] /\ view'[c] = view[c]
    BY ZenonT(30), <1>b, <2>1, ReturnPoint
  <2>4. Excl(b)'
    BY Zenon, <1>a, <1>b, <2>1, <2>2, <2>3
       DEF Excl, Unborn, OnPath, InMemory, Guarded, Holds, Releases,
             Unfinished, Exists, Finished, Reading, OnJob, Terminal, Active
  <2> QED BY Zenon, <2>1, <2>2, <2>3, <2>4, OwnStep
<1> QED BY Zenon, <1>1, <1>2, <1>3, <1>4, <1>5, <1>6

\* The end of a backup, where the Job loses its finalizer or the lease is
\* released, keeps the invariant.
LEMMA ReleaseStepsKeep ==
    ASSUME TypeOK, LeaseInv, ExclInv, NEW b \in Backups,
           RunJobFinalizers(b) \/ ReleaseLeaseGet(b) \/ ReleaseLeaseDelete(b)
    PROVE  ExclInv'
<1> USE DEF crVars, jobVars, envVars, gVars, objVars, apiVars
<1>a. Excl(b) /\ job[b] \in Jobs
  BY Zenon DEF ExclInv, TypeOK
<1>b. ~view[b].parallel
  BY Zenon, <1>a DEF Excl, OnPath
<1>1. CASE RunJobFinalizers(b)
  <2>1. /\ UNCHANGED <<life, state, late, lease, cluster>>
        /\ pc[b] = "jobFinalizers" /\ End(b)
        /\ job'[b] \in {job[b], WithoutKeepJob(job[b])}
        /\ \A c \in Backups \ {b} : job'[c] = job[c]
    BY Zenon, <1>1 DEF RunJobFinalizers, TypeOK
  <2>2. /\ pc'[b] = "idle" /\ ~view'[b].parallel
        /\ \A c \in Backups \ {b} :
               pc'[c] = pc[c] /\ mem'[c] = mem[c] /\ view'[c] = view[c]
    BY Zenon, <2>1, EndPoint
  <2>3. job'[b].phase \in {job[b].phase, "none"}
    BY Zenon, <1>a, <2>1, DeletePoint
  <2>4. state[b] \in Terminal /\ life[b] # "absent"
    BY Zenon, <1>a, <2>1 DEF Excl, InMemory, Unborn
  <2>5. Excl(b)'
    BY Zenon, <1>a, <2>1, <2>2, <2>3, <2>4
       DEF Excl, Unborn, OnPath, InMemory, Guarded, Holds, Releases,
             Unfinished, Exists, Finished, Reading, OnJob, Terminal, Active
  <2> QED BY Zenon, <2>1, <2>2, <2>5, OwnStep
<1>2. CASE ReleaseLeaseGet(b)
  <2>1. /\ UNCHANGED <<life, state, job, late, lease, cluster>>
        /\ pc[b] = "releaseGet"
    BY Zenon, <1>2 DEF ReleaseLeaseGet
  <2>2. /\ pc'[b] \in {"releaseDelete", "idle"} /\ ~view'[b].parallel
        /\ \A c \in Backups \ {b} :
               pc'[c] = pc[c] /\ mem'[c] = mem[c] /\ view'[c] = view[c]
    BY Zenon, <1>b, <1>2, MovePoint, EndPoint DEF ReleaseLeaseGet
  <2>3. Excl(b)'
    BY Zenon, <1>a, <2>1, <2>2
       DEF Excl, Unborn, OnPath, InMemory, Guarded, Holds, Releases,
             Unfinished, Exists, Finished, Reading, OnJob
  <2> QED BY Zenon, <2>1, <2>2, <2>3, OwnStep
<1>3. CASE ReleaseLeaseDelete(b)
  <2>1. /\ UNCHANGED <<life, state, job, late, cluster>>
        /\ pc[b] = "releaseDelete" /\ End(b)
    BY Zenon, <1>3 DEF ReleaseLeaseDelete
  <2>2. lease = b
    BY Zenon, <2>1 DEF LeaseInv, DeleterHolds
  <2>3. /\ pc'[b] = "idle" /\ ~view'[b].parallel
        /\ \A c \in Backups \ {b} :
               pc'[c] = pc[c] /\ mem'[c] = mem[c] /\ view'[c] = view[c]
    BY Zenon, <2>1, EndPoint
  <2>4. Excl(b)'
    BY Zenon, <1>a, <2>1, <2>3
       DEF Excl, Unborn, OnPath, InMemory, Guarded, Holds, Releases,
             Unfinished, Exists, Finished, Reading, OnJob
  <2> QED BY Zenon, <2>1, <2>2, <2>3, <2>4, OwnStep
<1> QED BY Zenon, <1>1, <1>2, <1>3

\* A steady reconcile keeps the invariant: the branches for deadlines and failed
\* calls are not taken.
LEMMA ReconcileKeepsExcl ==
    ASSUME Steady, TypeOK, LeaseInv, ExclInv, NEW b \in Backups,
           Reconcile(b) \/ APIError(b)
    PROVE  ExclInv'
<1>1. ~APIError(b)
  BY Zenon DEF APIError, Happens, Steady
<1>2. pc[b] \notin {"failDeadline", "failAndClean", "cleanFinalizer",
                    "cleanDelete", "failCreate"}
  BY Zenon DEF ExclInv, Excl, OnPath
<1>3. ~(FailDeadline(b) \/ CleanUpFinalizer(b)
        \/ CleanUpDelete(b) \/ FailCreate(b))
  BY Zenon, <1>2 DEF FailDeadline, CleanUpFinalizer, CleanUpDelete, FailCreate
<1> QED BY Zenon, <1>1, <1>3, BeforeJobKeeps, SuspensionKeeps, JobStepsKeep,
           ReleaseStepsKeep DEF Reconcile

\* The finalizer goroutine of a deleted backup keeps it: it releases the lease
\* of a backup that is no longer live.
LEMMA FinalizersKeepExcl ==
    ASSUME TypeOK, LeaseInv, ExclInv, NEW b \in Backups, RunBackupFinalizers(b)
    PROVE  ExclInv'
<1> USE DEF crVars, jobVars, envVars, objVars, apiVars
<1>1. gpc[b] # "idle" /\ UNCHANGED <<state, job, late, cluster, pc, mem, view>>
  BY Zenon DEF RunBackupFinalizers, FinalizeDeleteBackup, FinalizeLockGet,
         FinalizeLockDelete, FinalizeUpdate
<1>2. life[b] = "deleting"
  BY Zenon, <1>1 DEF LeaseInv, GoroutineIsAlone
<1>3. /\ life'[b] \in {"deleting", "gone"}
      /\ \A c \in Backups \ {b} : life'[c] = life[c]
  BY Zenon, <1>2 DEF RunBackupFinalizers, FinalizeDeleteBackup, FinalizeLockGet,
         FinalizeLockDelete, FinalizeUpdate, TypeOK
<1>4. lease' = lease \/ lease = b
  BY Zenon DEF RunBackupFinalizers, FinalizeDeleteBackup, FinalizeLockGet,
         FinalizeLockDelete, FinalizeUpdate, LeaseInv, DeleterHolds
<1>5. StepOf(b)
  BY Zenon, <1>1, <1>3, <1>4 DEF StepOf
<1>6. Excl(b)
  BY Zenon DEF ExclInv
<1>7. Excl(b)'
  BY Zenon, <1>1, <1>2, <1>3, <1>6
     DEF Excl, Unborn, OnPath, InMemory, Guarded, Holds, Releases,
             Unfinished, Exists, Finished, Reading, OnJob
<1> QED BY Zenon, <1>5, <1>7, OthersKeep

\* Users, Jobs and time keep it.
LEMMA BackupEnvironmentKeepsExcl ==
    ASSUME Steady, TypeOK, LeaseInv, ExclInv, NEW b \in Backups,
           \/ CreateBackup(b) \/ RemoveBackup(b)
           \/ \E d \in DeadlineKinds : DeadlinePasses(b, d)
           \/ JobController(b) \/ JobExpires(b) \/ CollectJob(b)
    PROVE  ExclInv'
<1> USE DEF crVars, jobVars, envVars, objVars, apiVars, opVars
<1>a. Excl(b) /\ job[b] \in Jobs
  BY Zenon DEF ExclInv, TypeOK
<1>1. CASE CreateBackup(b) \/ RemoveBackup(b)
  <2>1. /\ UNCHANGED <<state, job, late, lease, cluster, pc, mem, view>>
        /\ \A c \in Backups \ {b} : life'[c] = life[c]
        /\ \/ life[b] = "absent"
           \/ life[b] = "live" /\ life'[b] \in {"deleting", "gone"}
    BY Zenon, <1>1 DEF CreateBackup, RemoveBackup, TypeOK
  <2>2. StepOf(b)
    BY Zenon, <2>1 DEF StepOf
  <2>3. NoJob.phase = "none"
    BY Zenon DEF NoJob
  <2>4. life'[b] # "absent"
    BY Zenon, <1>1 DEF CreateBackup, RemoveBackup, TypeOK
  <2>5. Excl(b)'
    BY Zenon, <1>a, <2>1, <2>3, <2>4
       DEF Excl, Unborn, OnPath, InMemory, Guarded, Holds, Releases,
             Unfinished, Exists, Finished, Reading, OnJob, Active
  <2> QED BY Zenon, <2>2, <2>5, OthersKeep
<1>2. ASSUME NEW d \in DeadlineKinds, DeadlinePasses(b, d) PROVE FALSE
  BY Zenon, <1>2 DEF DeadlinePasses, Steady
<1>3. CASE JobStarts(b) \/ JobFinishes(b) \/ JobObservesSuspend(b)
  <2>1. /\ UNCHANGED <<life, state, lease, cluster, pc, mem, view>>
        /\ \A c \in Backups \ {b} : job'[c] = job[c] /\ late'[c] = late[c]
        /\ job[b].phase \in {"pending", "running"}
        /\ job'[b].phase \in {"pending", "running", "complete", "failed"}
        /\ job[b].keep => job'[b].keep
        /\ late[b] = {} => late'[b] = {}
    <3>1. CASE JobStarts(b) \/ JobFinishes(b)
      <4>1. PICK p \in {"running", "complete", "failed"} :
               job' = [job EXCEPT ![b] = InPhase(job[b], p)]
        BY Zenon, <3>1 DEF JobStarts, JobFinishes
      <4>2. job'[b] = InPhase(job[b], p) /\ p \in JobPhases
        BY Zenon, <4>1 DEF TypeOK, JobPhases
      <4>3. job'[b].phase = p /\ (job[b].keep => job'[b].keep)
        BY Zenon, <1>a, <4>2, ProgressPoint
      <4> QED BY Zenon, <3>1, <4>1, <4>3 DEF JobStarts, JobFinishes, TypeOK
    <3>2. CASE JobObservesSuspend(b)
      <4>1. job'[b] = ObservedSuspend(job[b])
        BY ZenonT(30), <3>2 DEF JobObservesSuspend, TypeOK
      <4>2. /\ job'[b].phase \in {job[b].phase, "pending"}
            /\ job[b].keep => job'[b].keep
        BY Zenon, <1>a, <4>1, ProgressPoint DEF JobPhases
      <4>3. late'[b] = late[b] \ {"suspended"}
        BY ZenonT(30), <3>2 DEF JobObservesSuspend, TypeOK
      <4> QED BY Zenon, <3>2, <4>2, <4>3 DEF JobObservesSuspend, TypeOK
    <3> QED BY Zenon, <1>3, <3>1, <3>2
  <2>2. life[b] # "absent"
    <3>1. NoJob.phase = "none"
      BY Zenon DEF NoJob
    <3> QED BY Zenon, <1>a, <2>1, <3>1 DEF Excl, Unborn
  <2>3. StepOf(b)
    BY Zenon, <2>1 DEF StepOf
  <2>4. Excl(b)'
    BY ZenonT(30), <1>a, <2>1, <2>2
       DEF Excl, Unborn, OnPath, InMemory, Guarded, Holds, Releases,
             Unfinished, Exists, Finished, Reading, OnJob
  <2> QED BY Zenon, <2>3, <2>4, OthersKeep
<1>4. CASE JobExpires(b) \/ CollectJob(b)
  <2>1. /\ UNCHANGED <<life, state, late, lease, cluster, pc, mem, view>>
        /\ \A c \in Backups \ {b} : job'[c] = job[c]
        /\ job'[b] = Deleted(job[b])
        /\ Finished(b) \/ life[b] = "gone"
    BY Zenon, <1>4 DEF JobExpires, CollectJob, TypeOK
  <2>2. /\ job'[b].phase \in {job[b].phase, "none"}
        /\ job[b].keep => job'[b].phase = job[b].phase /\ job'[b].keep
    BY Zenon, <1>a, <2>1, DeletePoint
  <2>3. life[b] # "absent"
    <3>1. NoJob.phase = "none"
      BY Zenon DEF NoJob
    <3> QED BY Zenon, <1>a, <2>1, <3>1 DEF Excl, Unborn, Finished
  <2>4. StepOf(b)
    BY Zenon, <2>1 DEF StepOf
  <2>6. /\ state[b] \notin Terminal /\ life[b] # "gone" =>
               job'[b].phase = job[b].phase /\ job'[b].keep
        /\ pc[b] \in Reading \cup OnJob => state[b] \notin Terminal
    BY Zenon, <1>a, <2>1, <2>2 DEF Excl, Guarded, InMemory, Exists, Finished
  <2>7. state[b] \in Active => state[b] \notin Terminal
    BY Zenon DEF Active, Terminal
  <2>8. Unborn(b)' /\ OnPath(b)' /\ InMemory(b)' /\ Releases(b)'
    BY Zenon, <1>a, <2>1, <2>2, <2>3
       DEF Excl, Unborn, OnPath, InMemory, Releases, Unfinished, Exists,
           Finished
  <2>9. Guarded(b)'
    BY Zenon, <1>a, <2>1, <2>6, <2>7 DEF Excl, Guarded, Exists
  <2>10. Holds(b)'
    BY Zenon, <1>a, <2>1, <2>2, <2>6
       DEF Excl, Holds, Unfinished, Exists, Finished, Reading
  <2>5. Excl(b)'
    BY Zenon, <2>8, <2>9, <2>10 DEF Excl
  <2> QED BY Zenon, <2>4, <2>5, OthersKeep
<1> QED BY Zenon, <1>1, <1>2, <1>3, <1>4 DEF JobController

\* So do changes of the cluster, and a crash, after which every reconcile begins
\* anew.
LEMMA ClusterKeepsExcl ==
    ASSUME Steady, TypeOK, ExclInv,
           LoseReadiness \/ BecomeReady \/ EditCluster \/ Crash
    PROVE  ExclInv'
<1> USE DEF crVars, jobVars, envVars, objVars, apiVars, opVars
<1>1. CASE LoseReadiness \/ BecomeReady \/ EditCluster
  <2>1. /\ UNCHANGED <<life, state, job, late, lease, pc, mem, view>>
        /\ cluster'.parallel = cluster.parallel
    BY Zenon, <1>1 DEF LoseReadiness, BecomeReady, EditCluster, Happens, Steady,
         TypeOK
  <2> QED BY Zenon, <2>1 DEF ExclInv, Excl, Unborn, OnPath, InMemory, Guarded,
       Holds,
                      Releases, Unfinished, Exists, Finished
<1>2. CASE Crash
  <2>1. UNCHANGED <<life, state, job, late, lease, cluster>>
    BY Zenon, <1>2 DEF Crash
  <2>2. ~cluster'.parallel
    BY Zenon, <2>1 DEF ExclInv
  <2>3. ASSUME NEW b \in Backups PROVE Excl(b)'
    <3>1. pc'[b] = "idle" /\ view'[b] = NoView
      BY Zenon, <1>2 DEF Crash
    <3>2. ~view'[b].parallel
      BY <3>1 DEF NoView
    <3>3. Excl(b)
      BY Zenon DEF ExclInv
    <3> QED BY Zenon, <2>1, <3>1, <3>2, <3>3
            DEF Excl, Unborn, OnPath, InMemory, Guarded, Holds, Releases,
                Unfinished, Exists, Finished, Reading, OnJob
  <2> QED BY Zenon, <2>2, <2>3 DEF ExclInv
<1> QED BY Zenon, <1>1, <1>2

\* The invariant holds in every state.
LEMMA ExclInvHolds ==
    ASSUME Steady
    PROVE  Spec => []ExclInv
<1>1. Init => ExclInv
  <2> SUFFICES ASSUME Init, NEW b \in Backups PROVE Excl(b) /\ ~cluster.parallel
    BY DEF ExclInv, Init
  <2>1. /\ life[b] = "absent" /\ state[b] = "New" /\ job[b] = NoJob
        /\ late[b] = {} /\ pc[b] = "idle" /\ view[b] = NoView
        /\ ~cluster.parallel
    BY Zenon DEF Init
  <2>2. job[b].phase = "none" /\ ~view[b].parallel
    BY <2>1 DEF NoJob, NoView
  <2>3. ~Exists(b) /\ "New" \notin Active
    BY Zenon, <2>2 DEF Exists, Active
  <2>4. Unborn(b) /\ OnPath(b) /\ InMemory(b)
    BY Zenon, <2>1, <2>2 DEF Unborn, OnPath, InMemory, Reading, OnJob
  <2>5. Guarded(b) /\ Holds(b) /\ Releases(b)
    BY Zenon, <2>1, <2>3 DEF Guarded, Holds, Releases, Unfinished, OnJob
  <2> QED BY Zenon, <2>1, <2>4, <2>5 DEF Excl
<1>2. TypeOK /\ LeaseInv /\ ExclInv /\ [Next]_vars => ExclInv'
  <2> SUFFICES ASSUME TypeOK, LeaseInv, ExclInv, [Next]_vars PROVE ExclInv'
    OBVIOUS
  <2>1. CASE UNCHANGED vars
    BY Zenon, <2>1 DEF vars, ExclInv, Excl, Unborn, OnPath, InMemory, Guarded,
         Holds,
                Releases, Unfinished, Exists, Finished
  <2>2. CASE Next
    BY Zenon, <2>2, ReconcileKeepsExcl, FinalizersKeepExcl, ClusterKeepsExcl,
       BackupEnvironmentKeepsExcl DEF Next
  <2> QED BY Zenon, <2>1, <2>2
<1> QED BY <1>1, <1>2, TypeCorrect, LeaseInvHolds, PTL DEF Spec

\* With allowParallel=false no two live backups have unfinished Jobs at the same
\* time (JobsDoNotOverlap), whatever crashes, deletions, suspensions and failing
\* writes of the status there are; a deadline or a failing call in
\* createBackupJob, which Steady rules out, fails a backup under its Job.
THEOREM JobsApartFromEachOther ==
    ASSUME Steady
    PROVE  Spec => []JobsDoNotOverlap
<1>1. ExclInv => JobsDoNotOverlap
  BY Zenon DEF ExclInv, Excl, Holds, Unfinished, JobsDoNotOverlap
<1> QED BY <1>1, ExclInvHolds, PTL

-----------------------------------------------------------------------------

\* No write of the status and no side effect of a success fails.
Undisturbed == Steady /\ "status" \notin Events /\ "sideEffects" \notin Events

\* A live backup with a Job has the turn until its result is recorded; only a
\* new one takes it, and only an ended one passes it on.
Turn(b) ==
    /\ life[b] = "live" /\ state[b] \notin Terminal =>
           (Exists(b) \/ pc[b] = "createJob" => lease = b)
    /\ pc[b] = "jobStatus" /\ life[b] # "gone" => Exists(b)
    /\ pc[b] \in {"acquireGet", "acquireCreate"} => state[b] = "New"
    /\ pc[b] \in {"releaseGet", "releaseDelete"} =>
           state[b] \in Terminal \/ life[b] = "gone"

TurnInv == \A b \in Backups : Turn(b)

\* Only b has to be looked at after a step of b.
LEMMA OthersKeepTurn ==
    ASSUME TurnInv, NEW b \in Backups, StepOf(b), Turn(b)'
    PROVE  TurnInv'
<1> SUFFICES ASSUME NEW c \in Backups \ {b} PROVE Turn(c)'
  BY Zenon DEF TurnInv
<1>1. Turn(c)
  BY Zenon DEF TurnInv
<1> QED BY <1>1 DEF StepOf, Turn, Exists

\* The steps of a reconcile are steps of its backup.
LEMMA ReconcileIsStepOf ==
    ASSUME TypeOK, LeaseInv, NEW b \in Backups, ~view[b].parallel, Reconcile(b)
    PROVE  StepOf(b)
<1> USE DEF crVars, jobVars, envVars, gVars, objVars, apiVars
<1>1. cluster' = cluster /\ life' = life
  BY Zenon DEF Reconcile, Get, RunJobFinalizers, GetCluster, FailEarly,
         EnsureFinalizers, CheckDeadlines, FailDeadline, CleanUpFinalizer,
         CleanUpDelete, ReconcileBackupJob, SuspendJob, SuspendStatus,
         ResumeJob, ResumeStatus, AcquireLeaseGet, AcquireLeaseCreate,
         CreateBackupJob, FailCreate, UpdateJobStatus, SideEffects,
         WriteStatus, ReleaseLeaseGet, ReleaseLeaseDelete
<1>2. \A c \in Backups \ {b} : lease = c => lease' = c
  BY Zenon, NoLeaseIsNoBackup
     DEF Reconcile, Get, RunJobFinalizers, GetCluster, FailEarly,
         EnsureFinalizers, CheckDeadlines, FailDeadline, CleanUpFinalizer,
         CleanUpDelete, ReconcileBackupJob, SuspendJob, SuspendStatus,
         ResumeJob, ResumeStatus, AcquireLeaseGet, AcquireLeaseCreate,
         CreateBackupJob, FailCreate, UpdateJobStatus, SideEffects,
         WriteStatus, ReleaseLeaseGet, ReleaseLeaseDelete, LeaseInv, DeleterHolds
<1>3. \A c \in Backups \ {b} :
         state'[c] = state[c] /\ job'[c] = job[c] /\ late'[c] = late[c]
  BY Zenon DEF Reconcile, Get, RunJobFinalizers, GetCluster, FailEarly,
         EnsureFinalizers, CheckDeadlines, FailDeadline, CleanUpFinalizer,
         CleanUpDelete, ReconcileBackupJob, SuspendJob, SuspendStatus,
         ResumeJob, ResumeStatus, AcquireLeaseGet, AcquireLeaseCreate,
         CreateBackupJob, JobCreated, FailCreate, UpdateJobStatus, SideEffects,
         WriteStatus, ReleaseLeaseGet, ReleaseLeaseDelete, UpdateStatus,
         UpdateStatusFails, TypeOK
<1>4. \A c \in Backups \ {b} :
         pc'[c] = pc[c] /\ mem'[c] = mem[c] /\ view'[c] = view[c]
  BY Zenon DEF Reconcile, Get, RunJobFinalizers, GetCluster, FailEarly,
         EnsureFinalizers, CheckDeadlines, FailDeadline, CleanUpFinalizer,
         CleanUpDelete, ReconcileBackupJob, SuspendJob, SuspendStatus,
         ResumeJob, ResumeStatus, AcquireLeaseGet, AcquireLeaseCreate,
         CreateBackupJob, FailCreate, UpdateJobStatus, SideEffects,
         WriteStatus, ReleaseLeaseGet, ReleaseLeaseDelete, AfterReconcileJob,
         Return, End, Goto, TypeOK
<1> QED BY Zenon, <1>1, <1>2, <1>3, <1>4 DEF StepOf

\* A step of b that neither begins a stretch Turn speaks of nor brings a Job or
\* a new unfinished state.
LEMMA QuietTurn ==
    ASSUME NEW b \in Backups, Turn(b), life'[b] = life[b], lease' = lease,
           Exists(b)' => Exists(b),
           state'[b] \in Terminal \/ state'[b] = state[b],
           pc'[b] \notin {"createJob", "jobStatus", "acquireGet",
                          "acquireCreate", "releaseGet", "releaseDelete"}
    PROVE  Turn(b)'
BY Zenon DEF Turn

\* AfterReconcileJob keeps the turn of a backup that has its Job.
LEMMA AfterReconcileJobKeepsTurn ==
    ASSUME TypeOK, NEW b \in Backups, ~view[b].parallel, Turn(b), NEW s,
           AfterReconcileJob(b, s), s \notin Terminal,
           UNCHANGED <<life, job, lease>>, state'[b] = s,
           state[b] \notin Terminal,
           s # "New" => life[b] = "gone" \/ Exists(b)
    PROVE  Turn(b)'
<1>1. CASE Return(b, s)
  BY Zenon, <1>1, ReturnPoint DEF Turn, Exists
<1>2. CASE ~Return(b, s)
  <2>1. pc'[b] = IF s = "New" THEN "acquireGet" ELSE "createJob"
    BY Zenon, <1>2 DEF AfterReconcileJob, Goto, TypeOK
  <2> QED BY Zenon, <2>1 DEF Turn, Exists
<1> QED BY Zenon, <1>1, <1>2

\* An undisturbed reconcile keeps the turns.
LEMMA ReconcileKeepsTurn ==
    ASSUME Undisturbed, TypeOK, LeaseInv, ExclInv, TurnInv, NEW b \in Backups,
           Reconcile(b) \/ APIError(b)
    PROVE  TurnInv'
<1> USE DEF crVars, jobVars, envVars, gVars, objVars, apiVars
<1>a. Excl(b) /\ Turn(b) /\ job[b] \in Jobs /\ state[b] \in States
  BY Zenon DEF ExclInv, TurnInv, TypeOK
<1>b. /\ ~view[b].parallel /\ late[b] = {}
      /\ pc[b] \in Reading => mem[b] = state[b]
      /\ pc[b] \in Reading \cup OnJob => state[b] \notin Terminal
      /\ pc[b] = "jobFinalizers" => state[b] \in Terminal
  BY Zenon, <1>a DEF Excl, OnPath, InMemory
<1>c. ~APIError(b)
  BY Zenon DEF APIError, Happens, Undisturbed, Steady
<1>d. StepOf(b)
  BY Zenon, <1>b, <1>c, ReconcileIsStepOf
<1>e. SUFFICES Turn(b)'
  BY Zenon, <1>d, OthersKeepTurn
<1>f. ~(FailDeadline(b) \/ CleanUpFinalizer(b)
        \/ CleanUpDelete(b) \/ FailCreate(b))
  BY Zenon, <1>a DEF FailDeadline, CleanUpFinalizer, CleanUpDelete, FailCreate,
       Excl,
              OnPath
<1>1. CASE Get(b) \/ GetCluster(b)
  <2>1. /\ UNCHANGED <<life, state, job, lease>>
        /\ pc'[b] \in {"idle", "jobFinalizers", "cluster", "finalizers",
                      "failEarly"}
    BY Zenon, <1>1 DEF Get, GetCluster, Goto, TypeOK
  <2> QED BY Zenon, <1>a, <2>1, QuietTurn DEF Exists
<1>2. CASE RunJobFinalizers(b)
  <2>1. /\ UNCHANGED <<life, state, lease>> /\ End(b)
        /\ job'[b] \in {job[b], WithoutKeepJob(job[b])}
    BY Zenon, <1>2 DEF RunJobFinalizers, TypeOK
  <2>2. job'[b].phase \in {job[b].phase, "none"}
    BY Zenon, <1>a, <2>1, DeletePoint
  <2> QED BY Zenon, <1>a, <2>1, <2>2, EndPoint, QuietTurn DEF Exists
<1>3. CASE FailEarly(b)
  <2>1. /\ UNCHANGED <<life, job, lease>> /\ End(b)
        /\ UpdateStatus(b, "Failed") \/ UpdateStatusFails(b)
    BY Zenon, <1>3 DEF FailEarly
  <2>2. state'[b] \in {"Failed", state[b]}
    BY Zenon, <2>1, StatusPoint
  <2> QED BY Zenon, <1>a, <2>1, <2>2, EndPoint, QuietTurn DEF Exists, Terminal
<1>4. CASE EnsureFinalizers(b)
  <2>1. UNCHANGED <<life, state, job, lease>> /\ (End(b) \/ Goto(b, "deadlines"))
    BY Zenon, <1>4 DEF EnsureFinalizers
  <2>2. pc'[b] \in {"idle", "deadlines"}
    BY Zenon, <2>1, EndPoint, MovePoint
  <2> QED BY Zenon, <1>a, <2>1, <2>2, QuietTurn DEF Exists
<1>5. CASE CheckDeadlines(b)
  <2>1. /\ UNCHANGED <<life, state, job, lease>> /\ pc[b] = "deadlines"
        /\ Return(b, mem[b]) \/ Goto(b, "reconcileJob")
    BY Zenon, <1>b, <1>5 DEF CheckDeadlines, StartingDeadlineExceeded,
              RunningDeadlineExceeded, SuspendedDeadlineExceeded
  <2>2. pc'[b] \in {"idle", "reconcileJob"}
    BY Zenon, <1>b, <2>1, ReturnPoint, MovePoint DEF Reading
  <2> QED BY Zenon, <1>a, <2>1, <2>2, QuietTurn DEF Exists
<1>6. CASE ReconcileBackupJob(b)
  <2>1. UNCHANGED <<life, state, job, lease>> /\ pc[b] = "reconcileJob"
    BY Zenon, <1>6 DEF ReconcileBackupJob
  <2>2. CASE AfterReconcileJob(b, mem[b])
    <3>1. mem[b] = state[b] /\ state[b] \notin Terminal
      BY ZenonT(30), <1>b, <2>1 DEF Reading
    <3>2. state[b] # "New" => life[b] = "gone" \/ Exists(b)
      BY Zenon, <1>a, <3>1 DEF Excl, Guarded, States, Active, Terminal
    <3> QED BY Zenon, <1>a, <1>b, <2>1, <2>2, <3>1, <3>2,
         AfterReconcileJobKeepsTurn
  <2>3. CASE Goto(b, "suspend") \/ Goto(b, "resume")
    <3>1. pc'[b] \in {"suspend", "resume"}
      BY Zenon, <2>3, MovePoint
    <3> QED BY Zenon, <1>a, <2>1, <3>1, QuietTurn DEF Exists
  <2> QED BY Zenon, <1>6, <2>2, <2>3 DEF ReconcileBackupJob
<1>7. CASE SuspendJob(b) \/ ResumeJob(b)
  <2>1. /\ UNCHANGED <<life, state, lease>> /\ pc[b] \in {"suspend", "resume"}
        /\ job'[b] \in {job[b], Suspending(job[b]), Resuming(job[b])}
        /\ \/ Return(b, mem[b])
           \/ Goto(b, "suspendStatus") \/ Goto(b, "resumeStatus")
    BY Zenon, <1>7 DEF SuspendJob, ResumeJob, TypeOK
  <2>2. pc'[b] \in {"idle", "suspendStatus", "resumeStatus"}
    BY Zenon, <1>b, <2>1, ReturnPoint, MovePoint DEF Reading
  <2>3. job'[b].phase = job[b].phase
    BY <1>a, <2>1, SuspendPoint
  <2> QED BY Zenon, <1>a, <2>1, <2>2, <2>3, QuietTurn DEF Exists
<1>8. CASE SuspendStatus(b) \/ ResumeStatus(b)
  <2>1. /\ UNCHANGED <<life, job, lease>>
        /\ pc[b] \in {"suspendStatus", "resumeStatus"}
    BY Zenon, <1>8 DEF SuspendStatus, ResumeStatus
  <2>2. PICK s \in {"Suspended", "Starting"} :
           \/ UpdateStatus(b, s) /\ AfterReconcileJob(b, s)
           \/ UpdateStatusFails(b) /\ Return(b, s)
    BY Zenon, <1>8 DEF SuspendStatus, ResumeStatus
  <2>a. s \notin Terminal
    BY Zenon DEF Terminal
  <2>3. CASE UpdateStatus(b, s) /\ AfterReconcileJob(b, s)
    <3>1. life[b] # "gone" /\ state'[b] = s
      BY Zenon, <2>3, StatusPoint
    <3>2. Exists(b) /\ state[b] \notin Terminal
      BY Zenon, <1>a, <1>b, <2>1, <3>1 DEF Excl, Guarded, OnJob
    <3> QED BY Zenon, <1>a, <1>b, <2>1, <2>3, <2>a, <3>1, <3>2,
               AfterReconcileJobKeepsTurn
  <2>4. CASE UpdateStatusFails(b) /\ Return(b, s)
    <3>1. UNCHANGED state /\ pc'[b] = "idle"
      BY Zenon, <1>b, <2>4, <2>a, ReturnPoint DEF UpdateStatusFails
    <3> QED BY Zenon, <1>a, <2>1, <3>1, QuietTurn DEF Exists
  <2> QED BY Zenon, <2>2, <2>3, <2>4
<1>9. CASE AcquireLeaseGet(b) \/ AcquireLeaseCreate(b)
  <2>1. /\ UNCHANGED <<life, state, job>>
        /\ pc[b] \in {"acquireGet", "acquireCreate"}
        /\ \/ Return(b, mem[b]) /\ UNCHANGED lease
           \/ Goto(b, "acquireCreate") /\ UNCHANGED lease
           \/ Goto(b, "createJob") /\ lease' = b
    BY ZenonT(30), <1>9 DEF AcquireLeaseGet, AcquireLeaseCreate
  <2>2. \/ pc'[b] = "idle" /\ UNCHANGED lease
        \/ pc'[b] = "acquireCreate" /\ UNCHANGED lease
        \/ pc'[b] = "createJob" /\ lease' = b
    BY Zenon, <1>b, <2>1, ReturnPoint, MovePoint DEF Reading
  <2> QED BY Zenon, <1>a, <2>1, <2>2 DEF Turn, Exists
<1>10. CASE CreateBackupJob(b)
  <2>1. /\ UNCHANGED <<life, state, lease>>
        /\ pc[b] = "createJob" /\ JobCreated(b) /\ Goto(b, "jobStatus")
    BY Zenon, <1>10 DEF CreateBackupJob, Happens, Undisturbed, Steady
  <2>2. pc'[b] = "jobStatus" /\ job'[b] = IF Exists(b) THEN job[b] ELSE NewJob
    BY Zenon, <2>1 DEF JobCreated, Goto, TypeOK
  <2>3. NewJob.phase = "pending"
    BY Zenon DEF NewJob
  <2> QED BY Zenon, <1>a, <2>1, <2>2, <2>3 DEF Turn, Exists
<1>11. CASE UpdateJobStatus(b)
  <2>1. UNCHANGED <<life, state, job, lease>> /\ pc[b] = "jobStatus"
    BY Zenon, <1>11 DEF UpdateJobStatus
  <2>2. pc'[b] \in {"idle", "sideEffects", "writeStatus"}
    BY Zenon, <1>b, <1>11, <2>1, ReturnPoint DEF UpdateJobStatus, Goto, TypeOK,
         Reading
  <2> QED BY Zenon, <1>a, <2>1, <2>2, QuietTurn DEF Exists
<1>12. CASE SideEffects(b)
  <2>1. UNCHANGED <<life, state, job, lease>> /\ Goto(b, "writeStatus")
    BY Zenon, <1>12 DEF SideEffects, Happens, Undisturbed
  <2> QED BY <1>a, <2>1, MovePoint, QuietTurn DEF Exists
<1>13. CASE WriteStatus(b)
  <2>1. /\ UNCHANGED <<life, job, lease>>
        /\ pc[b] = "writeStatus" /\ Return(b, mem[b])
    BY Zenon, <1>13 DEF WriteStatus
  <2>2. \/ life[b] # "gone" /\ state'[b] = mem[b]
        \/ life[b] = "gone" /\ state'[b] = state[b]
    BY Zenon, <1>13 DEF WriteStatus, UpdateStatus, UpdateStatusFails, Happens,
                 Undisturbed, TypeOK
  <2>3. pc'[b] = IF mem[b] \in Terminal THEN "releaseGet" ELSE "idle"
    BY Zenon, <1>b, <2>1, ReturnPoint
  <2>4. life[b] # "gone" => Exists(b) /\ state[b] \notin Terminal
    BY Zenon, <1>a, <1>b, <2>1 DEF Excl, Guarded, OnJob
  <2> QED BY Zenon, <1>a, <2>1, <2>2, <2>3, <2>4 DEF Turn, Exists
<1>14. CASE ReleaseLeaseGet(b)
  <2>1. UNCHANGED <<life, state, job, lease>> /\ pc[b] = "releaseGet"
    BY Zenon, <1>14 DEF ReleaseLeaseGet
  <2>2. pc'[b] \in {"releaseDelete", "idle"}
    BY Zenon, <1>14, MovePoint, EndPoint DEF ReleaseLeaseGet
  <2> QED BY Zenon, <1>a, <2>1, <2>2 DEF Turn, Exists
<1>15. CASE ReleaseLeaseDelete(b)
  <2>1. UNCHANGED <<life, state, job>> /\ pc[b] = "releaseDelete" /\ End(b)
    BY Zenon, <1>15 DEF ReleaseLeaseDelete
  <2> QED BY Zenon, <1>a, <2>1, EndPoint DEF Turn, Exists
<1> QED BY Zenon, <1>c, <1>f, <1>1, <1>2, <1>3, <1>4, <1>5, <1>6, <1>7, <1>8,
     <1>9,
           <1>10, <1>11, <1>12, <1>13, <1>14, <1>15 DEF Reconcile

\* So do finalizers, users and Jobs.
LEMMA BackupEnvironmentKeepsTurn ==
    ASSUME Undisturbed, TypeOK, LeaseInv, ExclInv, TurnInv, NEW b \in Backups,
           \/ RunBackupFinalizers(b) \/ CreateBackup(b) \/ RemoveBackup(b)
           \/ \E d \in DeadlineKinds : DeadlinePasses(b, d)
           \/ JobController(b) \/ JobExpires(b) \/ CollectJob(b)
    PROVE  TurnInv'
<1> USE DEF crVars, jobVars, envVars, objVars, apiVars, opVars
<1>a. Excl(b) /\ Turn(b) /\ job[b] \in Jobs
  BY Zenon DEF ExclInv, TurnInv, TypeOK
<1>1. CASE RunBackupFinalizers(b)
  <2>1. gpc[b] # "idle" /\ UNCHANGED <<state, job, late, cluster, pc, mem, view>>
    BY Zenon, <1>1 DEF RunBackupFinalizers, FinalizeDeleteBackup,
         FinalizeLockGet,
                FinalizeLockDelete, FinalizeUpdate
  <2>2. life[b] = "deleting"
    BY Zenon, <2>1 DEF LeaseInv, GoroutineIsAlone
  <2>3. /\ life'[b] \in {"deleting", "gone"}
        /\ \A c \in Backups \ {b} : life'[c] = life[c]
    BY Zenon, <1>1, <2>2 DEF RunBackupFinalizers, FinalizeDeleteBackup,
                      FinalizeLockGet, FinalizeLockDelete, FinalizeUpdate, TypeOK
  <2>4. lease' = lease \/ lease = b
    BY Zenon, <1>1 DEF RunBackupFinalizers, FinalizeDeleteBackup,
         FinalizeLockGet,
                FinalizeLockDelete, FinalizeUpdate, LeaseInv, DeleterHolds
  <2>5. StepOf(b)
    BY Zenon, <2>1, <2>3, <2>4 DEF StepOf
  <2>6. Turn(b)'
    BY Zenon, <1>a, <2>1, <2>2, <2>3 DEF Turn, Exists
  <2> QED BY Zenon, <2>5, <2>6, OthersKeepTurn
<1>2. CASE CreateBackup(b) \/ RemoveBackup(b)
  <2>1. /\ UNCHANGED <<state, job, late, lease, cluster, pc, mem, view>>
        /\ \A c \in Backups \ {b} : life'[c] = life[c]
        /\ \/ life[b] = "absent"
           \/ life[b] = "live" /\ life'[b] \in {"deleting", "gone"}
    BY Zenon, <1>2 DEF CreateBackup, RemoveBackup, TypeOK
  <2>2. StepOf(b)
    BY Zenon, <2>1 DEF StepOf
  <2>3. NoJob.phase = "none"
    BY Zenon DEF NoJob
  <2>4. Turn(b)'
    BY Zenon, <1>a, <2>1, <2>3 DEF Excl, Unborn, Turn, Exists
  <2> QED BY Zenon, <2>2, <2>4, OthersKeepTurn
<1>3. ASSUME NEW d \in DeadlineKinds, DeadlinePasses(b, d) PROVE FALSE
  BY Zenon, <1>3 DEF DeadlinePasses, Undisturbed, Steady
<1>4. CASE JobController(b) \/ JobExpires(b) \/ CollectJob(b)
  <2>1. /\ UNCHANGED <<life, state, lease, cluster, pc, mem, view>>
        /\ \A c \in Backups \ {b} : job'[c] = job[c] /\ late'[c] = late[c]
    BY Zenon, <1>4 DEF JobController, JobStarts, JobFinishes,
         JobObservesSuspend,
                JobExpires, CollectJob, TypeOK
  <2>2. StepOf(b)
    BY ZenonT(30), <2>1 DEF StepOf
  <2>3. /\ Exists(b)
        /\ pc[b] = "jobStatus" /\ life[b] # "gone" => Exists(b)'
    <3>1. CASE JobStarts(b) \/ JobFinishes(b)
      <4>1. PICK p \in {"running", "complete", "failed"} :
               job' = [job EXCEPT ![b] = InPhase(job[b], p)]
        BY Zenon, <3>1 DEF JobStarts, JobFinishes
      <4>2. job'[b] = InPhase(job[b], p) /\ p \in JobPhases
        BY Zenon, <4>1 DEF TypeOK, JobPhases
      <4>3. job'[b].phase = p
        BY Zenon, <1>a, <4>2, ProgressPoint
      <4> QED BY Zenon, <3>1, <4>3 DEF JobStarts, JobFinishes, Exists
    <3>2. CASE JobObservesSuspend(b)
      <4>1. job'[b] = ObservedSuspend(job[b])
        BY Zenon, <3>2 DEF JobObservesSuspend, TypeOK
      <4>2. job'[b].phase \in {job[b].phase, "pending"}
        BY Zenon, <1>a, <4>1, ProgressPoint DEF JobPhases
      <4> QED BY Zenon, <3>2, <4>2 DEF JobObservesSuspend, Exists
    <3>3. CASE JobExpires(b) \/ CollectJob(b)
      <4>1. job'[b] = Deleted(job[b]) /\ Exists(b)
        BY Zenon, <3>3 DEF JobExpires, CollectJob, Exists, Finished, TypeOK
      <4>2. job[b].keep => job'[b].phase = job[b].phase
        BY Zenon, <1>a, <4>1, DeletePoint
      <4>3. pc[b] = "jobStatus" => state[b] \notin Terminal
        BY Zenon, <1>a DEF Excl, InMemory, Reading, OnJob
      <4>4. pc[b] = "jobStatus" /\ life[b] # "gone" => job[b].keep
        BY Zenon, <1>a, <4>1, <4>3 DEF Excl, Guarded
      <4> QED BY Zenon, <4>1, <4>2, <4>4 DEF Exists
    <3> QED BY Zenon, <1>4, <3>1, <3>2, <3>3 DEF JobController
  <2>4. Turn(b)'
    BY Zenon, <1>a, <2>1, <2>3 DEF Turn
  <2> QED BY Zenon, <2>2, <2>4, OthersKeepTurn
<1> QED BY Zenon, <1>1, <1>2, <1>3, <1>4

\* Changes of the cluster and a crash touch no turn.
LEMMA ClusterKeepsTurn ==
    ASSUME TurnInv, LoseReadiness \/ BecomeReady \/ EditCluster \/ Crash
    PROVE  TurnInv'
<1>1. /\ UNCHANGED <<life, state, job, lease>>
      /\ \A b \in Backups : pc'[b] = pc[b] \/ pc'[b] = "idle"
  BY Zenon DEF LoseReadiness, BecomeReady, EditCluster, Crash, crVars, jobVars,
         objVars, apiVars, opVars, envVars
<1> QED BY Zenon, <1>1 DEF TurnInv, Turn, Exists

\* The invariant holds in every state of an undisturbed operator.
LEMMA TurnInvHolds ==
    ASSUME Undisturbed
    PROVE  Spec => [](TypeOK /\ LeaseInv /\ ExclInv /\ TurnInv)
<1>1. Steady
  BY Zenon DEF Undisturbed
<1>2. Spec => []ExclInv
  BY Zenon, <1>1, ExclInvHolds
<1>3. Init => TurnInv
  <2>1. NoJob.phase = "none"
    BY Zenon DEF NoJob
  <2> QED BY Zenon, <2>1 DEF Init, TurnInv, Turn, Exists
<1>4. TypeOK /\ LeaseInv /\ ExclInv /\ TurnInv /\ [Next]_vars => TurnInv'
  <2> SUFFICES ASSUME TypeOK, LeaseInv, ExclInv, TurnInv, [Next]_vars
               PROVE  TurnInv'
    OBVIOUS
  <2>1. ASSUME NEW b \in Backups, Reconcile(b) \/ APIError(b) PROVE TurnInv'
    BY Zenon, <2>1, ReconcileKeepsTurn
  <2>2. ASSUME NEW b \in Backups,
               \/ RunBackupFinalizers(b) \/ CreateBackup(b) \/ RemoveBackup(b)
               \/ \E d \in DeadlineKinds : DeadlinePasses(b, d)
               \/ JobController(b) \/ JobExpires(b) \/ CollectJob(b)
        PROVE  TurnInv'
    BY Zenon, <2>2, BackupEnvironmentKeepsTurn
  <2>3. CASE LoseReadiness \/ BecomeReady \/ EditCluster \/ Crash
    BY Zenon, <2>3, ClusterKeepsTurn
  <2>4. CASE UNCHANGED vars
    BY Zenon, <2>4 DEF vars, crVars, jobVars, envVars, objVars, apiVars,
         opVars,
                gVars, TurnInv, Turn, Exists
  <2> QED BY Zenon, <2>1, <2>2, <2>3, <2>4 DEF Next
<1> QED BY <1>2, <1>3, <1>4, TypeCorrect, LeaseInvHolds, PTL DEF Spec

\* The phases of the recorded states.
LEMMA PhaseTable ==
    /\ PhaseOfState["New"] = "waiting" /\ PhaseOfState["Suspended"] = "active"
    /\ PhaseOfState["Starting"] = "active" /\ PhaseOfState["Running"] = "active"
    /\ PhaseOfState["Failed"] = "failed"
    /\ PhaseOfState["Succeeded"] = "succeeded"
BY Zenon DEF PhaseOfState

\* A step of b changes only the phase of b.
LEMMA PhaseStep ==
    ASSUME NEW b \in Backups, StepOf(b)
    PROVE  queuePhase' = [queuePhase EXCEPT ![b] = queuePhase'[b]]
BY Zenon DEF queuePhase, StepOf

\* A step that touches no phase and not the lease is none of the queue.
LEMMA QueueStutters ==
    ASSUME UNCHANGED <<life, state, lease>>
    PROVE  UNCHANGED Queue!vars
BY Zenon DEF queuePhase, Queue!vars

\* A write of the status of an unfinished backup is a step of the queue.
LEMMA StatusIsQueueStep ==
    ASSUME TypeOK, TypeOK', NEW b \in Backups, Excl(b), Turn(b), StepOf(b),
           life' = life, lease' = lease, pc[b] # "idle",
           state[b] \notin Terminal, state'[b] # "New",
           life[b] = "gone" \/ state'[b] = "Failed" \/ Exists(b)
    PROVE  [Queue!Next]_(Queue!vars)
<1>1. state[b] \in States /\ state'[b] \in States /\ life[b] \in Lives
  BY ZenonT(30) DEF TypeOK
<1>2. queuePhase' = [queuePhase EXCEPT ![b] = queuePhase'[b]]
  BY Zenon, PhaseStep
<1>3. life[b] # "absent"
  BY Zenon DEF Excl, Unborn
<1>4. CASE life[b] \in {"deleting", "gone"}
  <2>1. queuePhase'[b] = queuePhase[b]
    BY Zenon, <1>4 DEF queuePhase
  <2>2. queuePhase' = queuePhase
    BY Zenon, <1>2, <2>1 DEF queuePhase
  <2> QED BY Zenon, <2>2 DEF Queue!vars
<1>5. CASE life[b] = "live" /\ state'[b] = "Failed"
  <2>1. queuePhase[b] \in {"waiting", "active"} /\ queuePhase'[b] = "failed"
    BY Zenon, <1>1, <1>5, PhaseTable DEF queuePhase, States, Terminal
  <2>2. Queue!Fail(b)
    BY Zenon, <1>2, <2>1 DEF Queue!Fail
  <2> QED BY Zenon, <2>2 DEF Queue!Next
<1>6. CASE life[b] = "live" /\ state'[b] # "Failed"
  <2>1. lease = b
    BY Zenon, <1>6 DEF Turn
  <2>2. CASE state'[b] = "Succeeded"
    <3>1. queuePhase[b] \in {"waiting", "active"} /\ queuePhase'[b] = "succeeded"
      BY Zenon, <1>1, <1>6, <2>2, PhaseTable DEF queuePhase, States, Terminal
    <3>2. Queue!Succeed(b)
      BY Zenon, <1>2, <2>1, <3>1 DEF Queue!Succeed
    <3> QED BY Zenon, <3>2 DEF Queue!Next
  <2>3. CASE state'[b] \in Active /\ state[b] = "New"
    <3>1. queuePhase[b] = "waiting" /\ queuePhase'[b] = "active"
      BY Zenon, <1>1, <1>6, <2>3, PhaseTable DEF queuePhase, States, Active
    <3>2. Queue!Begin(b)
      BY Zenon, <1>2, <2>1, <3>1 DEF Queue!Begin
    <3> QED BY Zenon, <3>2 DEF Queue!Next
  <2>4. CASE state'[b] \in Active /\ state[b] \in Active
    <3>1. queuePhase'[b] = queuePhase[b]
      BY Zenon, <1>1, <1>6, <2>4, PhaseTable DEF queuePhase, States, Active
    <3>2. queuePhase' = queuePhase
      BY Zenon, <1>2, <3>1 DEF queuePhase
    <3> QED BY Zenon, <3>2 DEF Queue!vars
  <2> QED BY Zenon, <1>1, <1>6, <2>2, <2>3, <2>4 DEF States, Active, Terminal
<1> QED BY Zenon, <1>1, <1>3, <1>4, <1>5, <1>6 DEF Lives

\* Every step of an undisturbed operator is a step of the queue or none.
LEMMA StepIsQueueStep ==
    ASSUME Undisturbed, TypeOK, TypeOK', LeaseInv, ExclInv, TurnInv, [Next]_vars
    PROVE  [Queue!Next]_(Queue!vars)
<1> USE DEF crVars, jobVars, envVars, gVars, objVars, apiVars, opVars
<1>1. ASSUME NEW b \in Backups, Reconcile(b)
      PROVE  [Queue!Next]_(Queue!vars)
  <2>a. Excl(b) /\ Turn(b) /\ state[b] \in States
    BY Zenon DEF ExclInv, TurnInv, TypeOK
  <2>b. /\ ~view[b].parallel
        /\ pc[b] \in Reading \cup OnJob => state[b] \notin Terminal
    BY Zenon, <2>a DEF Excl, OnPath, InMemory
  <2>c. StepOf(b)
    BY Zenon, <1>1, <2>b, ReconcileIsStepOf
  <2>1. CASE FailEarly(b)
    <3>1. /\ UNCHANGED <<life, lease>> /\ pc[b] = "failEarly"
          /\ UpdateStatus(b, "Failed") \/ UpdateStatusFails(b)
      BY Zenon, <2>1 DEF FailEarly
    <3>2. CASE UpdateStatus(b, "Failed")
      <4>1. state'[b] = "Failed" /\ state[b] \notin Terminal
        BY Zenon, <2>b, <3>1, <3>2, StatusPoint DEF Reading
      <4> QED BY Zenon, <2>a, <2>c, <3>1, <4>1, StatusIsQueueStep
    <3>3. CASE UpdateStatusFails(b)
      BY Zenon, <3>1, <3>3, QueueStutters DEF UpdateStatusFails
    <3> QED BY Zenon, <3>1, <3>2, <3>3
  <2>2. CASE SuspendStatus(b) \/ ResumeStatus(b)
    <3>1. UNCHANGED <<life, lease>> /\ pc[b] \in {"suspendStatus", "resumeStatus"}
      BY Zenon, <2>2 DEF SuspendStatus, ResumeStatus
    <3>2. PICK s \in {"Suspended", "Starting"} :
             UpdateStatus(b, s) \/ UpdateStatusFails(b)
      BY Zenon, <2>2 DEF SuspendStatus, ResumeStatus
    <3>3. CASE UpdateStatus(b, s)
      <4>1. /\ state'[b] = s /\ state[b] \notin Terminal
            /\ life[b] = "gone" \/ Exists(b)
        BY Zenon, <2>a, <2>b, <3>1, <3>3, StatusPoint DEF OnJob, Excl, Guarded
      <4>2. s # "New" /\ pc[b] # "idle"
        BY Zenon, <3>1
      <4> QED BY Zenon, <2>a, <2>c, <3>1, <4>1, <4>2, StatusIsQueueStep
    <3>4. CASE UpdateStatusFails(b)
      BY Zenon, <3>1, <3>4, QueueStutters DEF UpdateStatusFails
    <3> QED BY Zenon, <3>2, <3>3, <3>4
  <2>3. CASE WriteStatus(b)
    <3>1. /\ UNCHANGED <<life, lease>> /\ pc[b] = "writeStatus"
          /\ UpdateStatus(b, mem[b]) \/ UpdateStatusFails(b)
      BY Zenon, <2>3 DEF WriteStatus
    <3>2. CASE UpdateStatus(b, mem[b])
      <4>1. /\ state'[b] = mem[b] /\ state[b] \notin Terminal /\ mem[b] # "New"
            /\ life[b] = "gone" \/ Exists(b)
        BY Zenon, <2>a, <2>b, <3>1, <3>2, StatusPoint
           DEF OnJob, Excl, Guarded, InMemory
      <4> QED BY Zenon, <2>a, <2>c, <3>1, <4>1, StatusIsQueueStep
    <3>3. CASE UpdateStatusFails(b)
      BY Zenon, <3>1, <3>3, QueueStutters DEF UpdateStatusFails
    <3> QED BY Zenon, <3>1, <3>2, <3>3
  <2>4. CASE AcquireLeaseCreate(b)
    <3>1. UNCHANGED <<life, state>> /\ pc[b] = "acquireCreate"
      BY Zenon, <2>4 DEF AcquireLeaseCreate
    <3>2. queuePhase' = queuePhase
      BY Zenon, <3>1 DEF queuePhase
    <3>3. queuePhase[b] \in {"waiting", "withdrawn"}
      BY Zenon, <2>a, <3>1, PhaseTable DEF Turn, queuePhase
    <3>4. lease' = lease \/ (lease = NoLease /\ lease' = b)
      BY Zenon, <2>4 DEF AcquireLeaseCreate
    <3>5. CASE lease' = lease
      BY Zenon, <3>1, <3>5, QueueStutters
    <3>6. CASE lease = NoLease /\ lease' = b
      <4>1. Queue!Take(b)
        BY Zenon, <3>2, <3>3, <3>6 DEF Queue!Take
      <4> QED BY Zenon, <4>1 DEF Queue!Next
    <3> QED BY Zenon, <3>4, <3>5, <3>6
  <2>5. CASE ReleaseLeaseDelete(b)
    <3>1. UNCHANGED <<life, state>> /\ pc[b] = "releaseDelete"
      BY Zenon, <2>5 DEF ReleaseLeaseDelete
    <3>2. queuePhase' = queuePhase
      BY Zenon, <3>1 DEF queuePhase
    <3>3. queuePhase[b] \in Queue!Ended /\ lease = b
      BY Zenon, <2>a, <3>1, PhaseTable
         DEF Turn, queuePhase, Queue!Ended, Terminal, LeaseInv, DeleterHolds
    <3>4. lease' = lease \/ lease' = NoLease
      BY Zenon, <2>5 DEF ReleaseLeaseDelete
    <3>5. CASE lease' = lease
      BY Zenon, <3>1, <3>5, QueueStutters
    <3>6. CASE lease' = NoLease
      <4>1. Queue!PassOn(b)
        BY Zenon, <3>2, <3>3, <3>6 DEF Queue!PassOn
      <4> QED BY Zenon, <4>1 DEF Queue!Next
    <3> QED BY Zenon, <3>4, <3>5, <3>6
  <2>6. CASE \/ Get(b) \/ RunJobFinalizers(b) \/ GetCluster(b)
             \/ EnsureFinalizers(b) \/ CheckDeadlines(b) \/ ReconcileBackupJob(b)
             \/ SuspendJob(b) \/ ResumeJob(b) \/ AcquireLeaseGet(b)
             \/ CreateBackupJob(b) \/ UpdateJobStatus(b) \/ SideEffects(b)
             \/ ReleaseLeaseGet(b)
    <3>1. UNCHANGED <<life, state, lease>>
      BY Zenon, <2>6 DEF Get, RunJobFinalizers, GetCluster, EnsureFinalizers,
                  CheckDeadlines, ReconcileBackupJob, SuspendJob, ResumeJob,
                  AcquireLeaseGet, CreateBackupJob, UpdateJobStatus,
                  SideEffects, ReleaseLeaseGet
    <3> QED BY Zenon, <3>1, QueueStutters
  <2>7. ~(FailDeadline(b) \/ CleanUpFinalizer(b)
          \/ CleanUpDelete(b) \/ FailCreate(b))
    BY Zenon, <2>a DEF FailDeadline, CleanUpFinalizer, CleanUpDelete,
         FailCreate, Excl,
                OnPath
  <2> QED BY Zenon, <1>1, <2>1, <2>2, <2>3, <2>4, <2>5, <2>6, <2>7 DEF
       Reconcile
<1>2. ASSUME NEW b \in Backups, RunBackupFinalizers(b)
      PROVE  [Queue!Next]_(Queue!vars)
  <2>1. gpc[b] # "idle" /\ state' = state
    BY Zenon, <1>2 DEF RunBackupFinalizers, FinalizeDeleteBackup,
         FinalizeLockGet,
                FinalizeLockDelete, FinalizeUpdate
  <2>2. life[b] = "deleting"
    BY Zenon, <2>1 DEF LeaseInv, GoroutineIsAlone
  <2>3. /\ life'[b] \in {"deleting", "gone"}
        /\ \A c \in Backups \ {b} : life'[c] = life[c]
    BY Zenon, <1>2, <2>2 DEF RunBackupFinalizers, FinalizeDeleteBackup,
                      FinalizeLockGet, FinalizeLockDelete, FinalizeUpdate, TypeOK
  <2>4. queuePhase' = queuePhase /\ queuePhase[b] = "withdrawn"
    BY Zenon, <2>1, <2>2, <2>3 DEF queuePhase
  <2>5. lease' = lease \/ (lease = b /\ lease' = NoLease)
    BY Zenon, <1>2 DEF RunBackupFinalizers, FinalizeDeleteBackup,
         FinalizeLockGet,
                FinalizeLockDelete, FinalizeUpdate, LeaseInv, DeleterHolds
  <2>6. CASE lease' = lease
    BY Zenon, <2>4, <2>6 DEF Queue!vars
  <2>7. CASE lease = b /\ lease' = NoLease
    <3>1. Queue!PassOn(b)
      BY Zenon, <2>4, <2>7 DEF Queue!PassOn, Queue!Ended
    <3> QED BY Zenon, <3>1 DEF Queue!Next
  <2> QED BY Zenon, <2>5, <2>6, <2>7
<1>3. ASSUME NEW b \in Backups, CreateBackup(b)
      PROVE  [Queue!Next]_(Queue!vars)
  <2>1. /\ UNCHANGED <<state, lease>> /\ life[b] = "absent" /\ life'[b] = "live"
        /\ \A c \in Backups \ {b} : life'[c] = life[c]
    BY Zenon, <1>3 DEF CreateBackup, TypeOK
  <2>2. queuePhase' = queuePhase
    BY Zenon, <2>1 DEF queuePhase
  <2> QED BY Zenon, <2>1, <2>2 DEF Queue!vars
<1>4. ASSUME NEW b \in Backups, RemoveBackup(b)
      PROVE  [Queue!Next]_(Queue!vars)
  <2>1. /\ UNCHANGED <<state, lease>> /\ life'[b] \in {"deleting", "gone"}
        /\ \A c \in Backups \ {b} : life'[c] = life[c]
    BY Zenon, <1>4 DEF RemoveBackup, TypeOK
  <2>2. queuePhase' = [queuePhase EXCEPT ![b] = "withdrawn"]
    BY Zenon, <2>1 DEF queuePhase
  <2>3. Queue!Withdraw(b)
    BY Zenon, <2>1, <2>2 DEF Queue!Withdraw
  <2> QED BY Zenon, <2>3 DEF Queue!Next
<1>5. CASE \/ LoseReadiness \/ BecomeReady \/ EditCluster \/ Crash
           \/ UNCHANGED vars
           \/ \E b \in Backups :
                  \/ APIError(b) \/ JobController(b) \/ JobExpires(b)
                  \/ CollectJob(b)
                  \/ \E d \in DeadlineKinds : DeadlinePasses(b, d)
  <2>1. UNCHANGED <<life, state, lease>>
    BY Zenon, <1>5 DEF LoseReadiness, BecomeReady, EditCluster, Crash, vars,
         APIError,
                JobController, JobStarts, JobFinishes, JobObservesSuspend,
                JobExpires, CollectJob, DeadlinePasses
  <2> QED BY Zenon, <2>1, QueueStutters
<1> QED BY Zenon, <1>1, <1>2, <1>3, <1>4, <1>5 DEF Next

\* With allowParallel=false an operator whose writes of the status and side
\* effects of a success do not fail runs any number of backups one after the
\* other, as BackupQueue says: whatever the crashes, deletions, suspensions and
\* failing releases of the lease.
THEOREM RunsBackupsInTurn ==
    ASSUME Undisturbed
    PROVE  Spec => ImplementsBackupQueue
<1>1. Init => Queue!Init
  <2> SUFFICES ASSUME Init PROVE Queue!Init
    OBVIOUS
  <2>1. /\ life = [b \in Backups |-> "absent"]
        /\ state = [b \in Backups |-> "New"] /\ lease = NoLease
    BY Zenon DEF Init
  <2> QED BY Zenon, <2>1, PhaseTable DEF Queue!Init, queuePhase
<1>2. /\ TypeOK /\ LeaseInv /\ ExclInv /\ TurnInv /\ TypeOK' /\ [Next]_vars
      => [Queue!Next]_(Queue!vars)
  BY Zenon, StepIsQueueStep
<1>3. Spec => [](TypeOK /\ LeaseInv /\ ExclInv /\ TurnInv)
  BY Zenon, TurnInvHolds
<1> QED BY <1>1, <1>2, <1>3, PTL DEF Spec, ImplementsBackupQueue, Queue!Spec
=============================================================================
