---------------------------- MODULE RestoreProofs ----------------------------
(***************************************************************************)
(* Restores of a cluster work one at a time, overwrite the data only while *)
(* nothing uses it, and succeed with what they promise: for any number of  *)
(* restores, any size of the cluster and any sets of environment events.   *)
(***************************************************************************)
EXTENDS RestoreController, TLAPS

\* The types, and who has a claim on the cluster.
Inv == TypeOK /\ ClaimInv

(***************************************************************************)
(* Type correctness.                                                       *)
(***************************************************************************)

\* The values built from others have the types of the variables they go to.
LEMMA StatusesType ==
    ASSUME NEW st \in Statuses
    PROVE  /\ \A s \in States : InState(st, s) \in Statuses /\ InState(st, s).state = s
           /\ \A c \in Specs : Saving(st, c) \in Statuses
           /\ \A b \in BOOLEAN : /\ [st EXCEPT !.completed = b] \in Statuses
                                 /\ [st EXCEPT !.completed = b].state = st.state
<1>1. \A s \in States : InState(st, s) \in Statuses /\ InState(st, s).state = s
  BY Zenon DEF Statuses, InState
<1>2. \A c \in Specs : Saving(st, c) \in Statuses
  BY Zenon DEF Statuses, Saving, Specs, Saved, States, Working
<1>3. \A b \in BOOLEAN : /\ [st EXCEPT !.completed = b] \in Statuses
                         /\ [st EXCEPT !.completed = b].state = st.state
  BY Zenon DEF Statuses
<1> QED BY Zenon, <1>1, <1>2, <1>3

\* So do the values a reconcile starts from.
LEMMA ConstantsType ==
    /\ NoStatus \in Statuses
    /\ SpecAtFirst \in Specs
    /\ SeenAtFirst \in Seen
    /\ NoView \in Views
<1>1. NoStatus \in Statuses
  BY RestoreAssumption DEF NoStatus, Statuses, States, Saved
<1>2. SpecAtFirst \in Specs
  BY RestoreAssumption DEF SpecAtFirst, Specs, Flags
<1>3. SeenAtFirst \in Seen
  BY RestoreAssumption DEF SeenAtFirst, Seen
<1> QED BY Zenon, <1>1, <1>2, <1>3 DEF NoView, Views

\* Returning from a reconcile, with or without another state.
LEMMA ReturnType ==
    ASSUME TypeOK, NEW r \in Restores, NEW s \in States,
           Return(r) \/ ReturnIn(r, s)
    PROVE  /\ pc' \in [Restores -> PCs]
           /\ mem' \in [Restores -> Statuses]
<1>1. mem[r] \in Statuses /\ InState(mem[r], s) \in Statuses
  BY Zenon, StatusesType DEF TypeOK
<1>2. pc' = [pc EXCEPT ![r] = "setStatus"]
  BY Zenon DEF Return, ReturnIn, Goto
<1>3. pc' \in [Restores -> PCs]
  BY Zenon, <1>2 DEF TypeOK, PCs
<1>4. mem' = mem \/ mem' = [mem EXCEPT ![r] = InState(mem[r], s)]
  BY Zenon DEF Return, ReturnIn
<1> QED BY Zenon, <1>1, <1>3, <1>4 DEF TypeOK

\* Creating a Job, which leaves one that exists alone.
LEMMA JobType ==
    ASSUME TypeOK, NEW r \in Restores, NEW k \in JobKinds, CreateJob(r, k)
    PROVE  /\ job' \in [Restores -> [JobKinds -> JobPhases]]
           /\ kept' \in [Restores -> SUBSET JobKinds]
<1>1. job[r] \in [JobKinds -> JobPhases] /\ "active" \in JobPhases
  BY Zenon DEF TypeOK, JobPhases
<1>2. InPhase(job[r], k, "active") \in [JobKinds -> JobPhases]
  BY Zenon, <1>1 DEF InPhase
<1>3. CASE job[r][k] = "none"
  <2>1. /\ job' = [job EXCEPT ![r] = InPhase(job[r], k, "active")]
        /\ kept' = [kept EXCEPT ![r] = kept[r] \cup {k}]
    BY Zenon, <1>3 DEF CreateJob
  <2>2. job' \in [Restores -> [JobKinds -> JobPhases]]
    BY Zenon, <1>2, <2>1 DEF TypeOK
  <2>3. kept[r] \cup {k} \in SUBSET JobKinds
    BY Zenon DEF TypeOK
  <2>4. kept' \in [Restores -> SUBSET JobKinds]
    BY Zenon, <2>1, <2>3 DEF TypeOK
  <2> QED BY Zenon, <2>2, <2>4
<1>4. CASE job[r][k] # "none"
  BY Zenon, <1>4 DEF CreateJob, jobVars, TypeOK
<1> QED BY Zenon, <1>3, <1>4

\* Updating the cluster object.
LEMMA UpdateType ==
    ASSUME TypeOK, NEW s \in Specs, UpdateCluster(s)
    PROVE  /\ spec' \in Specs
           /\ seen' \in Seen
           /\ ctlFresh' \in BOOLEAN
           /\ UNCHANGED <<replicas, pods, volumes, data, ctl, ctlSpec>>
<1>1. [seen EXCEPT !.current = FALSE] \in Seen
  BY Zenon DEF TypeOK, Seen
<1> QED BY Zenon, <1>1 DEF UpdateCluster, TypeOK

\* A step of a reconcile keeps the types.
LEMMA ReconcileType ==
    ASSUME Inv, NEW r \in Restores, Reconcile(r) \/ APIError(r), events' = events
    PROVE  TypeOK'
<1> USE DEF jobVars, clusterVars, ctlVars
<1>a. /\ TypeOK /\ events' = events
      /\ mem[r] \in Statuses /\ status[r] \in Statuses /\ view[r] \in Views
  BY Zenon DEF Inv, TypeOK
<1>b. \A s \in States : InState(mem[r], s) \in Statuses /\ InState(status[r], s) \in Statuses
  BY Zenon, <1>a, StatusesType
<1>s. {"Failed", "StopCluster", "Restore", "PITR", "PrepareCluster", "StartCluster",
       "Succeeded", "Starting", "New"} \subseteq States
  BY Zenon DEF States, Finished, Working
<1>1. CASE Get(r)
  BY Zenon, <1>1, <1>a, <1>b, <1>s DEF Get, Goto, TypeOK, PCs
<1>2. CASE RunJobFinalizers(r)
  BY Zenon, <1>2, <1>a DEF RunJobFinalizers, Goto, TypeOK, PCs
<1>3. CASE CheckOthers(r)
  BY Zenon, <1>3, <1>a, <1>s, ReturnType DEF CheckOthers, Goto, TypeOK, PCs
<1>4. CASE GetCluster(r)
  <2>1. mem[r].state \in {"Starting"} \cup Working
    BY Zenon, <1>4 DEF GetCluster, Inv, ClaimInv
  <2>2. HandlerOf(mem[r].state) \in PCs
    BY Zenon, <2>1 DEF HandlerOf, PCs, Working
  <2>3. [spec |-> spec, seen |-> seen] \in Views
    BY Zenon, <1>a DEF TypeOK, Views
  <2> QED BY Zenon, <1>4, <1>a, <1>s, <2>2, <2>3, ReturnType DEF GetCluster,
       Goto, TypeOK
<1>5. CASE ReconcileStateNew(r)
  <2>1. Saving(mem[r], view[r].spec) \in Statuses
    BY Zenon, <1>a, StatusesType DEF Views
  <2> QED BY Zenon, <1>5, <1>a, <1>s, <2>1, ReturnType DEF ReconcileStateNew,
       Goto, TypeOK, PCs
<1>6. CASE PauseCluster(r)
  <2>1. [spec EXCEPT !.pause = @ \/ ~view[r].spec.pause] \in Specs
    BY Zenon, <1>a DEF TypeOK, Specs, Views
  <2> QED BY Zenon, <1>6, <1>a, <2>1, UpdateType DEF PauseCluster, Goto, TypeOK,
       PCs
<1>7. CASE WaitForPodsShutdown(r)
  BY Zenon, <1>7, <1>a, <1>s, ReturnType DEF WaitForPodsShutdown, Goto, TypeOK,
       PCs
<1>8. CASE DeleteVolumes(r)
  BY Zenon, <1>8, <1>a DEF DeleteVolumes, Goto, TypeOK, PCs
<1>9. CASE WaitForPVCShutdown(r)
  BY Zenon, <1>9, <1>a, <1>s, ReturnType DEF WaitForPVCShutdown, Goto, TypeOK,
       PCs
<1>10. CASE CreateRestoreJob(r)
  <2>1. "restore" \in JobKinds
    BY Zenon DEF JobKinds
  <2> QED BY Zenon, <1>10, <1>a, <1>s, <2>1, ReturnType, JobType DEF
       CreateRestoreJob,
       TypeOK
<1>11. CASE ReconcileStateRestore(r)
  BY Zenon, <1>11, <1>a, <1>s, ReturnType DEF ReconcileStateRestore, Goto,
       TypeOK, PCs
<1>12. CASE UnpauseOne(r)
  <2>1. [pause |-> FALSE, size |-> 1, proxy |-> 0, unsafe |-> Flags] \in Specs
    BY RestoreAssumption DEF Specs
  <2> QED BY Zenon, <1>12, <1>a, <1>s, <2>1, UpdateType, ReturnType DEF
       UnpauseOne, TypeOK
<1>13. CASE CreatePITRJob(r)
  <2>1. "pitr" \in JobKinds
    BY Zenon DEF JobKinds
  <2> QED BY Zenon, <1>13, <1>a, <1>s, <2>1, ReturnType, JobType DEF
       CreatePITRJob,
       TypeOK
<1>14. CASE ReconcileStatePITR(r)
  BY Zenon, <1>14, <1>a, <1>s, ReturnType DEF ReconcileStatePITR, TypeOK
<1>15. CASE ReconcileStatePrepareCluster(r)
  <2>1. "prepare" \in JobKinds
    BY Zenon DEF JobKinds
  <2> QED BY Zenon, <1>15, <1>a, <1>s, <2>1, ReturnType, JobType
          DEF ReconcileStatePrepareCluster, TypeOK
<1>16. CASE ReconcileStateStartCluster(r)
  BY Zenon, <1>16, <1>a, <1>s, ReturnType DEF ReconcileStateStartCluster, Goto,
       TypeOK,
       PCs
<1>17. CASE UnpauseCluster(r)
  <2>1. [pause |-> FALSE, size |-> mem[r].saved.size, proxy |-> mem[r].saved.proxy,
         unsafe |-> mem[r].saved.unsafe] \in Specs
    BY Zenon, <1>a DEF Specs, Statuses, Saved
  <2> QED BY Zenon, <1>17, <1>a, <1>s, <2>1, UpdateType, ReturnType DEF
       UnpauseCluster, TypeOK
<1>18. CASE SetStatus(r)
  <2>1. (mem[r].completed \/ status[r].state = "Succeeded") \in BOOLEAN
    BY Zenon, <1>a DEF Statuses
  <2>2. [mem[r] EXCEPT !.completed = mem[r].completed \/ status[r].state = "Succeeded"]
            \in Statuses
    BY Zenon, <1>a, <2>1, StatusesType
  <2> QED BY Zenon, <1>18, <1>a, <2>2, ConstantsType DEF SetStatus, TypeOK, PCs
<1>19. CASE APIError(r)
  BY Zenon, <1>19, <1>a, <1>s, ReturnType DEF APIError, TypeOK
<1> QED BY Zenon, <1>1, <1>2, <1>3, <1>4, <1>5, <1>6, <1>7, <1>8, <1>9, <1>10,
     <1>11,
     <1>12,
           <1>13, <1>14, <1>15, <1>16, <1>17, <1>18, <1>19 DEF Reconcile

\* So does every step.
LEMMA NextType ==
    ASSUME Inv, [Next]_vars
    PROVE  TypeOK'
<1> USE DEF jobVars, clusterVars, ctlVars
<1>a. TypeOK /\ events' = events
  BY Zenon DEF Inv, Next, vars
<1>1. ASSUME NEW r \in Restores, Reconcile(r) \/ APIError(r)
      PROVE  TypeOK'
  BY Zenon, <1>1, <1>a, ReconcileType
<1>2. ASSUME NEW r \in Restores, CreateRestore(r)
      PROVE  TypeOK'
  <2>1. InState(status[r], "New") \in Statuses
    BY Zenon, <1>a, StatusesType DEF TypeOK, States
  <2> QED BY Zenon, <1>2, <1>a, <2>1 DEF CreateRestore, TypeOK
<1>3. ASSUME NEW r \in Restores, NEW k \in JobKinds, JobEnds(r, k)
      PROVE  TypeOK'
  <2>1. job[r] \in [JobKinds -> JobPhases]
    BY Zenon, <1>a DEF TypeOK
  <2>2. \A p \in JobPhases : InPhase(job[r], k, p) \in [JobKinds -> JobPhases]
    BY Zenon, <2>1 DEF InPhase
  <2>3. {"failed", "complete"} \subseteq JobPhases
    BY Zenon DEF JobPhases
  <2>4. job' \in [Restores -> [JobKinds -> JobPhases]]
    BY Zenon, <1>3, <1>a, <2>2, <2>3 DEF JobEnds, TypeOK
  <2>5. data' \in Data
    BY <1>3, <1>a DEF JobEnds, TypeOK, Data, Stages, JobKinds
  <2> QED BY Zenon, <1>3, <1>a, <2>4, <2>5 DEF JobEnds, TypeOK
<1>4. ASSUME NEW r \in Restores, NEW k \in JobKinds, JobExpires(r, k)
      PROVE  TypeOK'
  <2>1. job[r] \in [JobKinds -> JobPhases] /\ "none" \in JobPhases
    BY Zenon, <1>a DEF TypeOK, JobPhases
  <2>2. InPhase(job[r], k, "none") \in [JobKinds -> JobPhases]
    BY Zenon, <2>1 DEF InPhase
  <2> QED BY Zenon, <1>4, <1>a, <2>2 DEF JobExpires, TypeOK
<1>5. CASE ClusterSteps
  <2>1. CASE ControllerReads
    BY Zenon, <2>1, <1>a DEF ControllerReads, TypeOK
  <2>2. CASE ControllerApplies
    BY <2>2, <1>a, RestoreAssumption DEF ControllerApplies, TypeOK, Specs
  <2>3. CASE ControllerObserves
    BY Zenon, <2>3, <1>a, ConstantsType DEF ControllerObserves, TypeOK, Specs,
         Seen
  <2>4. CASE PodStops
    BY <2>4, <1>a, RestoreAssumption DEF PodStops, TypeOK
  <2>5. CASE PodStarts
    BY <2>5, <1>a, RestoreAssumption DEF PodStarts, TypeOK
  <2> QED BY Zenon, <1>5, <2>1, <2>2, <2>3, <2>4, <2>5 DEF ClusterSteps
<1>6. CASE Crash
  BY Zenon, <1>6, <1>a, ConstantsType DEF Crash, TypeOK, PCs
<1>7. CASE UNCHANGED vars
  BY Zenon, <1>7, <1>a DEF vars, stepVars, TypeOK
<1> QED BY Zenon, <1>1, <1>2, <1>3, <1>4, <1>5, <1>6, <1>7 DEF Next, Step

(***************************************************************************)
(* Claims.                                                                 *)
(***************************************************************************)

\* A step that leaves the recorded states alone and in which only r moves keeps
\* the claims if r gets none it did not have.
LEMMA LocalStepKeepsClaims ==
    ASSUME ClaimInv, NEW r \in Restores,
           status' = status,
           \A o \in Restores \ {r} : pc'[o] = pc[o] /\ mem'[o] = mem[o],
           HasClaim(r)' => HasClaim(r),
           pc'[r] \notin {"idle", "finalizers"} => InProgress(r),
           pc'[r] \notin {"others", "cluster"}
    PROVE  ClaimInv'
<1>1. \A o \in Restores : HasClaim(o)' => HasClaim(o)
  BY Zenon DEF HasClaim, HasPassed
<1>2. \A o \in Restores : InProgress(o)' = InProgress(o)
  BY Zenon DEF InProgress
<1> QED BY Zenon, <1>1, <1>2 DEF ClaimInv

\* The same for a step from a label behind the check: r has a claim.
LEMMA HandlerStepKeepsClaims ==
    ASSUME Inv, NEW r \in Restores,
           status' = status,
           pc[r] \notin {"idle", "finalizers", "others", "setStatus"},
           NEW l \in PCs \ {"idle", "finalizers", "others", "cluster"},
           pc' = [pc EXCEPT ![r] = l],
           \A o \in Restores \ {r} : mem'[o] = mem[o]
    PROVE  ClaimInv'
<1>1. HasClaim(r) /\ InProgress(r)
  BY Zenon DEF Inv, ClaimInv, HasClaim, HasPassed
<1>2. pc'[r] = l /\ \A o \in Restores \ {r} : pc'[o] = pc[o]
  BY Zenon DEF Inv, TypeOK
<1> QED BY Zenon, <1>1, <1>2, LocalStepKeepsClaims DEF Inv

\* A restore with a claim is in progress for the others.
LEMMA ClaimsAreInProgress ==
    ASSUME ClaimInv, NEW r \in Restores, HasClaim(r)
    PROVE  InProgress(r)
BY Zenon DEF ClaimInv, HasClaim, HasPassed, InProgress, Working, Finished

\* Every step of a reconcile keeps the claims. A claim is gained in CheckOthers
\* alone, when no other restore is in progress.
LEMMA ReconcileClaims ==
    ASSUME Inv, NEW r \in Restores, Reconcile(r) \/ APIError(r)
    PROVE  ClaimInv'
<1> DEFINE behind == pc[r] \notin {"idle", "finalizers", "others", "setStatus"}
<1>a. TypeOK /\ ClaimInv /\ mem[r] \in Statuses /\ status[r] \in Statuses
  BY Zenon DEF Inv, TypeOK
<1>m. \A v : mem' \in {mem, [mem EXCEPT ![r] = v]}
                => \A o \in Restores \ {r} : mem'[o] = mem[o]
  BY Zenon, <1>a DEF TypeOK
<1>1. CASE Get(r)
  <2>1. status' = status /\ \A o \in Restores \ {r} : pc'[o] = pc[o] /\ mem'[o] = mem[o]
    BY Zenon, <1>1, <1>a DEF Get, Goto, TypeOK
  <2>2. CASE status[r].state \in Finished
    <3>1. pc'[r] = "finalizers" /\ mem' = mem
      BY Zenon, <1>1, <2>2, <1>a DEF Get, Goto, TypeOK
    <3>2. HasClaim(r)' => HasClaim(r)
      BY Zenon, <2>1, <3>1 DEF HasClaim, HasPassed
    <3> QED BY Zenon, <1>a, <2>1, <3>1, <3>2, LocalStepKeepsClaims
  <2>3. CASE status[r].state \notin Finished
    <3>1. pc'[r] = "others" /\ InProgress(r)
      BY Zenon, <1>1, <2>3, <1>a DEF Get, Goto, TypeOK, InProgress
    <3>2. mem'[r] = IF status[r].state = "New" THEN InState(status[r], "Starting")
                    ELSE status[r]
      BY Zenon, <1>1, <2>3, <1>a DEF Get, TypeOK
    <3>3. InState(status[r], "Starting").state = "Starting"
      BY Zenon, <1>a, StatusesType DEF States
    <3>4. status[r].state \in {"New", "Starting"} \cup Working
      BY Zenon, <3>1, <1>a DEF InProgress, Statuses, States
    <3>5. mem'[r].state \in {status[r].state, "Starting"}
          /\ mem'[r].state \in {"Starting"} \cup Working
      BY Zenon, <3>2, <3>3, <3>4
    <3>6. \A o \in Restores : HasClaim(o)' => HasClaim(o)
      BY Zenon, <2>1, <3>1 DEF HasClaim, HasPassed
    <3>7. \A o \in Restores : InProgress(o)' = InProgress(o)
      BY Zenon, <2>1 DEF InProgress
    <3> QED BY Zenon, <1>a, <2>1, <3>1, <3>5, <3>6, <3>7 DEF ClaimInv
  <2> QED BY Zenon, <2>2, <2>3
<1>2. CASE RunJobFinalizers(r)
  <2>1. /\ status' = status /\ mem' = mem
        /\ pc[r] = "finalizers"
        /\ pc' = pc \/ pc' = [pc EXCEPT ![r] = "idle"]
    BY Zenon, <1>2 DEF RunJobFinalizers, Goto
  <2>2. pc'[r] \in {"idle", "finalizers"} /\ \A o \in Restores \ {r} : pc'[o] = pc[o]
    BY Zenon, <2>1, <1>a DEF TypeOK
  <2>3. HasClaim(r)' => HasClaim(r)
    BY Zenon, <2>1, <2>2 DEF HasClaim, HasPassed
  <2> QED BY Zenon, <1>a, <2>1, <2>2, <2>3, LocalStepKeepsClaims
<1>3. CASE CheckOthers(r)
  <2>0. pc[r] = "others" /\ status' = status /\ InProgress(r)
    BY Zenon, <1>3, <1>a DEF CheckOthers, ClaimInv
  <2>1. CASE OtherRestoreInProgress(r)
    <3>1. ReturnIn(r, "Failed")
      BY Zenon, <1>3, <2>1 DEF CheckOthers
    <3>2. /\ pc'[r] = "setStatus"
          /\ mem'[r] = InState(mem[r], "Failed")
          /\ \A o \in Restores \ {r} : pc'[o] = pc[o] /\ mem'[o] = mem[o]
      BY Zenon, <3>1, <1>a DEF ReturnIn, Goto, TypeOK
    <3>3. mem'[r].state = "Failed"
      BY <3>2, <1>a, StatusesType DEF States, Finished
    <3>4. HasClaim(r)' => HasClaim(r)
      BY Zenon, <2>0, <3>2, <3>3 DEF HasClaim, HasPassed, Working
    <3> QED BY Zenon, <1>a, <2>0, <3>2, <3>4, LocalStepKeepsClaims
  <2>2. CASE ~OtherRestoreInProgress(r)
    <3>1. /\ pc'[r] = "cluster" /\ mem' = mem
          /\ \A o \in Restores \ {r} : pc'[o] = pc[o]
      BY Zenon, <1>3, <2>2, <1>a DEF CheckOthers, Goto, TypeOK
    <3>2. \A o \in Restores \ {r} : ~HasClaim(o)
      BY Zenon, <2>2, <1>a, ClaimsAreInProgress DEF OtherRestoreInProgress
    <3>3. \A o \in Restores \ {r} : ~HasClaim(o)'
      BY Zenon, <2>0, <3>1, <3>2 DEF HasClaim, HasPassed
    <3>4. \A o \in Restores : InProgress(o)' = InProgress(o)
      BY Zenon, <2>0 DEF InProgress
    <3> QED BY Zenon, <1>a, <2>0, <3>1, <3>3, <3>4 DEF ClaimInv
  <2> QED BY Zenon, <2>1, <2>2
<1>4. CASE SetStatus(r)
  <2>1. /\ pc[r] = "setStatus" /\ pc'[r] = "idle"
        /\ \A o \in Restores \ {r} : pc'[o] = pc[o] /\ mem'[o] = mem[o]
    BY Zenon, <1>4, <1>a DEF SetStatus, TypeOK
  <2>2. CASE status' = status
    <3>1. HasClaim(r)' => HasClaim(r)
      BY Zenon, <2>1, <2>2 DEF HasClaim, HasPassed
    <3> QED BY Zenon, <1>a, <2>1, <2>2, <3>1, LocalStepKeepsClaims
  <2>3. CASE status' = [status EXCEPT ![r] =
                 [mem[r] EXCEPT !.completed =
                     mem[r].completed \/ status[r].state = "Succeeded"]]
    <3>1. (mem[r].completed \/ status[r].state = "Succeeded") \in BOOLEAN
      BY Zenon, <1>a DEF Statuses
    <3>2. status'[r].state = mem[r].state
      BY Zenon, <1>a, <2>3, <3>1, StatusesType DEF TypeOK
    <3>3. \A o \in Restores \ {r} : status'[o] = status[o]
      BY Zenon, <1>a, <2>3 DEF TypeOK
    <3>4. HasClaim(r)' => HasClaim(r)
      BY Zenon, <2>1, <3>2 DEF HasClaim, HasPassed
    <3>5. \A o \in Restores \ {r} : /\ HasClaim(o)' => HasClaim(o)
                                    /\ InProgress(o)' = InProgress(o)
      BY Zenon, <2>1, <3>3 DEF HasClaim, HasPassed, InProgress
    <3> QED BY Zenon, <1>a, <2>1, <3>3, <3>4, <3>5 DEF ClaimInv
  <2> QED BY Zenon, <1>4, <2>2, <2>3 DEF SetStatus
<1>5. CASE APIError(r) /\ pc[r] = "others"
  <2>1. /\ status' = status /\ mem' = mem /\ pc'[r] = "setStatus"
        /\ \A o \in Restores \ {r} : pc'[o] = pc[o]
    BY Zenon, <1>5, <1>a DEF APIError, Return, Goto, TypeOK
  <2>2. mem[r].state \in {status[r].state, "Starting"} /\ InProgress(r)
    BY Zenon, <1>5, <1>a DEF ClaimInv
  <2>3. HasClaim(r)' => HasClaim(r)
    BY Zenon, <2>1, <2>2 DEF HasClaim, HasPassed, Working
  <2> QED BY Zenon, <1>a, <2>1, <2>2, <2>3, LocalStepKeepsClaims
<1> DEFINE Moves ==
             /\ status' = status /\ behind
             /\ \E l \in PCs \ {"idle", "finalizers", "others", "cluster"} :
                    pc' = [pc EXCEPT ![r] = l]
             /\ \E v : mem' \in {mem, [mem EXCEPT ![r] = v]}
<1>6. Moves => ClaimInv'
  <2> SUFFICES ASSUME Moves PROVE ClaimInv'
    BY Zenon
  <2>1. PICK l \in PCs \ {"idle", "finalizers", "others", "cluster"} :
            pc' = [pc EXCEPT ![r] = l]
    BY Zenon
  <2>2. \A o \in Restores \ {r} : mem'[o] = mem[o]
    BY <1>m
  <2>3. status' = status /\ behind
    OBVIOUS
  <2> HIDE DEF Moves
  <2> QED BY Zenon, <2>1, <2>2, <2>3, HandlerStepKeepsClaims
<1>7. CASE GetCluster(r)
  <2>1. mem[r].state \in {"Starting"} \cup Working
    BY Zenon, <1>7, <1>a DEF GetCluster, ClaimInv
  <2>2. HandlerOf(mem[r].state) \in PCs \ {"idle", "finalizers", "others", "cluster"}
    BY Zenon, <2>1 DEF HandlerOf, PCs, Working
  <2>3. Moves
    BY Zenon, <1>7, <2>2 DEF GetCluster, Goto, ReturnIn, PCs
  <2> QED BY Zenon, <1>6, <2>3
<1>8. CASE ReconcileStateNew(r)
  <2>1. Moves
    BY Zenon, <1>8 DEF ReconcileStateNew, Goto, Return, ReturnIn, PCs
  <2> QED BY Zenon, <1>6, <2>1
<1>9. CASE PauseCluster(r)
  <2>1. Moves
    BY Zenon, <1>9 DEF PauseCluster, Goto, Return, ReturnIn, PCs
  <2> QED BY Zenon, <1>6, <2>1
<1>10. CASE WaitForPodsShutdown(r)
  <2>1. Moves
    BY Zenon, <1>10 DEF WaitForPodsShutdown, Goto, Return, ReturnIn, PCs
  <2> QED BY Zenon, <1>6, <2>1
<1>11. CASE DeleteVolumes(r)
  <2>1. Moves
    BY Zenon, <1>11 DEF DeleteVolumes, Goto, Return, ReturnIn, PCs
  <2> QED BY Zenon, <1>6, <2>1
<1>12. CASE WaitForPVCShutdown(r)
  <2>1. Moves
    BY Zenon, <1>12 DEF WaitForPVCShutdown, Goto, Return, ReturnIn, PCs
  <2> QED BY Zenon, <1>6, <2>1
<1>13. CASE CreateRestoreJob(r)
  <2>1. Moves
    BY Zenon, <1>13 DEF CreateRestoreJob, Goto, Return, ReturnIn, PCs
  <2> QED BY Zenon, <1>6, <2>1
<1>14. CASE ReconcileStateRestore(r)
  <2>1. Moves
    BY Zenon, <1>14 DEF ReconcileStateRestore, Goto, Return, ReturnIn, PCs
  <2> QED BY Zenon, <1>6, <2>1
<1>15. CASE UnpauseOne(r)
  <2>1. Moves
    BY Zenon, <1>15 DEF UnpauseOne, Goto, Return, ReturnIn, PCs
  <2> QED BY Zenon, <1>6, <2>1
<1>16. CASE CreatePITRJob(r)
  <2>1. Moves
    BY Zenon, <1>16 DEF CreatePITRJob, Goto, Return, ReturnIn, PCs
  <2> QED BY Zenon, <1>6, <2>1
<1>17. CASE ReconcileStatePITR(r)
  <2>1. Moves
    BY Zenon, <1>17 DEF ReconcileStatePITR, Goto, Return, ReturnIn, PCs
  <2> QED BY Zenon, <1>6, <2>1
<1>18. CASE ReconcileStatePrepareCluster(r)
  <2>1. Moves
    BY Zenon, <1>18 DEF ReconcileStatePrepareCluster, Goto, Return, ReturnIn,
         PCs
  <2> QED BY Zenon, <1>6, <2>1
<1>19. CASE ReconcileStateStartCluster(r)
  <2>1. Moves
    BY Zenon, <1>19 DEF ReconcileStateStartCluster, Goto, Return, ReturnIn, PCs
  <2> QED BY Zenon, <1>6, <2>1
<1>20. CASE UnpauseCluster(r)
  <2>1. Moves
    BY Zenon, <1>20 DEF UnpauseCluster, Goto, Return, ReturnIn, PCs
  <2> QED BY Zenon, <1>6, <2>1
<1>21. CASE APIError(r) /\ pc[r] # "others"
  <2>1. Moves
    BY Zenon, <1>21 DEF APIError, Goto, Return, PCs
  <2> QED BY Zenon, <1>6, <2>1
<1> QED BY Zenon, <1>1, <1>2, <1>3, <1>4, <1>5, <1>7, <1>8, <1>9, <1>10, <1>11,
     <1>12,
     <1>13, <1>14, <1>15, <1>16, <1>17, <1>18, <1>19, <1>20, <1>21
       DEF Reconcile

\* Claims hold at first, and every step keeps them.
LEMMA InvInductive ==
    /\ Init => Inv
    /\ Inv /\ [Next]_vars => Inv'
<1>1. ASSUME Init PROVE Inv
  <2>1. \A r \in Restores : pc[r] = "idle" /\ status[r].state = "absent"
    BY Zenon, <1>1 DEF Init, NoStatus
  <2>2. ClaimInv
    BY Zenon, <2>1 DEF ClaimInv, HasClaim, HasPassed, Working
  <2>3. TypeOK
    BY <1>1, ConstantsType, RestoreAssumption
       DEF Init, TypeOK, PCs, Data, Stages, JobPhases
  <2> QED BY Zenon, <2>2, <2>3 DEF Inv
<1>2. ASSUME Inv, [Next]_vars PROVE ClaimInv'
  <2>a. TypeOK /\ ClaimInv
    BY Zenon, <1>2 DEF Inv
  <2>1. ASSUME NEW r \in Restores, Reconcile(r) \/ APIError(r)
        PROVE  ClaimInv'
    BY Zenon, <1>2, <2>1, ReconcileClaims
  <2>2. ASSUME NEW r \in Restores, CreateRestore(r)
        PROVE  ClaimInv'
    <3>1. /\ status[r].state = "absent" /\ pc' = pc /\ mem' = mem
          /\ status'[r] = InState(status[r], "New")
          /\ \A o \in Restores \ {r} : status'[o] = status[o]
      BY Zenon, <2>2, <2>a DEF CreateRestore, TypeOK
    <3>2. status'[r].state = "New"
      BY <3>1, <2>a, StatusesType DEF TypeOK, States
    <3>3. pc[r] \in {"idle", "finalizers"}
      BY Zenon, <3>1, <2>a DEF ClaimInv, InProgress
    <3>4. \A o \in Restores : HasClaim(o)' => HasClaim(o)
      BY Zenon, <3>1, <3>2 DEF HasClaim, HasPassed, Working
    <3>5. \A o \in Restores \ {r} : InProgress(o)' = InProgress(o)
      BY Zenon, <3>1 DEF InProgress
    <3> QED BY Zenon, <2>a, <3>1, <3>3, <3>4, <3>5 DEF ClaimInv
  <2>3. CASE Crash
    <3>1. status' = status /\ \A r \in Restores : pc'[r] = "idle"
      BY Zenon, <2>3 DEF Crash
    <3>2. \A r \in Restores : HasClaim(r)' => HasClaim(r)
      BY Zenon, <3>1 DEF HasClaim, HasPassed
    <3> QED BY Zenon, <2>a, <3>1, <3>2 DEF ClaimInv
  <2>4. ASSUME UNCHANGED <<status, pc, mem>>
        PROVE  ClaimInv'
    BY Zenon, <2>4, <2>a DEF ClaimInv, HasClaim, HasPassed, InProgress
  <2>5. ASSUME NEW r \in Restores, NEW k \in JobKinds, JobEnds(r, k) \/ JobExpires(r, k)
        PROVE  ClaimInv'
    BY Zenon, <2>4, <2>5 DEF JobEnds, JobExpires
  <2>6. CASE ClusterSteps
    BY Zenon, <2>4, <2>6 DEF ClusterSteps, ControllerReads, ControllerApplies,
                      ControllerObserves, PodStops, PodStarts
  <2>7. CASE UNCHANGED vars
    BY Zenon, <2>4, <2>7 DEF vars, stepVars
  <2> QED BY Zenon, <1>2, <2>1, <2>2, <2>3, <2>5, <2>6, <2>7 DEF Next, Step
<1> QED BY Zenon, <1>1, <1>2, NextType DEF Inv

(***************************************************************************)
(* Theorems.                                                               *)
(***************************************************************************)

\* Every variable keeps its type: in particular the switch of Reconcile always
\* finds a handler for the state of a restore.
THEOREM RestoreTypeCorrect == Spec => []TypeOK
<1>1. Inv => TypeOK
  BY Zenon DEF Inv
<1> QED BY <1>1, InvInductive, PTL DEF Spec

\* Two restores of a cluster never work on it at the same time, although each
\* reads the states of the others long before it writes its own.
THEOREM OneAtATime == Spec => []OneRestoreWorks
<1>1. Inv => OneRestoreWorks
  BY Zenon DEF Inv, ClaimInv, HasClaim, OneRestoreWorks
<1> QED BY <1>1, InvInductive, PTL DEF Spec

(***************************************************************************)
(* What the restores and the cluster know of each other.                   *)
(***************************************************************************)

\* The part of the specification that a restore saves; that of the first
\* cluster and that of the cluster a recovery runs in; the replicas asked for.
Shape(s) == [size |-> s.size, proxy |-> s.proxy, unsafe |-> s.unsafe]
Orig == Shape(SpecAtFirst)
One == [size |-> 1, proxy |-> 0, unsafe |-> Flags]
Want(s) == IF s.pause THEN 0 ELSE s.size

\* What Get reads into memory.
Loaded(r) == IF status[r].state = "New" THEN InState(status[r], "Starting")
             ELSE status[r]

\* The calls in the states StopCluster and Restore.
StopLabels    == {"pause", "podsGone", "deleteVolumes", "volumesGone", "createJob"}
RestoreLabels == {"restoring", "unpauseOne", "createPITR"}

\* The labels at which the cluster that was read is still the current one.
ViewLabels == {"new", "pause", "restoring", "unpauseOne", "createPITR", "recovering",
               "preparing", "starting", "unpause"}

\* A reconcile works on the status it has read, in the handler of its state.
MemOK(r) ==
    /\ pc[r] \notin {"idle", "finalizers", "setStatus"} => mem[r] = Loaded(r)
    /\ pc[r] = "new" => mem[r].state = "Starting"
    /\ pc[r] \in StopLabels => mem[r].state = "StopCluster"
    /\ pc[r] \in RestoreLabels => mem[r].state = "Restore"
    /\ pc[r] = "recovering" => mem[r].state = "PITR"
    /\ pc[r] = "preparing" => mem[r].state = "PrepareCluster"
    /\ pc[r] \in {"starting", "unpause"} => mem[r].state = "StartCluster"
    /\ pc[r] = "setStatus" =>
           /\ status[r].state \in Working => mem[r].saved = status[r].saved
           /\ mem[r].state = "Succeeded" => status[r].state = "StartCluster"

MemInv == \A r \in Restores : MemOK(r)

\* The cluster's reconciler: what it has applied, and what its status says.
CtlInv ==
    /\ ctl # "idle" /\ ctlFresh => ctlSpec = spec
    /\ ctl = "observe" => replicas = Want(ctlSpec)
    /\ seen.current =>
           /\ replicas = Want(spec) /\ seen.proxy = spec.proxy
           /\ ctl # "idle" => ctlFresh
           /\ seen.ready => ~spec.pause /\ pods = spec.size

\* A reconcile works on a cluster that nobody else changes: the specification
\* it has read is still the current one, and the cluster stays paused from the
\* patch to the Job. Where it creates the recovery Job it has seen one node ready.
ViewOK(r) ==
    /\ pc[r] \in ViewLabels =>
           /\ view[r].spec = spec
           /\ view[r].seen.current =>
                  /\ seen.current /\ seen.proxy = view[r].seen.proxy
                  /\ view[r].seen.ready => seen.ready
    /\ pc[r] \in StopLabels \ {"pause"} => spec.pause
    /\ pc[r] = "createPITR" =>
           /\ ~view[r].spec.pause /\ view[r].seen.current /\ view[r].seen.ready
           /\ view[r].seen.proxy = 0 /\ r \in WithPITR

ViewInv == \A r \in Restores : ViewOK(r)

\* The sizes that a restore saves are those of the first cluster or, when it
\* starts in the cluster of a recovery, those of that one.
SavedInv(st) ==
    /\ st.state \in Working => /\ st.saved \in {Orig, One}
                               /\ st.saved = One => Shape(spec) = One
    /\ st.state = "Restore" => spec.pause \/ Shape(spec) = One

\* The cluster has the sizes that were saved when a restore is about to
\* succeed. (A cluster of one node without a proxy looks the same before and
\* in a recovery, but for the unsafe flags, which are not compared.)
ShapeOK(r) ==
    /\ SavedInv(status[r])
    /\ pc[r] = "setStatus" => SavedInv(mem[r])
    /\ pc[r] = "setStatus" /\ mem[r].state = "Succeeded" =>
           /\ ~spec.pause
           /\ Size > 1 \/ ProxySize > 0 => Shape(spec) = status[r].saved

\* The cluster is never of other sizes than at first or for a recovery.
ShapeInv ==
    /\ Shape(spec) \in {Orig, One} /\ Shape(ctlSpec) \in {Orig, One}
    /\ \A r \in Restores : ShapeOK(r)

\* A restore that would give the cluster no more than one node.
SavesOne(st) == st.state \in Working => st.saved = One

\* One node, no proxy, and nobody who would change that.
Alone(r) ==
    /\ Shape(spec) = One /\ replicas <= 1 /\ pods <= 1 /\ seen.proxy = 0
    /\ ctl # "idle" => Shape(ctlSpec) = One
    /\ status[r].state # "StartCluster"
    /\ pc[r] = "setStatus" => mem[r].state # "StartCluster"
    /\ \A o \in Restores \ {r} :
           /\ SavesOne(status[o])
           /\ pc[o] = "setStatus" => SavesOne(mem[o])

\* That is so while a recovery Job runs, which only restores with one have.
AloneOK(r) ==
    /\ job[r]["pitr"] # "none" => r \in WithPITR
    /\ status[r].state = "PrepareCluster" => r \notin WithPITR
    /\ pc[r] = "setStatus" /\ mem[r].state = "PrepareCluster" => r \notin WithPITR
    /\ job[r]["pitr"] = "active" => Alone(r)

AloneInv == \A r \in Restores : AloneOK(r)

-----------------------------------------------------------------------------
\* No Job of the restore runs.
NoJobActive(r) == \A k \in JobKinds : job[r][k] # "active"

\* What the state of a restore says of its Jobs: those of the states before are
\* complete, those of the states after do not exist yet.
Chain(r, s) ==
    /\ s \in {"absent", "New", "Starting"} => \A k \in JobKinds : job[r][k] = "none"
    /\ s = "StopCluster" => job[r]["pitr"] = "none" /\ job[r]["prepare"] = "none"
    /\ s = "Restore" =>
           /\ job[r]["restore"] # "none" /\ job[r]["prepare"] = "none"
           /\ job[r]["pitr"] # "none" => job[r]["restore"] = "complete" /\ r \in WithPITR
           /\ spec.pause \/ (job[r]["restore"] = "complete" /\ r \in WithPITR)
    /\ s = "PITR" => /\ job[r]["restore"] = "complete" /\ job[r]["prepare"] = "none"
                     /\ r \in WithPITR
    /\ s = "PrepareCluster" => /\ job[r]["restore"] = "complete" /\ job[r]["pitr"] = "none"
                               /\ r \notin WithPITR /\ PreparesCluster
    /\ s = "StartCluster" =>
           /\ job[r]["restore"] = "complete"
           /\ job[r]["pitr"] = IF r \in WithPITR THEN "complete" ELSE "none"
           /\ job[r]["prepare"] = IF r \notin WithPITR /\ PreparesCluster THEN "complete"
                                  ELSE "none"
    /\ s \in Finished => NoJobActive(r)

\* The recorded state and the one about to be recorded fit the Jobs, and the
\* Jobs of a restore in progress keep their finalizer.
JobsOK(r) ==
    /\ Chain(r, status[r].state)
    /\ pc[r] = "setStatus" => Chain(r, mem[r].state)
    /\ status[r].state \notin Finished =>
           \A k \in JobKinds : job[r][k] # "none" => k \in kept[r]
    /\ pc[r] = "finalizers" => status[r].state \in Finished
    /\ pc[r] \in {"unpauseOne", "createPITR"} =>
           job[r]["restore"] = "complete" /\ r \in WithPITR

\* One restore is in progress, and its Jobs fit its state.
JobsInv ==
    /\ \A a, b \in Restores : InProgress(a) /\ InProgress(b) => a = b
    /\ \A r \in Restores : JobsOK(r)

\* The cluster runs, and the pass under way will not stop it.
Running ==
    /\ ~spec.pause /\ pods >= 1 /\ replicas >= 1
    /\ ctl = "apply" => ~ctlSpec.pause
Settled == spec.pause \/ Running
Stopped == spec.pause /\ replicas = 0 /\ (ctl # "idle" => ctlSpec.pause)

\* A paused cluster without pods will get none, and a cluster that is neither
\* paused nor running is being started by a restore.
PauseInv ==
    /\ spec.pause /\ replicas = 0 => Stopped
    /\ spec.pause /\ pods = 0 => replicas = 0
    /\ Settled \/ \E r \in Restores : status[r].state \in {"Restore", "StartCluster"}
    /\ \A r \in Restores :
           pc[r] = "setStatus" /\ mem[r].state \notin {"Restore", "StartCluster"} => Settled

\* From the end of the wait for the pods to the end of the restore Job the
\* cluster is stopped, and from the end of the wait for the volumes only the
\* first one is left.
StopOK(r) ==
    /\ pc[r] \in {"deleteVolumes", "volumesGone", "createJob"} => Stopped /\ pods = 0
    /\ pc[r] \in {"volumesGone", "createJob"} => volumes \subseteq {0}
    /\ job[r]["restore"] = "active" => Stopped /\ pods = 0 /\ volumes \subseteq {0}

StopInv == \A r \in Restores : StopOK(r)

\* The data is what the Jobs of the restore in progress have made of it.
DataOK(r) ==
    InProgress(r) =>
    /\ (/\ job[r]["restore"] = "complete"
        /\ job[r]["pitr"] # "complete" /\ job[r]["prepare"] # "complete")
           => data = [by |-> r, stage |-> "restored"]
    /\ job[r]["prepare"] = "complete" => data = [by |-> r, stage |-> "prepared"]
    /\ job[r]["pitr"] = "complete" => data = [by |-> r, stage |-> "recovered"]

DataInv == \A r \in Restores : DataOK(r)

\* What holds in any case, and what holds unless Jobs may outlive their restore.
GeneralInv == Inv /\ MemInv /\ CtlInv /\ ViewInv /\ ShapeInv /\ AloneInv
CalmInv == ~JobsMayOutlive => JobsInv /\ PauseInv /\ StopInv /\ DataInv

\* Changing the state of a status leaves the rest.
LEMMA InStateFields ==
    ASSUME NEW st \in Statuses, NEW s \in States
    PROVE  InState(st, s).state = s /\ InState(st, s).saved = st.saved
BY Zenon DEF Statuses, InState

\* Saving takes the sizes of the cluster.
LEMMA SavingFields ==
    ASSUME NEW st \in Statuses, NEW c \in Specs
    PROVE  Saving(st, c).state = "StopCluster" /\ Saving(st, c).saved = Shape(c)
BY Zenon DEF Saving, Shape

\* A reconcile of r leaves the memory, the status and the Jobs of the others.
Others(r) ==
    \A o \in Restores \ {r} :
        /\ pc'[o] = pc[o] /\ mem'[o] = mem[o] /\ view'[o] = view[o]
        /\ status'[o] = status[o] /\ job'[o] = job[o] /\ kept'[o] = kept[o]

\* Only r's own locals, status and Jobs change in a reconcile of r.
LEMMA OthersStay ==
    ASSUME TypeOK, NEW r \in Restores, Reconcile(r) \/ APIError(r)
    PROVE  Others(r)
<1> USE DEF jobVars, Goto, Return, ReturnIn
<1>1. \A l : pc' = [pc EXCEPT ![r] = l] => \A o \in Restores \ {r} : pc'[o] = pc[o]
  BY Zenon DEF TypeOK
<1>2. \A l : mem' = [mem EXCEPT ![r] = l] => \A o \in Restores \ {r} : mem'[o] = mem[o]
  BY Zenon DEF TypeOK
<1>3. \A l : view' = [view EXCEPT ![r] = l] => \A o \in Restores \ {r} : view'[o] = view[o]
  BY Zenon DEF TypeOK
<1>4. \A l : status' = [status EXCEPT ![r] = l]
                => \A o \in Restores \ {r} : status'[o] = status[o]
  BY Zenon DEF TypeOK
<1>5. \A l : job' = [job EXCEPT ![r] = l] => \A o \in Restores \ {r} : job'[o] = job[o]
  BY Zenon DEF TypeOK
<1>6. \A l : kept' = [kept EXCEPT ![r] = l] => \A o \in Restores \ {r} : kept'[o] = kept[o]
  BY Zenon DEF TypeOK
<1>7. \A o \in Restores \ {r} : pc'[o] = pc[o]
  BY Zenon, <1>1 DEF Reconcile, APIError, Get, RunJobFinalizers, CheckOthers, GetCluster,
     ReconcileStateNew, PauseCluster, WaitForPodsShutdown, DeleteVolumes,
     WaitForPVCShutdown, CreateRestoreJob, ReconcileStateRestore, UnpauseOne,
     CreatePITRJob, ReconcileStatePITR, ReconcileStatePrepareCluster,
     ReconcileStateStartCluster, UnpauseCluster, SetStatus
<1>8. \A o \in Restores \ {r} : mem'[o] = mem[o]
  BY Zenon, <1>2 DEF Reconcile, APIError, Get, RunJobFinalizers, CheckOthers, GetCluster,
     ReconcileStateNew, PauseCluster, WaitForPodsShutdown, DeleteVolumes,
     WaitForPVCShutdown, CreateRestoreJob, ReconcileStateRestore, UnpauseOne,
     CreatePITRJob, ReconcileStatePITR, ReconcileStatePrepareCluster,
     ReconcileStateStartCluster, UnpauseCluster, SetStatus
<1>9. \A o \in Restores \ {r} : view'[o] = view[o] /\ status'[o] = status[o]
  BY Zenon, <1>3, <1>4 DEF Reconcile, APIError, Get, RunJobFinalizers, CheckOthers, GetCluster,
     ReconcileStateNew, PauseCluster, WaitForPodsShutdown, DeleteVolumes,
     WaitForPVCShutdown, CreateRestoreJob, ReconcileStateRestore, UnpauseOne,
     CreatePITRJob, ReconcileStatePITR, ReconcileStatePrepareCluster,
     ReconcileStateStartCluster, UnpauseCluster, SetStatus
<1>10. \A o \in Restores \ {r} : job'[o] = job[o] /\ kept'[o] = kept[o]
  BY Zenon, <1>5, <1>6 DEF Reconcile, APIError, Get, RunJobFinalizers, CheckOthers, GetCluster,
     ReconcileStateNew, PauseCluster, WaitForPodsShutdown, DeleteVolumes,
     WaitForPVCShutdown, CreateRestoreJob, ReconcileStateRestore, UnpauseOne,
     CreatePITRJob, ReconcileStatePITR, ReconcileStatePrepareCluster,
     ReconcileStateStartCluster, UnpauseCluster, SetStatus, CreateJob
<1> QED BY Zenon, <1>7, <1>8, <1>9, <1>10 DEF Others

\* A reconcile that returns has the sizes it has read, and it does not succeed
\* but from StartCluster.
LEMMA ReturnKeepsMem ==
    ASSUME Inv, NEW r \in Restores, MemOK(r),
           pc[r] \notin {"idle", "finalizers", "setStatus"},
           status' = status, pc'[r] = "setStatus",
           NEW s \in States, mem'[r] = mem[r] \/ mem'[r] = InState(mem[r], s),
           s = "Succeeded" => status[r].state = "StartCluster"
    PROVE  MemOK(r)'
<1>1. mem[r] = Loaded(r) /\ InProgress(r) /\ mem[r] \in Statuses /\ status[r] \in Statuses
  BY Zenon DEF MemOK, Inv, ClaimInv, TypeOK
<1>2. mem[r].saved = mem'[r].saved /\ mem'[r].state \in {s, mem[r].state}
  BY Zenon, <1>1, InStateFields
<1>3. status[r].state \in Working => mem[r].saved = status[r].saved
  BY Zenon, <1>1 DEF Loaded, Working
<1>4. InState(status[r], "Starting").state = "Starting"
  BY Zenon, <1>1, InStateFields DEF States
<1>5. mem[r].state # "Succeeded"
  BY Zenon, <1>1, <1>4 DEF Loaded, InProgress, Finished
<1> QED BY Zenon, <1>2, <1>3, <1>5 DEF MemOK, StopLabels, RestoreLabels

\* The state a handler is for.
LEMMA HandlerLabels ==
    ASSUME NEW s \in {"Starting"} \cup Working
    PROVE  \/ s = "Starting" /\ HandlerOf(s) = "new"
           \/ s = "StopCluster" /\ HandlerOf(s) = "pause"
           \/ s = "Restore" /\ HandlerOf(s) = "restoring"
           \/ s = "PITR" /\ HandlerOf(s) = "recovering"
           \/ s = "PrepareCluster" /\ HandlerOf(s) = "preparing"
           \/ s = "StartCluster" /\ HandlerOf(s) = "starting"
<1>1. HandlerOf("Starting") = "new" /\ HandlerOf("StopCluster") = "pause"
  BY DEF HandlerOf
<1>2. HandlerOf("Restore") = "restoring" /\ HandlerOf("PITR") = "recovering"
  BY DEF HandlerOf
<1>3. HandlerOf("PrepareCluster") = "preparing" /\ HandlerOf("StartCluster") = "starting"
  BY DEF HandlerOf
<1> QED BY Zenon, <1>1, <1>2, <1>3 DEF Working

\* Every step of a reconcile keeps what it knows of its own status.
LEMMA ReconcileMem ==
    ASSUME Inv, MemInv, NEW r \in Restores, Reconcile(r) \/ APIError(r)
    PROVE  MemInv'
<1> USE DEF Goto
<1>a. TypeOK /\ mem[r] \in Statuses /\ status[r] \in Statuses /\ MemOK(r)
  BY Zenon DEF Inv, TypeOK, MemInv
<1>p. \A l : pc' = [pc EXCEPT ![r] = l] => pc'[r] = l
  BY Zenon, <1>a DEF TypeOK
<1>m. \A l : mem' = [mem EXCEPT ![r] = l] => mem'[r] = l
  BY Zenon, <1>a DEF TypeOK
<1>s. {"Failed", "StopCluster", "Restore", "PITR", "PrepareCluster", "StartCluster",
       "Succeeded", "Starting", "New"} \subseteq States
  BY Zenon DEF States, Finished, Working
<1>o. \A o \in Restores \ {r} : MemOK(o)'
  <2>1. Others(r)
    BY Zenon, <1>a, OthersStay
  <2> SUFFICES ASSUME NEW o \in Restores \ {r} PROVE MemOK(o)'
    BY Zenon
  <2>2. /\ pc'[o] = pc[o] /\ mem'[o] = mem[o] /\ status'[o] = status[o]
        /\ MemOK(o)
    BY Zenon, <2>1 DEF Others, MemInv
  <2> QED BY Zenon, <2>2 DEF MemOK, Loaded
<1> SUFFICES MemOK(r)'
  BY Zenon, <1>o DEF MemInv
<1>1. CASE Get(r)
  BY Zenon, <1>1, <1>p, <1>m DEF Get, MemOK, Loaded, StopLabels, RestoreLabels
<1>2. CASE RunJobFinalizers(r)
  <2>1. pc'[r] \in {"idle", "finalizers"}
    BY Zenon, <1>2, <1>p DEF RunJobFinalizers
  <2> QED BY Zenon, <2>1 DEF MemOK, StopLabels, RestoreLabels
<1>3. CASE SetStatus(r)
  BY Zenon, <1>3, <1>p DEF SetStatus, MemOK, StopLabels, RestoreLabels
<1> DEFINE Returns(s) == /\ pc[r] \notin {"idle", "finalizers", "setStatus"}
                         /\ status' = status /\ pc'[r] = "setStatus"
                         /\ mem'[r] = mem[r] \/ mem'[r] = InState(mem[r], s)
<1>r. ASSUME NEW s \in States, Returns(s),
             s = "Succeeded" => status[r].state = "StartCluster"
      PROVE  MemOK(r)'
  BY Zenon, <1>r, <1>a, ReturnKeepsMem
<1>4. CASE APIError(r)
  <2>1. Returns("Failed")
    BY Zenon, <1>4, <1>p DEF APIError, Return
  <2> QED BY Zenon, <2>1, <1>r, <1>s
<1>5. CASE CheckOthers(r)
  <2>1. CASE OtherRestoreInProgress(r)
    <3>1. Returns("Failed")
      BY Zenon, <1>5, <2>1, <1>p, <1>m DEF CheckOthers, ReturnIn
    <3> QED BY Zenon, <3>1, <1>r, <1>s
  <2>2. CASE ~OtherRestoreInProgress(r)
    <3>1. pc[r] = "others" /\ pc'[r] = "cluster" /\ UNCHANGED <<status, mem>>
      BY Zenon, <1>5, <2>2, <1>p DEF CheckOthers
    <3> QED BY Zenon, <3>1, <1>a DEF MemOK, Loaded, StopLabels, RestoreLabels
  <2> QED BY Zenon, <2>1, <2>2
<1>6. CASE GetCluster(r)
  <2>1. mem[r].state \in {"Starting"} \cup Working
    BY Zenon, <1>6 DEF GetCluster, Inv, ClaimInv
  <2>2. CASE pc'[r] = HandlerOf(mem[r].state) /\ mem' = mem
    <3>1. pc[r] = "cluster" /\ status' = status
      BY Zenon, <1>6 DEF GetCluster
    <3>2. mem[r] = Loaded(r)
      BY Zenon, <1>a, <3>1 DEF MemOK
    <3> QED BY Zenon, <2>1, <2>2, <3>1, <3>2, HandlerLabels
            DEF MemOK, Loaded, StopLabels, RestoreLabels
  <2>3. CASE ReturnIn(r, "Failed")
    <3>1. Returns("Failed")
      BY Zenon, <1>6, <2>3, <1>p, <1>m DEF GetCluster, ReturnIn
    <3> QED BY Zenon, <3>1, <1>r, <1>s
  <2> QED BY Zenon, <1>6, <1>p, <2>2, <2>3 DEF GetCluster
<1>7. CASE ReconcileStateNew(r)
  <2>1. CASE mem' = [mem EXCEPT ![r] = Saving(mem[r], view[r].spec)]
    <3>1. pc[r] = "new" /\ pc'[r] = "setStatus" /\ status' = status
      BY Zenon, <1>7, <1>p DEF ReconcileStateNew, Return, ReturnIn
    <3>2. mem'[r].state = "StopCluster"
      BY Zenon, <2>1, <1>m DEF Saving
    <3>3. status[r].state \notin Working
      BY Zenon, <3>1, <1>a DEF MemOK, Loaded, Working
    <3> QED BY Zenon, <3>1, <3>2, <3>3 DEF MemOK, StopLabels, RestoreLabels
  <2>2. CASE Return(r) \/ ReturnIn(r, "Failed")
    <3>1. Returns("Failed")
      BY Zenon, <1>7, <2>2, <1>p, <1>m DEF ReconcileStateNew, Return, ReturnIn
    <3> QED BY Zenon, <3>1, <1>r, <1>s
  <2> QED BY Zenon, <1>7, <2>1, <2>2 DEF ReconcileStateNew
<1> DEFINE Goes(from, to) == /\ pc[r] = from /\ pc'[r] = to
                             /\ UNCHANGED <<status, mem>>
<1>8. CASE PauseCluster(r)
  <2>1. Goes("pause", "podsGone")
    BY Zenon, <1>8, <1>p DEF PauseCluster
  <2> QED BY Zenon, <2>1, <1>a DEF MemOK, Loaded, StopLabels, RestoreLabels
<1>9. CASE WaitForPodsShutdown(r)
  <2>1. Goes("podsGone", "deleteVolumes") \/ Returns("Failed")
    BY Zenon, <1>9, <1>p DEF WaitForPodsShutdown, Return
  <2>2. CASE Goes("podsGone", "deleteVolumes")
    BY Zenon, <2>2, <1>a DEF MemOK, Loaded, StopLabels, RestoreLabels
  <2> QED BY Zenon, <2>1, <2>2, <1>r, <1>s
<1>10. CASE DeleteVolumes(r)
  <2>1. Goes("deleteVolumes", "volumesGone")
    BY Zenon, <1>10, <1>p DEF DeleteVolumes
  <2> QED BY Zenon, <2>1, <1>a DEF MemOK, Loaded, StopLabels, RestoreLabels
<1>11. CASE WaitForPVCShutdown(r)
  <2>1. Goes("volumesGone", "createJob") \/ Returns("Failed")
    BY Zenon, <1>11, <1>p DEF WaitForPVCShutdown, Return
  <2>2. CASE Goes("volumesGone", "createJob")
    BY Zenon, <2>2, <1>a DEF MemOK, Loaded, StopLabels, RestoreLabels
  <2> QED BY Zenon, <2>1, <2>2, <1>r, <1>s
<1>12. CASE CreateRestoreJob(r)
  <2>1. Returns("Failed") \/ Returns("Restore")
    BY Zenon, <1>12, <1>p, <1>m DEF CreateRestoreJob, Return, ReturnIn
  <2> QED BY Zenon, <2>1, <1>r, <1>s
<1>13. CASE ReconcileStateRestore(r)
  <2>1. \/ Goes("restoring", "unpauseOne") \/ Goes("restoring", "createPITR")
        \/ Returns("Failed") \/ Returns("PrepareCluster") \/ Returns("StartCluster")
    BY Zenon, <1>13, <1>p, <1>m DEF ReconcileStateRestore, Return, ReturnIn
  <2>2. CASE Goes("restoring", "unpauseOne") \/ Goes("restoring", "createPITR")
    BY Zenon, <2>2, <1>a DEF MemOK, Loaded, StopLabels, RestoreLabels
  <2> QED BY Zenon, <2>1, <2>2, <1>r, <1>s
<1>14. CASE UnpauseOne(r) \/ UnpauseCluster(r)
  <2>1. Returns("Failed")
    BY Zenon, <1>14, <1>p DEF UnpauseOne, UnpauseCluster, Return
  <2> QED BY Zenon, <2>1, <1>r, <1>s
<1>15. CASE CreatePITRJob(r)
  <2>1. Returns("PITR")
    BY Zenon, <1>15, <1>p, <1>m DEF CreatePITRJob, Return, ReturnIn
  <2> QED BY Zenon, <2>1, <1>r, <1>s
<1>16. CASE ReconcileStatePITR(r) \/ ReconcileStatePrepareCluster(r)
  <2>1. Returns("Failed") \/ Returns("StartCluster")
    BY Zenon, <1>16, <1>p, <1>m DEF ReconcileStatePITR, ReconcileStatePrepareCluster,
       Return, ReturnIn
  <2> QED BY Zenon, <2>1, <1>r, <1>s
<1>17. CASE ReconcileStateStartCluster(r)
  <2>1. Goes("starting", "unpause") \/ Returns("Succeeded")
    BY Zenon, <1>17, <1>p, <1>m DEF ReconcileStateStartCluster, Return, ReturnIn
  <2>2. pc[r] = "starting"
    BY Zenon, <1>17 DEF ReconcileStateStartCluster
  <2>3. status[r].state = "StartCluster"
    <3>1. mem[r] = Loaded(r) /\ mem[r].state = "StartCluster"
      BY Zenon, <2>2, <1>a DEF MemOK
    <3>2. InState(status[r], "Starting").state = "Starting"
      BY Zenon, <1>a, <1>s, InStateFields
    <3> QED BY Zenon, <3>1, <3>2 DEF Loaded
  <2>4. CASE Goes("starting", "unpause")
    BY Zenon, <2>4, <1>a DEF MemOK, Loaded, StopLabels, RestoreLabels
  <2> QED BY Zenon, <2>1, <2>3, <2>4, <1>r, <1>s
<1> QED BY Zenon, <1>1, <1>2, <1>3, <1>4, <1>5, <1>6, <1>7, <1>8, <1>9, <1>10, <1>11,
     <1>12, <1>13, <1>14, <1>15, <1>16, <1>17 DEF Reconcile

(***************************************************************************)
(* The reconciler of the cluster.                                          *)
(***************************************************************************)

\* A reconcile of a restore changes the cluster only where it pauses or
\* unpauses it; of the volumes see DeleteVolumes.
Updates(r) == PauseCluster(r) \/ UnpauseOne(r) \/ UnpauseCluster(r)

\* All other steps leave the cluster and its reconciler alone.
LEMMA ClusterStays ==
    ASSUME NEW r \in Restores, Reconcile(r) \/ APIError(r), ~Updates(r)
    PROVE  UNCHANGED <<spec, seen, replicas, pods, data, ctl, ctlSpec, ctlFresh>>
BY Zenon DEF Reconcile, APIError, Get, RunJobFinalizers, CheckOthers, GetCluster,
   ReconcileStateNew, Updates, WaitForPodsShutdown, DeleteVolumes,
   WaitForPVCShutdown, CreateRestoreJob, ReconcileStateRestore,
   CreatePITRJob, ReconcileStatePITR, ReconcileStatePrepareCluster,
   ReconcileStateStartCluster, SetStatus, clusterVars, ctlVars

\* An update gives the cluster the pause and the sizes the handler is for.
LEMMA UpdateEffects ==
    ASSUME Inv, MemInv, NEW r \in Restores, Updates(r)
    PROVE  /\ HasClaim(r) /\ pc[r] \in {"pause", "unpauseOne", "unpause"}
           /\ UNCHANGED <<status, job, kept, view, replicas, pods, volumes, data, ctl, ctlSpec,
                          mem>>
           /\ \E s \in Specs : UpdateCluster(s)
           /\ seen' = seen \/ seen' = [seen EXCEPT !.current = FALSE]
           /\ \/ /\ pc[r] = "pause" /\ pc'[r] = "podsGone" /\ Shape(spec') = Shape(spec)
                 /\ spec' = [spec EXCEPT !.pause = @ \/ ~view[r].spec.pause]
              \/ /\ pc[r] = "unpauseOne" /\ pc'[r] = "setStatus"
                 /\ ~spec'.pause /\ Shape(spec') = One
              \/ /\ pc[r] = "unpause" /\ pc'[r] = "setStatus"
                 /\ ~spec'.pause /\ Shape(spec') = mem[r].saved
                 /\ mem[r] = status[r] /\ status[r].state = "StartCluster"
<1> USE DEF jobVars
<1>a. TypeOK /\ mem[r] \in Statuses /\ status[r] \in Statuses /\ view[r] \in Views /\ MemOK(r)
  BY Zenon DEF Inv, TypeOK, MemInv
<1>p. \A l : pc' = [pc EXCEPT ![r] = l] => pc'[r] = l
  BY Zenon, <1>a DEF TypeOK
<1>1. pc[r] \in {"pause", "unpauseOne", "unpause"} /\ HasClaim(r)
  BY Zenon DEF Updates, PauseCluster, UnpauseOne, UnpauseCluster, HasClaim, HasPassed
<1>2. UNCHANGED <<status, job, kept, view, mem>>
  BY Zenon DEF Updates, PauseCluster, UnpauseOne, UnpauseCluster, Return
<1> DEFINE P == [spec EXCEPT !.pause = @ \/ ~view[r].spec.pause]
           O == [pause |-> FALSE, size |-> 1, proxy |-> 0, unsafe |-> Flags]
           C == [pause |-> FALSE, size |-> mem[r].saved.size, proxy |-> mem[r].saved.proxy,
                 unsafe |-> mem[r].saved.unsafe]
<1>3. CASE PauseCluster(r)
  <2>1. P \in Specs /\ UpdateCluster(P) /\ pc[r] = "pause" /\ pc'[r] = "podsGone"
    BY Zenon, <1>3, <1>a, <1>p DEF PauseCluster, Goto, TypeOK, Specs, Views
  <2>2. Shape(P) = Shape(spec)
    BY Zenon, <1>a DEF Shape, TypeOK, Specs
  <2> HIDE DEF P
  <2> QED BY Zenon, <1>1, <1>2, <2>1, <2>2 DEF UpdateCluster, P
<1>4. CASE UnpauseOne(r)
  <2>1. O \in Specs
    BY RestoreAssumption DEF Specs
  <2>2. UpdateCluster(O) /\ pc[r] = "unpauseOne" /\ pc'[r] = "setStatus"
    BY Zenon, <1>4, <1>p DEF UnpauseOne, Return, Goto
  <2>3. Shape(O) = One /\ ~O.pause
    BY Zenon DEF Shape, One
  <2> HIDE DEF O
  <2> QED BY Zenon, <1>1, <1>2, <2>1, <2>2, <2>3 DEF UpdateCluster
<1>5. CASE UnpauseCluster(r)
  <2>1. C \in Specs
    BY Zenon, <1>a DEF Specs, Statuses, Saved
  <2>2. UpdateCluster(C) /\ pc[r] = "unpause" /\ pc'[r] = "setStatus"
    BY Zenon, <1>5, <1>p DEF UnpauseCluster, Return, Goto
  <2>3. Shape(C) = mem[r].saved /\ ~C.pause
    BY <1>a DEF Shape, Statuses, Saved
  <2>4. mem[r] = Loaded(r) /\ mem[r].state = "StartCluster"
    BY Zenon, <2>2, <1>a DEF MemOK
  <2>5. InState(status[r], "Starting").state = "Starting"
    BY Zenon, <1>a, InStateFields DEF States
  <2>6. mem[r] = status[r] /\ status[r].state = "StartCluster"
    BY Zenon, <2>4, <2>5 DEF Loaded
  <2> HIDE DEF C
  <2> QED BY Zenon, <1>1, <1>2, <2>1, <2>2, <2>3, <2>6 DEF UpdateCluster
<1> QED BY Zenon, <1>3, <1>4, <1>5 DEF Updates

\* An update that changes nothing keeps the status of the cluster current, any
\* other one makes it, and a pass that is under way, out of date.
LEMMA UpdateKeepsCtl ==
    ASSUME TypeOK, CtlInv, NEW s \in Specs, UpdateCluster(s)
    PROVE  CtlInv'
<1>1. CASE s = spec
  <2>1. UNCHANGED <<spec, seen, replicas, pods, ctl, ctlSpec, ctlFresh>>
    BY Zenon, <1>1 DEF UpdateCluster, TypeOK
  <2> QED BY Zenon, <2>1 DEF CtlInv, Want
<1>2. CASE s # spec
  <2>1. ~ctlFresh' /\ ~seen'.current /\ UNCHANGED <<replicas, ctl, ctlSpec>>
    BY Zenon, <1>2 DEF UpdateCluster, TypeOK, Seen
  <2> QED BY Zenon, <2>1 DEF CtlInv, Want
<1> QED BY Zenon, <1>1, <1>2

\* What the cluster's reconciler knows is kept by every step.
LEMMA NextCtl ==
    ASSUME Inv, MemInv, CtlInv, [Next]_vars
    PROVE  CtlInv'
<1>a. TypeOK
  BY Zenon DEF Inv
<1>1. ASSUME UNCHANGED <<spec, seen, replicas, pods, ctl, ctlSpec, ctlFresh>>
      PROVE  CtlInv'
  BY Zenon, <1>1 DEF CtlInv, Want
<1>2. ASSUME NEW r \in Restores, Reconcile(r) \/ APIError(r)
      PROVE  CtlInv'
  <2>1. CASE Updates(r)
    BY Zenon, <2>1, <1>a, UpdateEffects, UpdateKeepsCtl
  <2>2. CASE ~Updates(r)
    BY Zenon, <2>2, <1>1, <1>2, ClusterStays
  <2> QED BY Zenon, <2>1, <2>2
<1>3. ASSUME NEW r \in Restores,
             \/ CreateRestore(r)
             \/ \E k \in JobKinds : JobEnds(r, k) \/ JobExpires(r, k)
      PROVE  CtlInv'
  BY Zenon, <1>1, <1>3 DEF CreateRestore, JobEnds, JobExpires, clusterVars, ctlVars
<1>4. CASE ControllerReads
  <2>1. /\ ctl' = "apply" /\ ctlSpec' = spec /\ ctlFresh'
        /\ UNCHANGED <<spec, seen, replicas, pods>>
    BY Zenon, <1>4 DEF ControllerReads, clusterVars
  <2> QED BY Zenon, <2>1 DEF CtlInv, Want
<1>5. CASE ControllerApplies
  <2>1. /\ ctl = "apply" /\ ctl' = "observe" /\ replicas' = Want(ctlSpec)
        /\ UNCHANGED <<spec, seen, pods, ctlSpec, ctlFresh>>
    BY Zenon, <1>5 DEF ControllerApplies, Want
  <2> QED BY Zenon, <2>1 DEF CtlInv, Want
<1>6. CASE ControllerObserves
  <2>1. /\ ctl = "observe" /\ ctl' = "idle"
        /\ UNCHANGED <<spec, replicas, pods>>
        /\ seen'.current = ctlFresh /\ seen'.proxy = ctlSpec.proxy
        /\ seen'.ready = (~ctlSpec.pause /\ pods = ctlSpec.size)
    BY Zenon, <1>6 DEF ControllerObserves
  <2> QED BY Zenon, <2>1 DEF CtlInv, Want
<1>7. CASE PodStops \/ PodStarts
  <2>1. UNCHANGED <<spec, seen, replicas, ctl, ctlSpec, ctlFresh>>
    BY Zenon, <1>7 DEF PodStops, PodStarts, ctlVars
  <2>2. ~(seen.current /\ seen.ready)
    BY <1>7, <1>a DEF PodStops, PodStarts, CtlInv, Want, TypeOK, Specs
  <2> QED BY Zenon, <2>1, <2>2 DEF CtlInv, Want
<1>8. CASE Crash
  <2>1. ctl' = "idle" /\ UNCHANGED <<spec, seen, replicas, pods>>
    BY Zenon, <1>8 DEF Crash, clusterVars
  <2> QED BY Zenon, <2>1 DEF CtlInv, Want
<1>9. CASE UNCHANGED vars
  BY Zenon, <1>1, <1>9 DEF vars, stepVars
<1> QED BY Zenon, <1>2, <1>3, <1>4, <1>5, <1>6, <1>7, <1>8, <1>9
        DEF Next, Step, ClusterSteps

\* Every step keeps what the reconciles know of their status.
LEMMA NextMem ==
    ASSUME Inv, MemInv, [Next]_vars
    PROVE  MemInv'
<1>a. TypeOK
  BY Zenon DEF Inv
<1>1. ASSUME UNCHANGED <<status, pc, mem>>
      PROVE  MemInv'
  BY Zenon, <1>1 DEF MemInv, MemOK, Loaded
<1>2. ASSUME NEW r \in Restores, CreateRestore(r)
      PROVE  MemInv'
  <2>1. /\ status[r].state = "absent" /\ UNCHANGED <<pc, mem>>
        /\ \A o \in Restores \ {r} : status'[o] = status[o]
    BY Zenon, <1>2, <1>a DEF CreateRestore, TypeOK
  <2>2. pc[r] \in {"idle", "finalizers"}
    BY Zenon, <2>1 DEF Inv, ClaimInv, InProgress
  <2>3. MemOK(r)'
    BY Zenon, <2>1, <2>2 DEF MemOK, StopLabels, RestoreLabels
  <2>4. \A o \in Restores \ {r} : MemOK(o)'
    BY Zenon, <2>1 DEF MemInv, MemOK, Loaded
  <2> QED BY Zenon, <2>3, <2>4 DEF MemInv
<1>3. CASE Crash
  <2>1. \A r \in Restores : pc'[r] = "idle"
    BY Zenon, <1>3 DEF Crash
  <2> QED BY Zenon, <2>1 DEF MemInv, MemOK, StopLabels, RestoreLabels
<1>4. CASE ClusterSteps \/ UNCHANGED vars
          \/ \E r \in Restores, k \in JobKinds : JobEnds(r, k) \/ JobExpires(r, k)
  BY Zenon, <1>1, <1>4 DEF ClusterSteps, ControllerReads, ControllerApplies,
     ControllerObserves, PodStops, PodStarts, JobEnds, JobExpires, vars, stepVars
<1> QED BY Zenon, <1>2, <1>3, <1>4, ReconcileMem DEF Next, Step

(***************************************************************************)
(* What a reconcile has read of the cluster.                               *)
(***************************************************************************)

\* The view of a reconcile is the cluster it has just read, until it returns.
LEMMA OwnLabels ==
    ASSUME Inv, NEW r \in Restores, Reconcile(r) \/ APIError(r), ~Updates(r)
    PROVE  /\ pc'[r] \in ViewLabels =>
                  \/ view'[r] = [spec |-> spec, seen |-> seen]
                  \/ pc[r] \in ViewLabels /\ view'[r] = view[r]
           /\ pc'[r] \in StopLabels \ {"pause"} => pc[r] \in StopLabels \ {"pause"}
           /\ pc'[r] = "createPITR" =>
                  /\ ~view'[r].spec.pause /\ view'[r].seen.current /\ view'[r].seen.ready
                  /\ view'[r].seen.proxy = 0 /\ r \in WithPITR
                  /\ job[r]["restore"] = "complete" /\ pc[r] = "restoring"
           /\ pc'[r] = "unpauseOne" =>
                  r \in WithPITR /\ job[r]["restore"] = "complete" /\ pc[r] = "restoring"
<1>a. TypeOK
  BY Zenon DEF Inv
<1>p. \A l : pc' = [pc EXCEPT ![r] = l] => pc'[r] = l
  BY Zenon, <1>a DEF TypeOK
<1>v. \A l : view' = [view EXCEPT ![r] = l] => view'[r] = l
  BY Zenon, <1>a DEF TypeOK
<1>1. CASE GetCluster(r)
  <2>1. mem[r].state \in {"Starting"} \cup Working
    BY Zenon, <1>1 DEF GetCluster, Inv, ClaimInv
  <2>2. pc'[r] \notin (StopLabels \ {"pause"}) \cup {"createPITR", "unpauseOne"}
    BY Zenon, <1>1, <1>p, <2>1, HandlerLabels DEF GetCluster, Goto, ReturnIn, StopLabels
  <2>3. pc'[r] \in ViewLabels => view'[r] = [spec |-> spec, seen |-> seen]
    BY Zenon, <1>1, <1>p, <1>v DEF GetCluster, Goto, ReturnIn, ViewLabels
  <2> QED BY Zenon, <2>2, <2>3
<1>2. CASE ReconcileStateRestore(r)
  BY Zenon, <1>2, <1>p DEF ReconcileStateRestore, Goto, Return, ReturnIn, ViewLabels, StopLabels
<1>3. CASE RunJobFinalizers(r)
  <2>1. pc'[r] \in {"idle", "finalizers"}
    BY Zenon, <1>3, <1>p DEF RunJobFinalizers, Goto
  <2> QED BY Zenon, <2>1 DEF ViewLabels, StopLabels
<1>4. CASE \/ Get(r) \/ CheckOthers(r) \/ ReconcileStateNew(r) \/ WaitForPodsShutdown(r)
           \/ DeleteVolumes(r) \/ WaitForPVCShutdown(r) \/ CreateRestoreJob(r)
           \/ CreatePITRJob(r) \/ ReconcileStatePITR(r) \/ SetStatus(r) \/ APIError(r)
           \/ ReconcileStatePrepareCluster(r) \/ ReconcileStateStartCluster(r)
  <2>1. \/ pc'[r] \in {"finalizers", "others", "cluster", "setStatus", "idle"}
        \/ pc[r] = "podsGone" /\ pc'[r] = "deleteVolumes"
        \/ pc[r] = "deleteVolumes" /\ pc'[r] = "volumesGone"
        \/ pc[r] = "volumesGone" /\ pc'[r] = "createJob"
        \/ pc[r] = "starting" /\ pc'[r] = "unpause" /\ view' = view
    BY Zenon, <1>4, <1>p DEF Get, CheckOthers, ReconcileStateNew, WaitForPodsShutdown,
       DeleteVolumes, WaitForPVCShutdown, CreateRestoreJob, CreatePITRJob,
       ReconcileStatePITR, SetStatus, APIError, ReconcileStatePrepareCluster,
       ReconcileStateStartCluster, Goto, Return, ReturnIn
  <2> QED BY Zenon, <2>1 DEF ViewLabels, StopLabels
<1> QED BY Zenon, <1>1, <1>2, <1>3, <1>4 DEF Reconcile, Updates

\* A reconcile that has a view has a claim.
LEMMA ViewersHaveClaims ==
    ASSUME NEW r \in Restores, pc[r] \in ViewLabels \cup StopLabels
    PROVE  HasClaim(r)
BY Zenon DEF HasClaim, HasPassed, ViewLabels, StopLabels

\* A reconcile keeps what is known of the views, its own and the others'.
LEMMA ReconcileView ==
    ASSUME Inv, MemInv, ViewInv, NEW r \in Restores, Reconcile(r) \/ APIError(r)
    PROVE  ViewInv'
<1>a. TypeOK /\ ClaimInv
  BY Zenon DEF Inv
<1>1. Others(r)
  BY Zenon, <1>a, OthersStay
<1>2. CASE Updates(r)
  <2>1. HasClaim(r) /\ pc[r] \in {"pause", "unpauseOne", "unpause"}
    BY Zenon, <1>2, UpdateEffects
  <2>2. ASSUME NEW o \in Restores \ {r} PROVE ViewOK(o)'
    <3>1. pc'[o] \notin ViewLabels \cup StopLabels
      BY Zenon, <1>1, <1>a, <2>1, ViewersHaveClaims DEF Others, ClaimInv
    <3> QED BY Zenon, <3>1 DEF ViewOK, ViewLabels
  <2>3. ViewOK(r)'
    <3>1. CASE pc'[r] = "setStatus"
      BY Zenon, <3>1 DEF ViewOK, ViewLabels, StopLabels
    <3>2. CASE /\ pc[r] = "pause" /\ pc'[r] = "podsGone"
               /\ spec' = [spec EXCEPT !.pause = @ \/ ~view[r].spec.pause]
      <4>1. view[r].spec = spec
        BY Zenon, <3>2 DEF ViewInv, ViewOK, ViewLabels
      <4>2. spec.pause \in BOOLEAN /\ spec'.pause = (spec.pause \/ ~view[r].spec.pause)
        BY Zenon, <3>2, <1>a DEF TypeOK, Specs
      <4> QED BY Zenon, <3>2, <4>1, <4>2 DEF ViewOK, ViewLabels
    <3> QED BY Zenon, <1>2, <3>1, <3>2, UpdateEffects
  <2> QED BY Zenon, <2>2, <2>3 DEF ViewInv
<1>3. CASE ~Updates(r)
  <2>1. UNCHANGED <<spec, seen>>
    BY Zenon, <1>3, ClusterStays
  <2>2. ASSUME NEW o \in Restores \ {r} PROVE ViewOK(o)'
    <3>1. pc'[o] = pc[o] /\ view'[o] = view[o] /\ ViewOK(o)
      BY Zenon, <1>1 DEF Others, ViewInv
    <3> QED BY Zenon, <2>1, <3>1 DEF ViewOK
  <2>3. ViewOK(r)'
    <3>1. ViewOK(r)
      BY Zenon DEF ViewInv
    <3>2. view'[r] = [spec |-> spec, seen |-> seen] =>
              view'[r].spec = spec /\ view'[r].seen = seen
      OBVIOUS
    <3> QED BY Zenon, <1>3, <2>1, <3>1, <3>2, OwnLabels DEF ViewOK
  <2> QED BY Zenon, <2>2, <2>3 DEF ViewInv
<1> QED BY Zenon, <1>2, <1>3

\* The status of the cluster stays as good as it is, as long as it is current.
LEMMA NextView ==
    ASSUME Inv, MemInv, CtlInv, ViewInv, [Next]_vars
    PROVE  ViewInv'
<1>a. TypeOK
  BY Zenon DEF Inv
<1>1. ASSUME UNCHANGED <<spec, pc, view>>,
             seen.current => /\ seen'.current /\ seen'.proxy = seen.proxy
                             /\ seen.ready => seen'.ready
      PROVE  ViewInv'
  BY Zenon, <1>1 DEF ViewInv, ViewOK
<1>2. CASE Crash
  <2>1. \A r \in Restores : pc'[r] = "idle"
    BY Zenon, <1>2 DEF Crash
  <2> QED BY Zenon, <2>1 DEF ViewInv, ViewOK, ViewLabels, StopLabels
<1>3. CASE ControllerObserves
  <2>1. /\ ctl = "observe" /\ UNCHANGED <<spec, pc, view>>
        /\ seen'.current = ctlFresh /\ seen'.proxy = ctlSpec.proxy
        /\ seen'.ready = (~ctlSpec.pause /\ pods = ctlSpec.size)
    BY Zenon, <1>3 DEF ControllerObserves
  <2> QED BY Zenon, <1>1, <2>1 DEF CtlInv
<1>4. CASE \/ ControllerReads \/ ControllerApplies \/ PodStops \/ PodStarts
           \/ UNCHANGED vars
           \/ \E r \in Restores : CreateRestore(r)
           \/ \E r \in Restores, k \in JobKinds : JobEnds(r, k) \/ JobExpires(r, k)
  <2>1. UNCHANGED <<spec, pc, view, seen>>
    BY Zenon, <1>4 DEF ControllerReads, ControllerApplies, PodStops, PodStarts,
       CreateRestore, JobEnds, JobExpires, clusterVars, vars, stepVars
  <2> QED BY Zenon, <1>1, <2>1
<1> QED BY Zenon, <1>2, <1>3, <1>4, ReconcileView DEF Next, Step, ClusterSteps

(***************************************************************************)
(* The ways a reconcile returns.                                           *)
(***************************************************************************)
Fails(r) ==
    \/ pc[r] = "others" /\ OtherRestoreInProgress(r)
    \/ pc[r] = "cluster" /\ "invalid" \in events
    \/ pc[r] = "new"
    \/ pc[r] = "createJob" /\ "jobError" \in events
    \/ pc[r] = "restoring" /\ job[r]["restore"] = "failed"
    \/ pc[r] = "recovering" /\ job[r]["pitr"] = "failed"
    \/ pc[r] = "preparing" /\ job[r]["prepare"] = "failed"

\* The states that a reconcile can return with.
Outcome(r) ==
    \/ mem'[r] = mem[r]
    \/ pc[r] = "new" /\ mem'[r] = Saving(mem[r], view[r].spec)
    \/ Fails(r) /\ mem'[r] = InState(mem[r], "Failed")
    \/ /\ pc[r] = "createJob" /\ CreateJob(r, "restore")
       /\ mem'[r] = InState(mem[r], "Restore")
    \/ /\ pc[r] = "createPITR" /\ CreateJob(r, "pitr")
       /\ mem'[r] = InState(mem[r], "PITR")
    \/ /\ pc[r] = "restoring" /\ job[r]["restore"] = "complete" /\ r \notin WithPITR
       /\ mem'[r] = InState(mem[r], IF PreparesCluster THEN "PrepareCluster"
                                    ELSE "StartCluster")
    \/ /\ \/ pc[r] = "recovering" /\ job[r]["pitr"] = "complete"
          \/ pc[r] = "preparing" /\ job[r]["prepare"] = "complete"
       /\ mem'[r] = InState(mem[r], "StartCluster")
    \/ /\ pc[r] = "starting" /\ ~Differs(r) /\ view[r].seen.current /\ view[r].seen.ready
       /\ mem'[r] = InState(mem[r], "Succeeded")

\* They are all there are.
LEMMA Outcomes ==
    ASSUME Inv, MemInv, NEW r \in Restores, Reconcile(r) \/ APIError(r), pc'[r] = "setStatus"
    PROVE  /\ pc[r] \notin {"idle", "finalizers", "setStatus"}
           /\ mem[r] = Loaded(r) /\ status' = status
           /\ Outcome(r)
<1>a. TypeOK
  BY Zenon DEF Inv
<1>p. \A l : pc' = [pc EXCEPT ![r] = l] => pc'[r] = l
  BY Zenon, <1>a DEF TypeOK
<1>m. \A l : mem' = [mem EXCEPT ![r] = l] => mem'[r] = l
  BY Zenon, <1>a DEF TypeOK
<1>1. pc[r] \notin {"idle", "finalizers", "setStatus"} /\ status' = status
  BY Zenon, <1>p DEF Reconcile, APIError, Get, RunJobFinalizers, CheckOthers, GetCluster,
     ReconcileStateNew, PauseCluster, WaitForPodsShutdown, DeleteVolumes,
     WaitForPVCShutdown, CreateRestoreJob, ReconcileStateRestore, UnpauseOne,
     CreatePITRJob, ReconcileStatePITR, ReconcileStatePrepareCluster,
     ReconcileStateStartCluster, UnpauseCluster, SetStatus, Goto, Return, ReturnIn
<1>2. mem[r] = Loaded(r)
  BY Zenon, <1>1 DEF MemInv, MemOK
<1> SUFFICES Outcome(r)
  BY Zenon, <1>1, <1>2
<1>3. CASE CheckOthers(r) \/ GetCluster(r) \/ ReconcileStateNew(r)
  BY Zenon, <1>3, <1>p, <1>m DEF CheckOthers, GetCluster, ReconcileStateNew, Goto, Return,
     ReturnIn, Outcome, Fails
<1>4. CASE CreateRestoreJob(r) \/ CreatePITRJob(r)
  BY Zenon, <1>4, <1>p, <1>m DEF CreateRestoreJob, CreatePITRJob, Goto, Return,
     ReturnIn, Outcome, Fails
<1>5. CASE ReconcileStateRestore(r)
  BY Zenon, <1>5, <1>p, <1>m DEF ReconcileStateRestore, Goto, Return,
     ReturnIn, Outcome, Fails
<1>6. CASE ReconcileStatePITR(r) \/ ReconcileStatePrepareCluster(r)
           \/ ReconcileStateStartCluster(r)
  BY Zenon, <1>6, <1>p, <1>m DEF ReconcileStatePITR, ReconcileStatePrepareCluster,
     ReconcileStateStartCluster, Goto, Return, ReturnIn, Outcome, Fails
<1>7. CASE \/ WaitForPodsShutdown(r) \/ WaitForPVCShutdown(r) \/ UnpauseOne(r)
           \/ UnpauseCluster(r) \/ APIError(r) \/ PauseCluster(r) \/ DeleteVolumes(r)
  BY Zenon, <1>7 DEF WaitForPodsShutdown, WaitForPVCShutdown, UnpauseOne, UnpauseCluster,
     APIError, PauseCluster, DeleteVolumes, Return, Outcome
<1>8. CASE Get(r) \/ RunJobFinalizers(r) \/ SetStatus(r)
  BY Zenon, <1>8, <1>1 DEF Get, RunJobFinalizers, SetStatus
<1> QED BY Zenon, <1>3, <1>4, <1>5, <1>6, <1>7, <1>8 DEF Reconcile

\* Only the deferred function writes the status, of what is in memory.
LEMMA StatusWrites ==
    ASSUME Inv, NEW r \in Restores, Reconcile(r) \/ APIError(r)
    PROVE  \/ status' = status
           \/ /\ pc[r] = "setStatus" /\ pc'[r] = "idle"
              /\ status'[r].state = mem[r].state /\ status'[r].saved = mem[r].saved
              /\ UNCHANGED <<job, kept>>
<1>a. TypeOK /\ mem[r] \in Statuses
  BY Zenon DEF Inv, TypeOK
<1>1. \A b \in BOOLEAN : /\ [mem[r] EXCEPT !.completed = b].state = mem[r].state
                         /\ [mem[r] EXCEPT !.completed = b].saved = mem[r].saved
  BY Zenon, <1>a DEF Statuses
<1>2. (mem[r].completed \/ status[r].state = "Succeeded") \in BOOLEAN
  BY Zenon, <1>a DEF Statuses
<1>3. CASE SetStatus(r)
  <2>1. pc[r] = "setStatus" /\ pc'[r] = "idle" /\ UNCHANGED <<job, kept>>
    BY Zenon, <1>3, <1>a DEF SetStatus, TypeOK, jobVars
  <2>2. ASSUME status' # status
        PROVE  status'[r] = [mem[r] EXCEPT !.completed =
                                 mem[r].completed \/ status[r].state = "Succeeded"]
    BY Zenon, <1>3, <2>2, <1>a DEF SetStatus, TypeOK
  <2> QED BY Zenon, <1>1, <1>2, <2>1, <2>2
<1>4. CASE ~SetStatus(r)
  BY Zenon, <1>4 DEF Reconcile, APIError, Get, RunJobFinalizers, CheckOthers, GetCluster,
     ReconcileStateNew, PauseCluster, WaitForPodsShutdown, DeleteVolumes,
     WaitForPVCShutdown, CreateRestoreJob, ReconcileStateRestore, UnpauseOne,
     CreatePITRJob, ReconcileStatePITR, ReconcileStatePrepareCluster,
     ReconcileStateStartCluster, UnpauseCluster
<1> QED BY Zenon, <1>3, <1>4

\* A reconcile in the handler of a state that works has read that state.
LEMMA MemIsStatus ==
    ASSUME Inv, MemInv, NEW r \in Restores, pc[r] \notin {"idle", "finalizers", "setStatus"}
    PROVE  /\ mem[r] = status[r] \/ /\ status[r].state = "New" /\ mem[r].state = "Starting"
                                    /\ mem[r].saved = status[r].saved
           /\ pc[r] \in StopLabels => status[r].state = "StopCluster" /\ mem[r] = status[r]
           /\ pc[r] \in RestoreLabels => status[r].state = "Restore" /\ mem[r] = status[r]
           /\ pc[r] = "recovering" => status[r].state = "PITR" /\ mem[r] = status[r]
           /\ pc[r] = "preparing" => status[r].state = "PrepareCluster" /\ mem[r] = status[r]
           /\ pc[r] \in {"starting", "unpause"} =>
                  status[r].state = "StartCluster" /\ mem[r] = status[r]
           /\ pc[r] = "new" => status[r].state \in {"New", "Starting"}
<1>1. MemOK(r) /\ status[r] \in Statuses /\ "Starting" \in States
  BY Zenon DEF Inv, TypeOK, MemInv, States
<1>2. /\ InState(status[r], "Starting").state = "Starting"
      /\ InState(status[r], "Starting").saved = status[r].saved
  BY Zenon, <1>1, InStateFields
<1>3. mem[r] = Loaded(r)
  BY Zenon, <1>1 DEF MemOK
<1>4. mem[r] = status[r] \/ (/\ status[r].state = "New" /\ mem[r].state = "Starting"
                             /\ mem[r].saved = status[r].saved)
  BY Zenon, <1>2, <1>3 DEF Loaded
<1> QED BY Zenon, <1>1, <1>4 DEF MemOK

(***************************************************************************)
(* Sizes.                                                                  *)
(***************************************************************************)

\* What is in the two shapes.
LEMMA Shapes ==
    /\ Orig.size = Size /\ Orig.proxy = ProxySize
    /\ One.size = 1 /\ One.proxy = 0
    /\ \A s \in Specs : /\ Shape(s).size = s.size /\ Shape(s).proxy = s.proxy
                        /\ Shape(s).unsafe = s.unsafe
BY Zenon DEF Orig, One, Shape, SpecAtFirst

\* A restore that finds no difference has the cluster of the sizes it saved.
LEMMA NoDifference ==
    ASSUME Inv, MemInv, ViewInv, ShapeInv, NEW r \in Restores,
           pc[r] = "starting", ~Differs(r)
    PROVE  /\ ~spec.pause
           /\ Size > 1 \/ ProxySize > 0 => Shape(spec) = status[r].saved
<1>1. status[r].state = "StartCluster" /\ mem[r] = status[r]
  BY Zenon, MemIsStatus
<1>2. view[r].spec = spec /\ spec \in Specs
  BY Zenon DEF Inv, TypeOK, ViewInv, ViewOK, ViewLabels
<1>3. /\ ~spec.pause
      /\ status[r].saved.size # 0 => spec.size = status[r].saved.size
      /\ ProxySize # 0 /\ status[r].saved.proxy # 0 => spec.proxy = status[r].saved.proxy
  BY Zenon, <1>1, <1>2 DEF Differs
<1>4. /\ status[r].saved \in {Orig, One} /\ Shape(spec) \in {Orig, One}
      /\ status[r].saved = One => Shape(spec) = One
  BY Zenon, <1>1 DEF ShapeInv, ShapeOK, SavedInv, Working
<1>5. ASSUME status[r].saved = Orig, Shape(spec) = One
      PROVE  Size = 1 /\ ProxySize = 0
  <2>1. /\ Size # 0 => spec.size = Size
        /\ ProxySize # 0 => spec.proxy = ProxySize
        /\ spec.size = 1 /\ spec.proxy = 0
    BY Zenon, <1>2, <1>3, <1>5, Shapes
  <2> QED BY <2>1, RestoreAssumption
<1>6. Size = 1 /\ ProxySize = 0 => ~(Size > 1 \/ ProxySize > 0)
  BY RestoreAssumption
<1> QED BY Zenon, <1>3, <1>4, <1>5, <1>6

\* A reconcile that returns knows as much of the sizes it has saved as the status.
LEMMA OutcomeInShape ==
    ASSUME Inv, MemInv, ViewInv, ShapeInv, NEW r \in Restores,
           pc[r] \notin {"idle", "finalizers", "setStatus"}, Outcome(r)
    PROVE  /\ SavedInv(mem'[r])
           /\ mem'[r].state = "Succeeded" =>
                  /\ ~spec.pause
                  /\ Size > 1 \/ ProxySize > 0 => Shape(spec) = status[r].saved
<1>a. /\ mem[r] \in Statuses /\ status[r] \in Statuses /\ view[r] \in Views /\ InProgress(r)
      /\ SavedInv(status[r])
  BY Zenon DEF Inv, TypeOK, ClaimInv, ShapeInv, ShapeOK
<1>s. {"Failed", "StopCluster", "Restore", "PITR", "PrepareCluster", "StartCluster",
       "Succeeded", "Starting", "New"} \subseteq States
  BY Zenon DEF States, Finished, Working
<1>i. \A s \in States : /\ InState(mem[r], s).state = s
                         /\ InState(mem[r], s).saved = mem[r].saved
  BY Zenon, <1>a, InStateFields
<1>1. SavedInv(mem[r]) /\ mem[r].state # "Succeeded"
  BY Zenon, <1>a, MemIsStatus DEF SavedInv, Working, InProgress, Finished
<1>2. CASE mem'[r] = mem[r]
  BY Zenon, <1>1, <1>2
<1>3. CASE pc[r] = "new" /\ mem'[r] = Saving(mem[r], view[r].spec)
  <2>1. view[r].spec = spec /\ view[r].spec \in Specs
    BY Zenon, <1>3, <1>a DEF ViewInv, ViewOK, ViewLabels, Views
  <2>2. mem'[r].state = "StopCluster" /\ mem'[r].saved = Shape(spec)
    BY <1>3, <1>a, <2>1, SavingFields
  <2> QED BY Zenon, <2>2 DEF SavedInv, ShapeInv
<1>4. CASE mem'[r] = InState(mem[r], "Failed")
  <2>1. mem'[r].state = "Failed"
    BY <1>4, <1>i, <1>s
  <2> QED BY Zenon, <2>1 DEF SavedInv, Working
<1>5. CASE pc[r] = "createJob" /\ mem'[r] = InState(mem[r], "Restore")
  <2>1. mem'[r].state = "Restore" /\ mem'[r].saved = mem[r].saved
    BY <1>5, <1>i, <1>s
  <2>2. mem[r].state = "StopCluster" /\ spec.pause
    BY Zenon, <1>5 DEF MemInv, MemOK, ViewInv, ViewOK, StopLabels
  <2> QED BY Zenon, <1>1, <2>1, <2>2 DEF SavedInv, Working
<1>6. ASSUME NEW s \in {"PITR", "PrepareCluster", "StartCluster"},
             mem'[r] = InState(mem[r], s), mem[r].state \in Working
      PROVE  SavedInv(mem'[r]) /\ mem'[r].state # "Succeeded"
  <2>1. mem'[r].state = s /\ mem'[r].saved = mem[r].saved
    BY <1>6, <1>i, <1>s
  <2> QED BY Zenon, <1>1, <1>6, <2>1 DEF SavedInv
<1>7. pc[r] \in {"createPITR", "restoring", "recovering", "preparing"}
          => mem[r].state \in Working
  BY Zenon DEF MemInv, MemOK, RestoreLabels, Working
<1>8. CASE /\ pc[r] = "starting" /\ ~Differs(r)
           /\ mem'[r] = InState(mem[r], "Succeeded")
  <2>1. mem'[r].state = "Succeeded"
    BY <1>8, <1>i, <1>s
  <2> QED BY Zenon, <1>8, <2>1, NoDifference DEF SavedInv, Working
<1> QED BY Zenon, <1>2, <1>3, <1>4, <1>5, <1>6, <1>7, <1>8 DEF Outcome

\* A reconcile keeps the cluster to one of its two shapes.
LEMMA ReconcileShape ==
    ASSUME Inv, MemInv, ViewInv, ShapeInv, NEW r \in Restores, Reconcile(r) \/ APIError(r)
    PROVE  ShapeInv'
<1>a. TypeOK /\ ClaimInv
  BY Zenon DEF Inv
<1>o. Others(r)
  BY Zenon, <1>a, OthersStay
<1>1. CASE Updates(r)
  <2>1. /\ HasClaim(r) /\ UNCHANGED <<status, mem, ctlSpec>>
        /\ pc[r] \in {"pause", "unpauseOne", "unpause"}
    BY Zenon, <1>1, UpdateEffects
  <2>2. \A o \in Restores \ {r} : ~HasClaim(o)
    BY Zenon, <2>1, <1>a DEF ClaimInv
  <2>3. ASSUME NEW o \in Restores \ {r} PROVE ShapeOK(o)'
    <3>1. status[o].state \notin Working /\ (pc[o] = "setStatus" => mem[o].state \notin Working)
      BY Zenon, <2>2 DEF HasClaim, HasPassed
    <3>2. pc[o] = "setStatus" => mem[o].state # "Succeeded"
      BY Zenon, <3>1 DEF MemInv, MemOK, Working
    <3>3. pc'[o] = pc[o] /\ status'[o] = status[o] /\ mem'[o] = mem[o]
      BY Zenon, <1>o DEF Others
    <3> QED BY Zenon, <3>1, <3>2, <3>3 DEF ShapeOK, SavedInv, Working
  <2>4. status[r].state \in Working => status[r].saved \in {Orig, One}
    BY Zenon DEF ShapeInv, ShapeOK, SavedInv
  <2>5. CASE pc[r] = "pause" /\ pc'[r] = "podsGone" /\ Shape(spec') = Shape(spec)
    <3>1. status[r].state = "StopCluster"
      BY Zenon, <2>5, MemIsStatus DEF StopLabels
    <3>2. ShapeOK(r)'
      BY Zenon, <2>1, <2>5, <3>1 DEF ShapeInv, ShapeOK, SavedInv
    <3> QED BY Zenon, <2>1, <2>3, <2>5, <3>2 DEF ShapeInv
  <2>6. CASE pc[r] = "unpauseOne" /\ pc'[r] = "setStatus" /\ Shape(spec') = One
    <3>1. status[r].state = "Restore" /\ mem[r] = status[r]
      BY Zenon, <2>6, MemIsStatus DEF RestoreLabels
    <3>2. ShapeOK(r)'
      BY Zenon, <2>1, <2>4, <2>6, <3>1 DEF ShapeOK, SavedInv, Working
    <3> QED BY Zenon, <2>1, <2>3, <2>6, <3>2 DEF ShapeInv
  <2>7. CASE /\ pc[r] = "unpause" /\ pc'[r] = "setStatus" /\ Shape(spec') = mem[r].saved
             /\ mem[r] = status[r] /\ status[r].state = "StartCluster"
    <3>1. ShapeOK(r)'
      BY Zenon, <2>1, <2>4, <2>7 DEF ShapeOK, SavedInv, Working
    <3>2. Shape(spec)' \in {Orig, One}
      BY Zenon, <2>4, <2>7 DEF Working
    <3> QED BY Zenon, <2>1, <2>3, <3>1, <3>2 DEF ShapeInv
  <2> QED BY Zenon, <1>1, <2>5, <2>6, <2>7, UpdateEffects
<1>2. CASE ~Updates(r)
  <2>1. UNCHANGED <<spec, ctlSpec>>
    BY Zenon, <1>2, ClusterStays
  <2>2. ASSUME NEW o \in Restores \ {r} PROVE ShapeOK(o)'
    <3>1. pc'[o] = pc[o] /\ status'[o] = status[o] /\ mem'[o] = mem[o] /\ ShapeOK(o)
      BY Zenon, <1>o DEF Others, ShapeInv
    <3> QED BY Zenon, <2>1, <3>1 DEF ShapeOK, SavedInv
  <2>3. ShapeOK(r)
    BY Zenon DEF ShapeInv
  <2>4. CASE pc'[r] = "setStatus"
    <3>1. /\ status' = status /\ pc[r] \notin {"idle", "finalizers", "setStatus"}
          /\ Outcome(r)
      BY Zenon, <2>4, Outcomes
    <3>2. ShapeOK(r)'
      BY Zenon, <2>1, <2>3, <3>1, OutcomeInShape DEF ShapeOK, SavedInv
    <3> QED BY Zenon, <2>1, <2>2, <3>2 DEF ShapeInv
  <2>5. CASE pc'[r] # "setStatus"
    <3>1. ShapeOK(r)'
      BY Zenon, <2>1, <2>3, <2>5, StatusWrites DEF ShapeOK, SavedInv
    <3> QED BY Zenon, <2>1, <2>2, <3>1 DEF ShapeInv
  <2> QED BY Zenon, <2>4, <2>5
<1> QED BY Zenon, <1>1, <1>2

\* So does every step.
LEMMA NextShape ==
    ASSUME Inv, MemInv, ViewInv, ShapeInv, [Next]_vars
    PROVE  ShapeInv'
<1>a. TypeOK
  BY Zenon DEF Inv
<1>1. ASSUME UNCHANGED <<spec, status, pc, mem>>, Shape(ctlSpec') \in {Orig, One}
      PROVE  ShapeInv'
  BY Zenon, <1>1 DEF ShapeInv, ShapeOK, SavedInv
<1>2. CASE Crash
  <2>1. /\ UNCHANGED <<spec, status>> /\ Shape(ctlSpec') = Orig
        /\ \A r \in Restores : pc'[r] = "idle"
    BY Zenon, <1>2 DEF Crash, clusterVars, Orig
  <2> QED BY Zenon, <2>1 DEF ShapeInv, ShapeOK, SavedInv
<1>3. ASSUME NEW r \in Restores, CreateRestore(r)
      PROVE  ShapeInv'
  <2>1. /\ UNCHANGED <<spec, pc, mem, ctlSpec>> /\ status[r].state = "absent"
        /\ status'[r] = InState(status[r], "New")
        /\ \A o \in Restores \ {r} : status'[o] = status[o]
    BY Zenon, <1>3, <1>a DEF CreateRestore, TypeOK, clusterVars, ctlVars
  <2>2. status'[r].state = "New"
    BY <2>1, <1>a, InStateFields DEF TypeOK, States
  <2>3. pc[r] # "setStatus"
    BY Zenon, <2>1 DEF Inv, ClaimInv, InProgress
  <2>4. ShapeOK(r)'
    BY Zenon, <2>1, <2>2, <2>3 DEF ShapeOK, SavedInv, Working
  <2>5. \A o \in Restores \ {r} : ShapeOK(o)'
    BY Zenon, <2>1 DEF ShapeInv, ShapeOK, SavedInv
  <2> QED BY Zenon, <2>1, <2>4, <2>5 DEF ShapeInv
<1>4. CASE ControllerReads \/ ControllerObserves
  <2>1. /\ UNCHANGED <<spec, status, pc, mem>>
        /\ ctlSpec' = spec \/ ctlSpec' = SpecAtFirst
    BY Zenon, <1>4 DEF ControllerReads, ControllerObserves, clusterVars
  <2> QED BY Zenon, <1>1, <2>1 DEF ShapeInv, Orig
<1>5. CASE \/ ControllerApplies \/ PodStops \/ PodStarts \/ UNCHANGED vars
           \/ \E r \in Restores, k \in JobKinds : JobEnds(r, k) \/ JobExpires(r, k)
  <2>1. UNCHANGED <<spec, status, pc, mem, ctlSpec>>
    BY Zenon, <1>5 DEF ControllerApplies, PodStops, PodStarts, JobEnds, JobExpires,
       clusterVars, ctlVars, vars, stepVars
  <2> QED BY Zenon, <1>1, <2>1 DEF ShapeInv
<1> QED BY Zenon, <1>2, <1>3, <1>4, <1>5, ReconcileShape DEF Next, Step, ClusterSteps

(***************************************************************************)
(* Point-in-time recovery.                                                 *)
(***************************************************************************)

\* A reconcile creates a Job in the handler it belongs to, and returns.
Creates(r, k) ==
    /\ job[r][k] = "none" /\ job'[r][k] = "active"
    /\ kept'[r] = kept[r] \cup {k}
    /\ \A j \in JobKinds \ {k} : job'[r][j] = job[r][j]
    /\ pc'[r] = "setStatus"

\* Creating a Job that exists changes nothing.
LEMMA CreateJobEffects ==
    ASSUME TypeOK, NEW r \in Restores, NEW k \in JobKinds, CreateJob(r, k)
    PROVE  \/ job' = job /\ kept' = kept /\ job[r][k] # "none"
           \/ /\ job[r][k] = "none" /\ job'[r][k] = "active"
              /\ kept'[r] = kept[r] \cup {k}
              /\ \A j \in JobKinds \ {k} : job'[r][j] = job[r][j]
<1>1. CASE job[r][k] = "none"
  <2>1. job'[r] = InPhase(job[r], k, "active") /\ kept'[r] = kept[r] \cup {k}
    BY Zenon, <1>1 DEF CreateJob, TypeOK
  <2>2. job[r] \in [JobKinds -> JobPhases]
    BY Zenon DEF TypeOK
  <2>3. job'[r][k] = "active" /\ \A j \in JobKinds \ {k} : job'[r][j] = job[r][j]
    BY Zenon, <2>1, <2>2 DEF InPhase
  <2> QED BY Zenon, <1>1, <2>1, <2>3
<1>2. CASE job[r][k] # "none"
  BY Zenon, <1>2 DEF CreateJob, jobVars
<1> QED BY Zenon, <1>1, <1>2

\* A reconcile changes no Job otherwise; finalizers go only at its end.
LEMMA JobWrites ==
    ASSUME Inv, NEW r \in Restores, Reconcile(r) \/ APIError(r)
    PROVE  \/ job' = job /\ (kept' = kept \/ pc[r] = "finalizers")
           \/ pc[r] = "createJob" /\ Creates(r, "restore")
           \/ pc[r] = "createPITR" /\ Creates(r, "pitr")
           \/ pc[r] = "preparing" /\ Creates(r, "prepare")
<1>a. TypeOK /\ {"restore", "pitr", "prepare"} \subseteq JobKinds
  BY Zenon DEF Inv, JobKinds
<1>p. \A l : pc' = [pc EXCEPT ![r] = l] => pc'[r] = l
  BY Zenon, <1>a DEF TypeOK
<1>1. CASE CreateRestoreJob(r)
  <2>1. /\ pc[r] = "createJob" /\ pc'[r] = "setStatus"
        /\ UNCHANGED <<job, kept>> \/ CreateJob(r, "restore")
    BY Zenon, <1>1, <1>p DEF CreateRestoreJob, Return, ReturnIn, Goto, jobVars
  <2> QED BY Zenon, <2>1, <1>a, CreateJobEffects DEF Creates
<1>2. CASE CreatePITRJob(r)
  <2>1. /\ pc[r] = "createPITR" /\ pc'[r] = "setStatus"
        /\ UNCHANGED <<job, kept>> \/ CreateJob(r, "pitr")
    BY Zenon, <1>2, <1>p DEF CreatePITRJob, Return, ReturnIn, Goto, jobVars
  <2> QED BY Zenon, <2>1, <1>a, CreateJobEffects DEF Creates
<1>3. CASE ReconcileStatePrepareCluster(r)
  <2>1. pc[r] = "preparing" /\ pc'[r] = "setStatus" /\ CreateJob(r, "prepare")
    BY Zenon, <1>3, <1>p DEF ReconcileStatePrepareCluster, Return, ReturnIn, Goto
  <2> QED BY Zenon, <2>1, <1>a, CreateJobEffects DEF Creates
<1>4. CASE ~(CreateRestoreJob(r) \/ CreatePITRJob(r) \/ ReconcileStatePrepareCluster(r))
  BY Zenon, <1>4 DEF Reconcile, APIError, Get, RunJobFinalizers, CheckOthers, GetCluster,
     ReconcileStateNew, PauseCluster, WaitForPodsShutdown, DeleteVolumes,
     WaitForPVCShutdown, ReconcileStateRestore, UnpauseOne, ReconcileStatePITR,
     ReconcileStateStartCluster, UnpauseCluster, SetStatus, jobVars
<1> QED BY Zenon, <1>1, <1>2, <1>3, <1>4

\* A cluster whose status is current and ready is as its specification says.
LEMMA ReadyCluster ==
    ASSUME Inv, CtlInv, ViewInv, NEW r \in Restores, pc[r] \in ViewLabels,
           view[r].seen.current, view[r].seen.ready
    PROVE  /\ view[r].spec = spec /\ ~spec.pause /\ seen.current
           /\ replicas = spec.size /\ pods = spec.size /\ seen.proxy = view[r].seen.proxy
           /\ ctl # "idle" => ctlSpec = spec
BY Zenon DEF CtlInv, ViewInv, ViewOK, Want

\* A recovery starts in a cluster of one node.
LEMMA RecoveryStarts ==
    ASSUME Inv, MemInv, CtlInv, ViewInv, ShapeInv, NEW r \in Restores, pc[r] = "createPITR"
    PROVE  /\ Shape(spec) = One /\ replicas <= 1 /\ pods <= 1 /\ seen.proxy = 0
           /\ ctl # "idle" => Shape(ctlSpec) = One
           /\ status[r].state = "Restore" /\ mem[r] = status[r] /\ r \in WithPITR
           /\ \A o \in Restores \ {r} :
                  /\ SavesOne(status[o])
                  /\ pc[o] = "setStatus" => SavesOne(mem[o])
<1>1. status[r].state = "Restore" /\ mem[r] = status[r]
  BY Zenon, MemIsStatus DEF RestoreLabels
<1>2. /\ view[r].seen.current /\ view[r].seen.ready /\ view[r].seen.proxy = 0
      /\ r \in WithPITR /\ pc[r] \in ViewLabels
  BY Zenon DEF ViewInv, ViewOK, ViewLabels
<1>3. /\ ~spec.pause /\ replicas = spec.size /\ pods = spec.size /\ seen.proxy = 0
      /\ ctl # "idle" => ctlSpec = spec
  BY Zenon, <1>2, ReadyCluster
<1>4. Shape(spec) = One
  BY Zenon, <1>1, <1>3 DEF ShapeInv, ShapeOK, SavedInv
<1>5. spec.size = 1
  BY Zenon, <1>4, Shapes DEF Inv, TypeOK
<1>6. replicas <= 1 /\ pods <= 1
  BY <1>3, <1>5
<1>7. HasClaim(r)
  BY Zenon, <1>2, ViewersHaveClaims
<1>8. \A o \in Restores \ {r} : /\ SavesOne(status[o])
                                /\ pc[o] = "setStatus" => SavesOne(mem[o])
  BY Zenon, <1>7 DEF Inv, ClaimInv, HasClaim, HasPassed, SavesOne
<1> QED BY Zenon, <1>1, <1>2, <1>3, <1>4, <1>6, <1>8

\* The state a reconcile returns with, if it is a working one, has the sizes of
\* the status, or those of the cluster.
LEMMA OutcomeSaves ==
    ASSUME Inv, MemInv, ViewInv, NEW r \in Restores,
           pc[r] \notin {"idle", "finalizers", "setStatus"}, Outcome(r),
           SavesOne(status[r]), Shape(spec) = One
    PROVE  SavesOne(mem'[r])
<1>a. mem[r] \in Statuses /\ view[r] \in Views
  BY Zenon DEF Inv, TypeOK
<1>1. SavesOne(mem[r])
  BY Zenon, MemIsStatus DEF SavesOne, Working
<1>2. CASE mem'[r] = mem[r]
  BY Zenon, <1>1, <1>2
<1>3. CASE pc[r] = "new" /\ mem'[r] = Saving(mem[r], view[r].spec)
  <2>1. view[r].spec = spec /\ view[r].spec \in Specs
    BY Zenon, <1>3, <1>a DEF ViewInv, ViewOK, ViewLabels, Views
  <2>2. mem'[r].saved = Shape(spec)
    BY <1>3, <1>a, <2>1, SavingFields
  <2> QED BY Zenon, <2>2 DEF SavesOne
<1>4. CASE mem'[r] = InState(mem[r], "Failed") \/ mem'[r] = InState(mem[r], "Succeeded")
  <2>1. mem'[r].state \in Finished
    BY <1>4, <1>a, InStateFields DEF States, Finished
  <2> QED BY Zenon, <2>1 DEF SavesOne, Working, Finished
<1>5. ASSUME mem[r].state \in Working, NEW s \in Working, mem'[r] = InState(mem[r], s)
      PROVE  SavesOne(mem'[r])
  <2>1. s \in States
    BY Zenon, <1>5 DEF States
  <2>2. mem'[r].saved = mem[r].saved
    BY <1>5, <1>a, <2>1, InStateFields
  <2> QED BY Zenon, <1>1, <1>5, <2>2 DEF SavesOne
<1>6. pc[r] \in {"createJob", "createPITR", "restoring", "recovering", "preparing"}
          => mem[r].state \in Working
  BY Zenon DEF MemInv, MemOK, RestoreLabels, StopLabels, Working
<1>7. {"Restore", "PITR", "PrepareCluster", "StartCluster"} \subseteq Working
  BY Zenon DEF Working
<1> QED BY Zenon, <1>2, <1>3, <1>4, <1>5, <1>6, <1>7 DEF Outcome

\* The cluster is started again only when the recovery, or the preparation of a
\* restore without one, is complete.
LEMMA OutcomeStarts ==
    ASSUME Inv, MemInv, NEW r \in Restores,
           pc[r] \notin {"idle", "finalizers", "setStatus"}, Outcome(r)
    PROVE  /\ mem'[r].state = "StartCluster" =>
                  \/ status[r].state = "StartCluster" /\ mem'[r] = mem[r]
                  \/ pc[r] = "restoring" /\ r \notin WithPITR /\ ~PreparesCluster
                     /\ job[r]["restore"] = "complete"
                  \/ pc[r] = "preparing" /\ job[r]["prepare"] = "complete"
                  \/ pc[r] = "recovering" /\ job[r]["pitr"] = "complete"
           /\ mem'[r].state = "PrepareCluster" =>
                  \/ status[r].state = "PrepareCluster" /\ mem'[r] = mem[r]
                  \/ pc[r] = "restoring" /\ r \notin WithPITR /\ PreparesCluster
                     /\ job[r]["restore"] = "complete"
<1>a. mem[r] \in Statuses /\ view[r] \in Views
  BY Zenon DEF Inv, TypeOK
<1>s. {"Failed", "Restore", "PITR", "PrepareCluster", "StartCluster", "Succeeded"}
          \subseteq States
  BY Zenon DEF States, Finished, Working
<1>1. CASE mem'[r] = mem[r]
  BY Zenon, <1>1, MemIsStatus
<1>2. CASE mem'[r] = Saving(mem[r], view[r].spec)
  <2>1. mem'[r].state = "StopCluster"
    BY <1>2 DEF Saving
  <2> QED BY Zenon, <2>1
<1>3. \A s \in States : InState(mem[r], s).state = s
  BY Zenon, <1>a, InStateFields
<1>4. CASE \/ mem'[r] = InState(mem[r], "Failed") \/ mem'[r] = InState(mem[r], "Restore")
           \/ mem'[r] = InState(mem[r], "PITR") \/ mem'[r] = InState(mem[r], "Succeeded")
  <2>1. mem'[r].state \in {"Failed", "Restore", "PITR", "Succeeded"}
    BY <1>3, <1>4, <1>s
  <2> QED BY Zenon, <2>1
<1>5. CASE /\ pc[r] = "restoring" /\ job[r]["restore"] = "complete" /\ r \notin WithPITR
           /\ mem'[r] = InState(mem[r], IF PreparesCluster THEN "PrepareCluster"
                                        ELSE "StartCluster")
  <2>1. mem'[r].state = IF PreparesCluster THEN "PrepareCluster" ELSE "StartCluster"
    BY <1>3, <1>5, <1>s
  <2> QED BY Zenon, <1>5, <2>1
<1>6. CASE /\ \/ pc[r] = "recovering" /\ job[r]["pitr"] = "complete"
              \/ pc[r] = "preparing" /\ job[r]["prepare"] = "complete"
           /\ mem'[r] = InState(mem[r], "StartCluster")
  <2>1. mem'[r].state = "StartCluster"
    BY <1>3, <1>6, <1>s
  <2> QED BY Zenon, <1>6, <2>1
<1> QED BY Zenon, <1>1, <1>2, <1>4, <1>5, <1>6 DEF Outcome

\* Recovery Jobs and PrepareCluster belong to different restores.
LEMMA ReconcileKinds ==
    ASSUME Inv, MemInv, ViewInv, AloneInv, NEW r \in Restores, Reconcile(r) \/ APIError(r)
    PROVE  /\ job'[r]["pitr"] # "none" => r \in WithPITR
           /\ status'[r].state = "PrepareCluster" => r \notin WithPITR
           /\ pc'[r] = "setStatus" /\ mem'[r].state = "PrepareCluster" => r \notin WithPITR
<1>1. AloneOK(r) /\ {"restore", "pitr", "prepare"} \subseteq JobKinds
  BY Zenon DEF AloneInv, JobKinds
<1>2. job'[r]["pitr"] # "none" => r \in WithPITR
  <2>1. pc[r] = "createPITR" => r \in WithPITR
    BY Zenon DEF ViewInv, ViewOK
  <2>2. job'[r]["pitr"] = job[r]["pitr"] \/ pc[r] = "createPITR"
    BY Zenon, <1>1, JobWrites DEF Creates
  <2> QED BY Zenon, <1>1, <2>1, <2>2 DEF AloneOK
<1>3. status'[r].state = "PrepareCluster" => r \notin WithPITR
  BY Zenon, <1>1, StatusWrites DEF AloneOK
<1>4. ASSUME pc'[r] = "setStatus", mem'[r].state = "PrepareCluster" PROVE r \notin WithPITR
  BY Zenon, <1>1, <1>4, Outcomes, OutcomeStarts DEF AloneOK
<1> QED BY Zenon, <1>2, <1>3, <1>4

\* While a recovery runs, the cluster stays as small as it is.
LEMMA ReconcileAlone ==
    ASSUME Inv, MemInv, CtlInv, ViewInv, ShapeInv, AloneInv,
           NEW r \in Restores, Reconcile(r) \/ APIError(r),
           NEW q \in Restores, job'[q]["pitr"] = "active"
    PROVE  Alone(q)'
<1>a. TypeOK /\ AloneOK(q) /\ AloneOK(r) /\ {"restore", "pitr", "prepare"} \subseteq JobKinds
  BY Zenon DEF Inv, AloneInv, JobKinds
<1>o. Others(r)
  BY Zenon, <1>a, OthersStay
<1>1. CASE q = r /\ pc[r] = "createPITR"
  <2>1. /\ Shape(spec) = One /\ replicas <= 1 /\ pods <= 1 /\ seen.proxy = 0
        /\ ctl # "idle" => Shape(ctlSpec) = One
        /\ status[r].state = "Restore" /\ mem[r] = status[r] /\ r \in WithPITR
        /\ \A o \in Restores \ {r} :
               /\ SavesOne(status[o])
               /\ pc[o] = "setStatus" => SavesOne(mem[o])
    BY Zenon, <1>1, RecoveryStarts
  <2>2. ~Updates(r)
    BY Zenon, <1>1 DEF Updates, PauseCluster, UnpauseOne, UnpauseCluster
  <2>3. UNCHANGED <<spec, seen, replicas, pods, ctl, ctlSpec>>
    BY Zenon, <2>2, ClusterStays
  <2>4. status'[r].state # "StartCluster"
    BY Zenon, <1>1, <2>1, StatusWrites
  <2>5. pc'[r] = "setStatus" => mem'[r].state # "StartCluster"
    BY Zenon, <1>1, <2>1, Outcomes, OutcomeStarts
  <2>6. \A o \in Restores \ {r} : /\ SavesOne(status'[o])
                                  /\ pc'[o] = "setStatus" => SavesOne(mem'[o])
    BY Zenon, <1>o, <2>1 DEF Others, SavesOne
  <2> QED BY Zenon, <1>1, <2>1, <2>3, <2>4, <2>5, <2>6 DEF Alone, SavesOne
<1>2. CASE ~(q = r /\ pc[r] = "createPITR")
  <2>1. job[q]["pitr"] = "active"
    <3>1. CASE q = r
      BY Zenon, <1>2, <3>1, <1>a, JobWrites DEF Creates
    <3>2. CASE q # r
      BY Zenon, <3>2, <1>o DEF Others
    <3> QED BY Zenon, <3>1, <3>2
  <2>2. Alone(q) /\ q \in WithPITR
    BY Zenon, <2>1, <1>a DEF AloneOK
  <2>3. /\ Shape(spec)' = One /\ replicas' <= 1 /\ pods' <= 1 /\ seen'.proxy = 0
        /\ ctl' # "idle" => Shape(ctlSpec)' = One
    <3>1. CASE Updates(r)
      <4>1. UNCHANGED <<replicas, pods, ctl, ctlSpec>>
        BY Zenon, <3>1, UpdateEffects
      <4>2. seen'.proxy = seen.proxy
        BY Zenon, <3>1, <1>a, UpdateEffects DEF TypeOK, Seen
      <4>3. CASE Shape(spec') = Shape(spec) \/ Shape(spec') = One
        BY Zenon, <2>2, <4>1, <4>2, <4>3 DEF Alone
      <4>4. CASE /\ Shape(spec') = mem[r].saved
                 /\ mem[r] = status[r] /\ status[r].state = "StartCluster"
        <5>1. q # r
          BY Zenon, <2>2, <4>4 DEF Alone
        <5>2. mem[r].saved = One
          BY Zenon, <2>2, <4>4, <5>1 DEF Alone, SavesOne, Working
        <5> QED BY Zenon, <2>2, <4>1, <4>2, <4>4, <5>2 DEF Alone
      <4> QED BY Zenon, <3>1, <4>3, <4>4, UpdateEffects
    <3>2. CASE ~Updates(r)
      BY Zenon, <3>2, <2>2, ClusterStays DEF Alone
    <3> QED BY Zenon, <3>1, <3>2
  <2>4. CASE q = r
    <3>1. status'[r].state # "StartCluster"
      BY Zenon, <2>2, <2>4, StatusWrites DEF Alone
    <3>2. ASSUME pc'[r] = "setStatus" PROVE mem'[r].state # "StartCluster"
      <4>1. pc[r] = "preparing" => r \notin WithPITR
        BY Zenon, <1>a, MemIsStatus DEF AloneOK
      <4> QED BY Zenon, <2>1, <2>2, <2>4, <3>2, <4>1, Outcomes, OutcomeStarts DEF Alone
    <3>3. \A o \in Restores \ {r} : /\ SavesOne(status'[o])
                                    /\ pc'[o] = "setStatus" => SavesOne(mem'[o])
      BY Zenon, <1>o, <2>2, <2>4 DEF Others, SavesOne, Alone
    <3> QED BY Zenon, <2>3, <2>4, <3>1, <3>2, <3>3 DEF Alone, SavesOne
  <2>5. CASE q # r
    <3>1. pc'[q] = pc[q] /\ status'[q] = status[q] /\ mem'[q] = mem[q]
      BY Zenon, <2>5, <1>o DEF Others
    <3>2. SavesOne(status[r]) /\ (pc[r] = "setStatus" => SavesOne(mem[r]))
      BY Zenon, <2>2, <2>5 DEF Alone
    <3>3. SavesOne(status'[r])
      BY Zenon, <3>2, StatusWrites DEF SavesOne
    <3>4. pc'[r] = "setStatus" => SavesOne(mem'[r])
      BY Zenon, <2>2, <3>2, Outcomes, OutcomeSaves DEF Alone
    <3>5. \A o \in Restores \ {q, r} : /\ SavesOne(status'[o])
                                       /\ pc'[o] = "setStatus" => SavesOne(mem'[o])
      BY Zenon, <1>o, <2>2 DEF Others, SavesOne, Alone
    <3>6. \A o \in Restores \ {q} : /\ SavesOne(status'[o])
                                    /\ pc'[o] = "setStatus" => SavesOne(mem'[o])
      BY Zenon, <3>3, <3>4, <3>5
    <3> QED BY Zenon, <2>2, <2>3, <3>1, <3>6 DEF Alone, SavesOne
  <2> QED BY Zenon, <2>4, <2>5
<1> QED BY Zenon, <1>1, <1>2

\* A recovery is alone with its node through every step.
LEMMA NextAlone ==
    ASSUME Inv, MemInv, CtlInv, ViewInv, ShapeInv, AloneInv, [Next]_vars
    PROVE  AloneInv'
<1>a. TypeOK /\ "pitr" \in JobKinds
  BY Zenon DEF Inv, JobKinds
<1>1. ASSUME NEW r \in Restores, Reconcile(r) \/ APIError(r)
      PROVE  AloneInv'
  <2>1. AloneOK(r)'
    BY Zenon, <1>1, ReconcileKinds, ReconcileAlone DEF AloneOK
  <2>2. ASSUME NEW q \in Restores \ {r} PROVE AloneOK(q)'
    <3>1. /\ job'[q] = job[q] /\ pc'[q] = pc[q] /\ mem'[q] = mem[q]
          /\ status'[q] = status[q] /\ AloneOK(q)
      BY Zenon, <1>1, <1>a, OthersStay DEF Others, AloneInv
    <3>2. job'[q]["pitr"] = "active" => Alone(q)'
      BY Zenon, <1>1, ReconcileAlone
    <3> QED BY Zenon, <3>1, <3>2 DEF AloneOK
  <2> QED BY Zenon, <2>1, <2>2 DEF AloneInv
<1>2. ASSUME UNCHANGED <<status, pc, mem>>,
             \A q \in Restores : job'[q]["pitr"] \in {job[q]["pitr"], "none"}
                                 \/ (job[q]["pitr"] = "active" /\ job'[q]["pitr"] # "active"),
             \A q \in Restores : job'[q]["pitr"] = "active" /\ Alone(q) => Alone(q)'
      PROVE  AloneInv'
  <2> SUFFICES ASSUME NEW q \in Restores PROVE AloneOK(q)'
    BY Zenon DEF AloneInv
  <2>1. AloneOK(q)
    BY Zenon DEF AloneInv
  <2>2. job'[q]["pitr"] = "active" => job[q]["pitr"] = "active"
    BY Zenon, <1>2
  <2>3. job'[q]["pitr"] # "none" => job[q]["pitr"] # "none"
    BY Zenon, <1>2
  <2> QED BY Zenon, <1>2, <2>1, <2>2, <2>3 DEF AloneOK
<1>3. ASSUME UNCHANGED <<status, pc, mem, spec, seen, replicas, pods, ctl, ctlSpec>>
      PROVE  \A q \in Restores : Alone(q) => Alone(q)'
  BY Zenon, <1>3 DEF Alone, SavesOne
<1>4. ASSUME NEW r \in Restores, NEW k \in JobKinds, JobEnds(r, k) \/ JobExpires(r, k)
      PROVE  AloneInv'
  <2>1. UNCHANGED <<status, pc, mem, spec, seen, replicas, pods, ctl, ctlSpec>>
    BY Zenon, <1>4 DEF JobEnds, JobExpires, clusterVars, ctlVars
  <2>2. \E p \in {"failed", "complete", "none"} :
            /\ job' = [job EXCEPT ![r] = InPhase(job[r], k, p)]
            /\ p \in {"failed", "complete"} => job[r][k] = "active"
    BY Zenon, <1>4 DEF JobEnds, JobExpires
  <2>3. \A q \in Restores : job'[q]["pitr"] \in {job[q]["pitr"], "none"}
                            \/ (job[q]["pitr"] = "active" /\ job'[q]["pitr"] # "active")
    <3> SUFFICES ASSUME NEW q \in Restores
                 PROVE  job'[q]["pitr"] \in {job[q]["pitr"], "none"}
                        \/ (job[q]["pitr"] = "active" /\ job'[q]["pitr"] # "active")
      BY Zenon
    <3>1. CASE q # r
      BY Zenon, <3>1, <2>2, <1>a DEF TypeOK
    <3>2. CASE q = r
      <4>1. PICK p \in {"failed", "complete", "none"} :
                /\ job' = [job EXCEPT ![r] = InPhase(job[r], k, p)]
                /\ p \in {"failed", "complete"} => job[r][k] = "active"
        BY Zenon, <2>2
      <4>2. job'[r] = InPhase(job[r], k, p) /\ job[r] \in [JobKinds -> JobPhases]
        BY Zenon, <4>1, <1>a DEF TypeOK
      <4>3. job'[r]["pitr"] = IF k = "pitr" THEN p ELSE job[r]["pitr"]
        BY Zenon, <4>2, <1>a DEF InPhase
      <4> QED BY Zenon, <3>2, <4>1, <4>3
    <3> QED BY Zenon, <3>1, <3>2
  <2> QED BY Zenon, <1>2, <1>3, <2>1, <2>3
<1>5. ASSUME NEW r \in Restores, CreateRestore(r)
      PROVE  AloneInv'
  <2>1. /\ UNCHANGED <<job, spec, seen, replicas, pods, ctl, ctlSpec, pc, mem>>
        /\ status'[r] = InState(status[r], "New") /\ status[r].state = "absent"
        /\ \A o \in Restores \ {r} : status'[o] = status[o]
    BY Zenon, <1>5, <1>a DEF CreateRestore, TypeOK, clusterVars, ctlVars, jobVars
  <2>2. status'[r].state = "New"
    BY <2>1, <1>a, InStateFields DEF TypeOK, States
  <2>3. \A q \in Restores : \/ status'[q] = status[q]
                            \/ status'[q].state = "New"
    BY Zenon, <2>1, <2>2
  <2> SUFFICES ASSUME NEW q \in Restores PROVE AloneOK(q)'
    BY Zenon DEF AloneInv
  <2>4. AloneOK(q)
    BY Zenon DEF AloneInv
  <2>5. Alone(q) => Alone(q)'
    BY Zenon, <2>1, <2>3 DEF Alone, SavesOne, Working
  <2> QED BY Zenon, <2>1, <2>3, <2>4, <2>5 DEF AloneOK
<1>6. CASE Crash
  <2>1. /\ UNCHANGED <<job, status, spec, seen, replicas, pods>> /\ ctl' = "idle"
        /\ \A o \in Restores : pc'[o] = "idle"
    BY Zenon, <1>6 DEF Crash, clusterVars, jobVars
  <2> SUFFICES ASSUME NEW q \in Restores PROVE AloneOK(q)'
    BY Zenon DEF AloneInv
  <2>2. AloneOK(q)
    BY Zenon DEF AloneInv
  <2>3. Alone(q) => Alone(q)'
    BY Zenon, <2>1 DEF Alone, SavesOne
  <2> QED BY Zenon, <2>1, <2>2, <2>3 DEF AloneOK
<1>7. CASE ClusterSteps
  <2>1. UNCHANGED <<job, status, pc, mem, spec>>
    BY Zenon, <1>7 DEF ClusterSteps, ControllerReads, ControllerApplies,
       ControllerObserves, PodStops, PodStarts, clusterVars, jobVars
  <2>2. ASSUME NEW q \in Restores, Alone(q) PROVE Alone(q)'
    <3>1. \A o \in Restores : /\ SavesOne(status[o])' = SavesOne(status[o])
                              /\ SavesOne(mem[o])' = SavesOne(mem[o])
      BY Zenon, <2>1 DEF SavesOne
    <3>2. /\ Shape(spec)' = One
          /\ status'[q].state # "StartCluster"
          /\ pc'[q] = "setStatus" => mem'[q].state # "StartCluster"
          /\ \A o \in Restores \ {q} :
                 SavesOne(status[o])' /\ (pc'[o] = "setStatus" => SavesOne(mem[o])')
      BY Zenon, <2>1, <2>2, <3>1 DEF Alone
    <3>3. /\ Shape(spec) = One /\ replicas <= 1 /\ pods <= 1 /\ seen.proxy = 0
          /\ ctl # "idle" => Shape(ctlSpec) = One
      BY Zenon, <2>2 DEF Alone
    <3>4. ctl # "idle" => ctlSpec.size = 1 /\ ctlSpec.proxy = 0
      BY Zenon, <3>3, <1>a, Shapes DEF TypeOK
    <3>5. CASE ControllerReads
      BY Zenon, <3>2, <3>3, <3>5 DEF ControllerReads, clusterVars, Alone
    <3>6. CASE ControllerApplies
      <4>1. replicas' = 0 \/ replicas' = 1
        BY Zenon, <3>4, <3>6 DEF ControllerApplies
      <4>2. replicas' <= 1
        BY <4>1
      <4> QED BY Zenon, <3>2, <3>3, <3>6, <4>2 DEF ControllerApplies, Alone
    <3>7. CASE ControllerObserves
      <4>1. seen'.proxy = 0 /\ ctl' = "idle" /\ UNCHANGED <<replicas, pods>>
        BY Zenon, <3>4, <3>7 DEF ControllerObserves
      <4> QED BY Zenon, <3>2, <3>3, <4>1 DEF Alone
    <3>8. CASE PodStops \/ PodStarts
      <4>1. UNCHANGED <<replicas, seen, ctl, ctlSpec>>
        BY Zenon, <3>8 DEF PodStops, PodStarts, ctlVars
      <4>2. pods' <= 1
        BY <3>3, <3>8, <1>a DEF PodStops, PodStarts, TypeOK
      <4> QED BY Zenon, <3>2, <3>3, <4>1, <4>2 DEF Alone
    <3> QED BY Zenon, <1>7, <3>5, <3>6, <3>7, <3>8 DEF ClusterSteps
  <2> QED BY Zenon, <1>2, <2>1, <2>2
<1>8. CASE UNCHANGED vars
  <2>1. UNCHANGED <<job, status, pc, mem, spec, seen, replicas, pods, ctl, ctlSpec>>
    BY Zenon, <1>8 DEF vars, stepVars
  <2> QED BY Zenon, <1>2, <1>3, <2>1
<1> QED BY Zenon, <1>1, <1>4, <1>5, <1>6, <1>7, <1>8 DEF Next, Step

(***************************************************************************)
(* When no restore fails under its Jobs (~JobsMayOutlive), a Job runs only *)
(* for the restore in progress.                                            *)
(***************************************************************************)
LEMMA Calm ==
    ASSUME ~JobsMayOutlive
    PROVE  "overlap" \notin events /\ "invalid" \notin events /\ "jobError" \notin events
BY Zenon DEF JobsMayOutlive

\* A restore fails in its validation, or because one of its Jobs has failed.
LEMMA FailsForItsJobs ==
    ASSUME Inv, JobsInv, ~JobsMayOutlive, NEW r \in Restores, Fails(r)
    PROVE  \/ pc[r] = "new"
           \/ pc[r] = "restoring" /\ job[r]["restore"] = "failed"
           \/ pc[r] = "recovering" /\ job[r]["pitr"] = "failed"
           \/ pc[r] = "preparing" /\ job[r]["prepare"] = "failed"
<1>1. pc[r] = "others" => ~OtherRestoreInProgress(r)
  BY Zenon DEF Inv, ClaimInv, JobsInv, OtherRestoreInProgress
<1> QED BY Zenon, <1>1, Calm DEF Fails

\* What is left of the states before a state: Jobs that are complete stay so, and
\* no Job is created that belongs to another one.
LEMMA OutcomeKeepsChain ==
    ASSUME GeneralInv, JobsInv, ~JobsMayOutlive, NEW r \in Restores,
           Reconcile(r) \/ APIError(r), pc'[r] = "setStatus", ~Updates(r)
    PROVE  Chain(r, status[r].state)' /\ Chain(r, mem[r].state)'
<1>a. /\ Inv /\ MemInv /\ ViewInv /\ AloneInv /\ spec' = spec
      /\ {"restore", "pitr", "prepare"} = JobKinds
      /\ mem[r] \in Statuses /\ status[r] \in Statuses /\ view[r] \in Views
      /\ JobsOK(r) /\ AloneOK(r)
  BY Zenon, ClusterStays DEF GeneralInv, Inv, TypeOK, JobKinds, JobsInv, AloneInv
<1>b. /\ pc[r] \notin {"idle", "finalizers", "setStatus"} /\ status' = status /\ Outcome(r)
  BY Zenon, <1>a, Outcomes
<1>c. Chain(r, status[r].state)
  BY Zenon, <1>a DEF JobsOK
<1>s. {"Failed", "Restore", "PITR", "PrepareCluster", "StartCluster", "Succeeded"}
          \subseteq States
  BY Zenon DEF States, Finished, Working
<1>i. \A s \in States : InState(mem[r], s).state = s
  BY Zenon, <1>a, InStateFields
<1>j. \/ job' = job
      \/ pc[r] = "createJob" /\ Creates(r, "restore")
      \/ pc[r] = "createPITR" /\ Creates(r, "pitr")
      \/ pc[r] = "preparing" /\ Creates(r, "prepare")
  BY Zenon, <1>a, JobWrites
<1>1. Chain(r, status[r].state)'
  <2>1. CASE job' = job
    BY Zenon, <1>a, <1>b, <1>c, <2>1 DEF Chain, NoJobActive
  <2>2. CASE pc[r] = "createJob" /\ Creates(r, "restore")
    <3>1. status'[r].state = "StopCluster"
      BY Zenon, <2>2, <1>a, <1>b, MemIsStatus DEF StopLabels
    <3>2. job'[r]["pitr"] = "none" /\ job'[r]["prepare"] = "none"
      BY Zenon, <2>2, <1>a, <1>b, <1>c, <3>1 DEF Creates, Chain
    <3> QED BY Zenon, <3>1, <3>2 DEF Chain, Finished
  <2>3. CASE pc[r] = "createPITR" /\ Creates(r, "pitr")
    <3>1. status'[r].state = "Restore"
      BY Zenon, <2>3, <1>a, <1>b, MemIsStatus DEF RestoreLabels
    <3>2. job[r]["restore"] = "complete" /\ r \in WithPITR
      BY Zenon, <2>3, <1>a DEF JobsOK
    <3>3. job'[r]["restore"] = "complete" /\ job'[r]["prepare"] = "none"
      BY Zenon, <2>3, <1>a, <1>b, <1>c, <3>1, <3>2 DEF Creates, Chain
    <3> QED BY Zenon, <3>1, <3>2, <3>3 DEF Chain, Finished
  <2>4. CASE pc[r] = "preparing" /\ Creates(r, "prepare")
    <3>1. status'[r].state = "PrepareCluster"
      BY Zenon, <2>4, <1>a, <1>b, MemIsStatus
    <3>2. /\ job'[r]["restore"] = "complete" /\ job'[r]["pitr"] = "none"
          /\ r \notin WithPITR /\ PreparesCluster
      BY Zenon, <2>4, <1>a, <1>b, <1>c, <3>1 DEF Creates, Chain
    <3> QED BY Zenon, <3>1, <3>2 DEF Chain, Finished
  <2> QED BY Zenon, <1>j, <2>1, <2>2, <2>3, <2>4
<1>2. CASE mem'[r] = mem[r]
  <2>1. \/ mem'[r] = status'[r]
        \/ mem'[r].state = "Starting" /\ status'[r].state = "New"
    BY Zenon, <1>2, <1>a, <1>b, MemIsStatus
  <2> QED BY Zenon, <1>1, <2>1 DEF Chain, Finished
<1>3. CASE pc[r] = "new" /\ mem'[r] = Saving(mem[r], view[r].spec)
  <2>1. mem'[r].state = "StopCluster" /\ status[r].state \in {"New", "Starting"}
    <3>1. view[r].spec \in Specs
      BY Zenon, <1>a DEF Views
    <3>2. mem'[r].state = "StopCluster"
      BY <3>1, <1>3, <1>a, SavingFields
    <3> QED BY Zenon, <3>2, <1>3, <1>a, <1>b, MemIsStatus
  <2>2. job' = job
    BY Zenon, <1>3, <1>j
  <2>3. job'[r]["pitr"] = "none" /\ job'[r]["prepare"] = "none"
    BY Zenon, <1>a, <1>c, <2>1, <2>2 DEF Chain
  <2> QED BY Zenon, <1>1, <2>1, <2>3 DEF Chain, Finished
<1>4. CASE Fails(r) /\ mem'[r] = InState(mem[r], "Failed")
  <2>1. mem'[r].state = "Failed"
    BY <1>4, <1>s, <1>i
  <2>2. \A k \in JobKinds : job'[r][k] # "active"
    <3>1. CASE pc[r] = "new"
      BY Zenon, <3>1, <1>a, <1>b, <1>c, <1>j, MemIsStatus DEF Chain
    <3>2. CASE pc[r] = "restoring" /\ job[r]["restore"] = "failed"
      <4>1. status[r].state = "Restore" /\ job' = job
        BY Zenon, <3>2, <1>a, <1>b, <1>j, MemIsStatus DEF RestoreLabels
      <4> QED BY Zenon, <3>2, <1>a, <1>c, <4>1 DEF Chain
    <3>3. CASE pc[r] = "recovering" /\ job[r]["pitr"] = "failed"
      <4>1. status[r].state = "PITR" /\ job' = job
        BY Zenon, <3>3, <1>a, <1>b, <1>j, MemIsStatus
      <4> QED BY Zenon, <3>3, <1>a, <1>c, <4>1 DEF Chain
    <3>4. CASE pc[r] = "preparing" /\ job[r]["prepare"] = "failed"
      <4>1. status[r].state = "PrepareCluster" /\ job' = job
        BY Zenon, <3>4, <1>a, <1>b, <1>j, MemIsStatus DEF Creates
      <4> QED BY Zenon, <3>4, <1>a, <1>c, <4>1 DEF Chain
    <3> QED BY Zenon, <1>4, <1>a, <3>1, <3>2, <3>3, <3>4, FailsForItsJobs
  <2> QED BY Zenon, <1>1, <2>1, <2>2 DEF Chain, NoJobActive
<1>5. CASE /\ pc[r] = "createJob" /\ CreateJob(r, "restore")
           /\ mem'[r] = InState(mem[r], "Restore")
  <2>1. mem'[r].state = "Restore" /\ status[r].state = "StopCluster" /\ spec'.pause
    <3>1. mem'[r].state = "Restore"
      BY <1>5, <1>s, <1>i
    <3> QED BY Zenon, <3>1, <1>5, <1>a, <1>b, MemIsStatus DEF ViewInv, ViewOK, StopLabels
  <2>2. job'[r]["restore"] # "none"
    BY Zenon, <1>5, <1>a, CreateJobEffects DEF Inv
  <2>3. job'[r]["pitr"] = "none" /\ job'[r]["prepare"] = "none"
    BY Zenon, <1>1, <1>b, <2>1 DEF Chain
  <2> QED BY Zenon, <1>1, <2>1, <2>2, <2>3 DEF Chain, Finished
<1>6. CASE /\ pc[r] = "createPITR" /\ CreateJob(r, "pitr")
           /\ mem'[r] = InState(mem[r], "PITR")
  <2>1. mem'[r].state = "PITR"
    BY <1>6, <1>s, <1>i
  <2>2. status'[r].state = "Restore"
    BY Zenon, <1>6, <1>a, <1>b, MemIsStatus DEF RestoreLabels
  <2>3. job[r]["restore"] = "complete" /\ r \in WithPITR
    BY Zenon, <1>6, <1>a DEF JobsOK
  <2>4. job'[r]["restore"] = "complete" /\ job'[r]["prepare"] = "none"
    BY Zenon, <1>1, <1>6, <1>a, <1>j, <2>2, <2>3 DEF Creates, Chain
  <2> QED BY Zenon, <1>1, <2>1, <2>3, <2>4 DEF Chain, Finished
<1>7. CASE /\ pc[r] = "restoring" /\ job[r]["restore"] = "complete" /\ r \notin WithPITR
           /\ mem'[r] = InState(mem[r], IF PreparesCluster THEN "PrepareCluster"
                                        ELSE "StartCluster")
  <2>1. mem'[r].state = IF PreparesCluster THEN "PrepareCluster" ELSE "StartCluster"
    BY <1>7, <1>s, <1>i
  <2>2. status[r].state = "Restore" /\ job' = job
    BY Zenon, <1>7, <1>a, <1>b, <1>j, MemIsStatus DEF RestoreLabels
  <2>3. job[r]["pitr"] = "none" /\ job[r]["prepare"] = "none"
    BY Zenon, <1>7, <1>a, <1>c, <2>2 DEF Chain, AloneOK
  <2> QED BY Zenon, <1>1, <1>7, <2>1, <2>2, <2>3 DEF Chain, Finished
<1>8. CASE /\ pc[r] = "recovering" /\ job[r]["pitr"] = "complete"
           /\ mem'[r] = InState(mem[r], "StartCluster")
  <2>1. mem'[r].state = "StartCluster"
    BY <1>8, <1>s, <1>i
  <2>2. status[r].state = "PITR" /\ job' = job
    BY Zenon, <1>8, <1>a, <1>b, <1>j, MemIsStatus
  <2> QED BY Zenon, <1>8, <1>1, <1>c, <2>1, <2>2 DEF Chain, Finished
<1>9. CASE /\ pc[r] = "preparing" /\ job[r]["prepare"] = "complete"
           /\ mem'[r] = InState(mem[r], "StartCluster")
  <2>1. mem'[r].state = "StartCluster"
    BY <1>9, <1>s, <1>i
  <2>2. status[r].state = "PrepareCluster" /\ job' = job
    BY Zenon, <1>9, <1>a, <1>b, <1>j, MemIsStatus DEF Creates
  <2> QED BY Zenon, <1>9, <1>1, <1>c, <2>1, <2>2 DEF Chain, Finished
<1>10. CASE pc[r] = "starting" /\ mem'[r] = InState(mem[r], "Succeeded")
  <2>1. mem'[r].state = "Succeeded"
    BY <1>10, <1>s, <1>i
  <2>2. status[r].state = "StartCluster" /\ job' = job
    BY Zenon, <1>10, <1>a, <1>b, <1>j, MemIsStatus
  <2>3. \A k \in JobKinds : job[r][k] # "active"
    BY Zenon, <1>a, <1>c, <2>2 DEF Chain
  <2> QED BY Zenon, <1>1, <2>1, <2>2, <2>3 DEF Chain, NoJobActive
<1> QED BY Zenon, <1>1, <1>b, <1>2, <1>3, <1>4, <1>5, <1>6, <1>7, <1>8, <1>9, <1>10
        DEF Outcome

\* So is the only restore in progress.
LEMMA ClaimIsInProgress ==
    ASSUME Inv, NEW r \in Restores, HasClaim(r) \/ pc[r] \notin {"idle", "finalizers"}
    PROVE  InProgress(r)
<1>1. \A s \in Working : s \notin Finished \cup {"absent"}
  BY Zenon DEF Working, Finished
<1> QED BY Zenon, <1>1 DEF Inv, ClaimInv, HasClaim, HasPassed, InProgress

\* A reconcile keeps the Jobs in line with the state of the restore.
LEMMA ReconcileJobs ==
    ASSUME GeneralInv, JobsInv, ~JobsMayOutlive, NEW r \in Restores,
           Reconcile(r) \/ APIError(r)
    PROVE  JobsInv'
<1>a. /\ Inv /\ TypeOK /\ MemInv /\ JobsOK(r)
      /\ {"restore", "pitr", "prepare"} = JobKinds
      /\ mem[r] \in Statuses /\ status[r] \in Statuses /\ kept[r] \subseteq JobKinds
  BY Zenon DEF GeneralInv, Inv, TypeOK, JobKinds, JobsInv
<1>p. \A l : pc' = [pc EXCEPT ![r] = l] => pc'[r] = l
  BY Zenon, <1>a DEF TypeOK
<1>o. \A o \in Restores \ {r} :
          /\ pc'[o] = pc[o] /\ mem'[o] = mem[o] /\ status'[o] = status[o]
          /\ job'[o] = job[o] /\ kept'[o] = kept[o]
  BY Zenon, <1>a, OthersStay DEF Others
<1>w. \/ status' = status
      \/ /\ pc[r] = "setStatus" /\ pc'[r] = "idle" /\ InProgress(r)
         /\ status'[r].state = mem[r].state /\ UNCHANGED <<job, kept>>
  BY Zenon, <1>a, StatusWrites, ClaimIsInProgress
<1>1. \A a, b \in Restores : InProgress(a)' /\ InProgress(b)' => a = b
  <2>1. \A a \in Restores : InProgress(a)' => InProgress(a)
    BY Zenon, <1>o, <1>w DEF InProgress
  <2> QED BY Zenon, <2>1 DEF JobsInv
<1>2. ASSUME NEW q \in Restores \ {r} PROVE JobsOK(q)'
  <2>1. JobsOK(q) /\ UNCHANGED <<pc[q], mem[q], status[q], job[q], kept[q]>>
    BY Zenon, <1>o DEF JobsInv
  <2>2. CASE spec' = spec
    BY Zenon, <2>1, <2>2 DEF JobsOK, Chain, NoJobActive
  <2>3. CASE spec' # spec
    <3>1. InProgress(r)
      BY Zenon, <2>3, <1>a, ClusterStays, UpdateEffects, ClaimIsInProgress
    <3>2. ~InProgress(q)
      BY Zenon, <3>1 DEF JobsInv
    <3>3. status[q].state # "Restore" /\ pc[q] # "setStatus"
      BY Zenon, <3>2, <1>a, ClaimIsInProgress DEF InProgress, Finished
    <3> QED BY Zenon, <2>1, <3>3 DEF JobsOK, Chain, NoJobActive
  <2> QED BY Zenon, <2>2, <2>3
<1>3. Chain(r, status[r].state)' /\ (pc'[r] = "setStatus" => Chain(r, mem[r].state)')
  <2>1. CASE pc'[r] = "setStatus" /\ ~Updates(r)
    BY Zenon, <2>1, OutcomeKeepsChain
  <2>2. CASE Updates(r)
    <3>1. /\ UNCHANGED <<status, job, mem>> /\ pc[r] \in {"pause", "unpauseOne", "unpause"}
          /\ pc'[r] = "setStatus" => pc[r] \in {"unpauseOne", "unpause"}
      BY Zenon, <2>2, <1>a, UpdateEffects
    <3>2. /\ Chain(r, status[r].state) /\ mem[r] = status[r]
          /\ status[r].state = "Restore" => job[r]["restore"] = "complete" /\ r \in WithPITR
      BY Zenon, <3>1, <1>a, MemIsStatus DEF JobsOK, StopLabels, RestoreLabels
    <3>3. Chain(r, status[r].state)'
      BY Zenon, <3>1, <3>2 DEF Chain, NoJobActive
    <3> QED BY Zenon, <3>1, <3>2, <3>3
  <2>3. CASE pc'[r] # "setStatus" /\ ~Updates(r)
    <3>1. job' = job /\ spec' = spec
      BY Zenon, <2>3, <1>a, JobWrites, ClusterStays DEF Creates
    <3>2. Chain(r, status[r].state) /\ (pc[r] = "setStatus" => Chain(r, mem[r].state))
      BY Zenon, <1>a DEF JobsOK
    <3>3. Chain(r, status[r].state)'
      BY Zenon, <3>1, <3>2, <1>w DEF Chain, NoJobActive
    <3> QED BY Zenon, <2>3, <3>3
  <2> QED BY Zenon, <2>1, <2>2, <2>3
<1>4. status'[r].state \notin Finished =>
          \A k \in JobKinds : job'[r][k] # "none" => k \in kept'[r]
  <2> SUFFICES ASSUME status'[r].state \notin Finished, NEW k \in JobKinds,
                      job'[r][k] # "none"
               PROVE  k \in kept'[r]
    BY Zenon
  <2>1. status[r].state \notin Finished
    BY Zenon, <1>w DEF InProgress
  <2>2. pc[r] # "finalizers" /\ (job[r][k] # "none" => k \in kept[r])
    BY Zenon, <2>1, <1>a DEF JobsOK
  <2>3. CASE job' = job /\ kept' = kept
    BY Zenon, <2>2, <2>3
  <2>4. ASSUME NEW j \in JobKinds, Creates(r, j) PROVE k \in kept'[r]
    BY Zenon, <2>2, <2>4 DEF Creates
  <2> QED BY Zenon, <2>2, <2>3, <2>4, <1>a, JobWrites
<1>g. GetCluster(r) => pc'[r] \notin {"finalizers", "unpauseOne", "createPITR"}
  <2> SUFFICES ASSUME GetCluster(r)
               PROVE  pc'[r] \notin {"finalizers", "unpauseOne", "createPITR"}
    BY Zenon
  <2>1. mem[r].state \in {"Starting"} \cup Working
    BY Zenon, <1>a DEF GetCluster, Inv, ClaimInv
  <2>2. pc'[r] = "setStatus" \/ pc'[r] = HandlerOf(mem[r].state)
    BY Zenon, <1>p DEF GetCluster, Goto, ReturnIn
  <2> QED BY Zenon, <2>1, <2>2, HandlerLabels
<1>5. ASSUME pc'[r] = "finalizers" PROVE status'[r].state \in Finished
  <2>1. Get(r) \/ RunJobFinalizers(r)
    BY Zenon, <1>5, <1>p, <1>g DEF Reconcile, APIError, CheckOthers,
       ReconcileStateNew, PauseCluster, WaitForPodsShutdown, DeleteVolumes,
       WaitForPVCShutdown, CreateRestoreJob, ReconcileStateRestore, UnpauseOne,
       CreatePITRJob, ReconcileStatePITR, ReconcileStatePrepareCluster,
       ReconcileStateStartCluster, UnpauseCluster, SetStatus, Goto, Return, ReturnIn
  <2>2. status' = status /\ (status[r].state \in Finished \/ pc[r] = "finalizers")
    BY Zenon, <2>1, <1>5, <1>p DEF Get, RunJobFinalizers, Goto
  <2> QED BY Zenon, <2>2, <1>a DEF JobsOK
<1>6. ASSUME pc'[r] \in {"unpauseOne", "createPITR"}
      PROVE  job'[r]["restore"] = "complete" /\ r \in WithPITR
  <2>1. ReconcileStateRestore(r)
    BY Zenon, <1>6, <1>p, <1>g DEF Reconcile, APIError, CheckOthers,
       ReconcileStateNew, PauseCluster, WaitForPodsShutdown, DeleteVolumes,
       WaitForPVCShutdown, CreateRestoreJob, Get, RunJobFinalizers, UnpauseOne,
       CreatePITRJob, ReconcileStatePITR, ReconcileStatePrepareCluster,
       ReconcileStateStartCluster, UnpauseCluster, SetStatus, Goto, Return, ReturnIn
  <2> QED BY Zenon, <2>1, <1>6, <1>p DEF ReconcileStateRestore, Goto, Return, ReturnIn, jobVars
<1> QED BY Zenon, <1>1, <1>2, <1>3, <1>4, <1>5, <1>6 DEF JobsInv, JobsOK

\* A Job that ends or expires leaves the others as they are.
LEMMA JobSteps ==
    ASSUME TypeOK, NEW r \in Restores, NEW k \in JobKinds, JobEnds(r, k) \/ JobExpires(r, k)
    PROVE  /\ \A o \in Restores \ {r} : job'[o] = job[o]
           /\ \A j \in JobKinds \ {k} : job'[r][j] = job[r][j]
           /\ UNCHANGED <<status, kept, spec, seen, replicas, pods, volumes, pc, mem, view,
                          ctl, ctlSpec, ctlFresh>>
           /\ \/ job[r][k] = "active" /\ job'[r][k] \in {"failed", "complete"}
              \/ /\ JobExpires(r, k) /\ job'[r][k] = "none"
                 /\ job[r][k] \in {"failed", "complete"} /\ k \notin kept[r] /\ data' = data
<1>1. UNCHANGED <<status, kept, spec, seen, replicas, pods, volumes, pc, mem, view,
                  ctl, ctlSpec, ctlFresh>>
  BY Zenon DEF JobEnds, JobExpires, clusterVars, ctlVars
<1>2. PICK p \in {"failed", "complete", "none"} :
          /\ job' = [job EXCEPT ![r] = InPhase(job[r], k, p)]
          /\ \/ p \in {"failed", "complete"} /\ job[r][k] = "active"
             \/ /\ JobExpires(r, k) /\ p = "none" /\ job[r][k] \in {"failed", "complete"}
                /\ k \notin kept[r] /\ data' = data
  BY Zenon DEF JobEnds, JobExpires, clusterVars
<1>3. /\ job'[r] = InPhase(job[r], k, p) /\ job[r] \in [JobKinds -> JobPhases]
      /\ \A o \in Restores \ {r} : job'[o] = job[o]
  BY Zenon, <1>2 DEF TypeOK
<1>4. job'[r][k] = p /\ \A j \in JobKinds \ {k} : job'[r][j] = job[r][j]
  BY Zenon, <1>3 DEF InPhase
<1> QED BY Zenon, <1>1, <1>2, <1>3, <1>4

\* A Job that ends does so in one of the states it belongs to.
LEMMA EndKeepsChain ==
    ASSUME NEW r \in Restores, NEW k \in JobKinds, NEW s, spec' = spec,
           \A j \in JobKinds \ {k} : job'[r][j] = job[r][j],
           job[r][k] = "active", job'[r][k] \in {"failed", "complete"}, Chain(r, s)
    PROVE  /\ s \in {"StopCluster", "Restore", "PITR", "PrepareCluster"}
              \/ s \notin States
           /\ s \in {"StopCluster", "Restore", "PITR", "PrepareCluster"} =>
              /\ \A j \in JobKinds : job'[r][j] # "none" => job[r][j] # "none"
              /\ Chain(r, s)'
<1>a. JobKinds = {"restore", "pitr", "prepare"}
  BY Zenon DEF JobKinds
<1>1. s \notin {"absent", "New", "Starting", "StartCluster"} \cup Finished
  BY Zenon, <1>a DEF Chain, NoJobActive
<1>2. \A j \in JobKinds : job'[r][j] # "none" => job[r][j] # "none"
  BY Zenon
<1>3. CASE s = "StopCluster"
  BY Zenon, <1>3, <1>a DEF Chain, Finished
<1>4. CASE s = "Restore"
  BY Zenon, <1>4, <1>a DEF Chain, Finished
<1>5. CASE s = "PITR"
  BY Zenon, <1>5, <1>a DEF Chain, Finished
<1>6. CASE s = "PrepareCluster"
  BY Zenon, <1>6, <1>a DEF Chain, Finished
<1> QED BY Zenon, <1>1, <1>2, <1>3, <1>4, <1>5, <1>6 DEF States, Working

\* So do all steps.
LEMMA NextJobs ==
    ASSUME GeneralInv, JobsInv, ~JobsMayOutlive, [Next]_vars
    PROVE  JobsInv'
<1>a. Inv /\ TypeOK /\ JobKinds = {"restore", "pitr", "prepare"}
  BY Zenon DEF GeneralInv, Inv, JobKinds
<1>1. ASSUME NEW r \in Restores, Reconcile(r) \/ APIError(r)
      PROVE  JobsInv'
  BY Zenon, <1>1, ReconcileJobs
<1>2. ASSUME NEW r \in Restores, NEW k \in JobKinds, JobEnds(r, k) \/ JobExpires(r, k)
      PROVE  JobsInv'
  <2>1. /\ UNCHANGED <<status, kept, spec, pc, mem>>
        /\ \A o \in Restores \ {r} : job'[o] = job[o]
        /\ \A j \in JobKinds \ {k} : job'[r][j] = job[r][j]
        /\ \/ job[r][k] = "active" /\ job'[r][k] \in {"failed", "complete"}
           \/ /\ job'[r][k] = "none"
              /\ job[r][k] \in {"failed", "complete"} /\ k \notin kept[r]
    BY Zenon, <1>2, <1>a, JobSteps
  <2>2. \A a, b \in Restores : InProgress(a)' /\ InProgress(b)' => a = b
    BY Zenon, <2>1 DEF JobsInv, InProgress
  <2>3. ASSUME NEW q \in Restores \ {r} PROVE JobsOK(q)'
    <3>1. JobsOK(q) /\ job'[q] = job[q]
      BY Zenon, <2>1 DEF JobsInv
    <3> QED BY Zenon, <2>1, <3>1 DEF JobsOK, Chain, NoJobActive
  <2>b. JobsOK(r)
    BY Zenon DEF JobsInv
  <2>4. CASE job[r][k] = "active" /\ job'[r][k] \in {"failed", "complete"}
    <3>1. /\ \A j \in JobKinds : job'[r][j] # "none" => job[r][j] # "none"
          /\ Chain(r, status[r].state)'
      <4>1. Chain(r, status[r].state) /\ status[r].state \in States
        BY Zenon, <2>b, <1>a DEF JobsOK, TypeOK, Statuses
      <4> QED BY Zenon, <2>1, <2>4, <4>1, EndKeepsChain DEF Chain, NoJobActive
    <3>2. ASSUME pc'[r] = "setStatus" PROVE Chain(r, mem[r].state)'
      <4>1. Chain(r, mem[r].state) /\ mem[r].state \in States
        BY Zenon, <2>b, <2>1, <3>2, <1>a DEF JobsOK, TypeOK, Statuses
      <4> QED BY Zenon, <2>1, <2>4, <4>1, EndKeepsChain DEF Chain, NoJobActive
    <3>3. job[r]["restore"] = "complete" => job'[r]["restore"] = "complete"
      BY Zenon, <2>1, <2>4, <1>a
    <3> QED BY Zenon, <2>b, <2>1, <2>2, <2>3, <3>1, <3>2, <3>3 DEF JobsOK, JobsInv
  <2>5. CASE /\ job'[r][k] = "none" /\ job[r][k] \in {"failed", "complete"}
             /\ k \notin kept[r]
    <3>1. status[r].state \in Finished
      BY Zenon, <2>5, <2>b DEF JobsOK
    <3>2. pc[r] \in {"idle", "finalizers"}
      BY Zenon, <3>1, <1>a, ClaimIsInProgress DEF InProgress
    <3>3. NoJobActive(r)'
      BY Zenon, <2>1, <2>5, <2>b, <3>1 DEF JobsOK, Chain, NoJobActive
    <3>4. Chain(r, status[r].state)'
      BY Zenon, <2>1, <3>1, <3>3 DEF Chain, Finished
    <3> QED BY Zenon, <2>1, <2>2, <2>3, <3>1, <3>2, <3>4 DEF JobsOK, JobsInv
  <2> QED BY Zenon, <2>1, <2>4, <2>5
<1>3. ASSUME NEW r \in Restores, CreateRestore(r)
      PROVE  JobsInv'
  <2>1. /\ UNCHANGED <<job, kept, spec, pc, mem>>
        /\ status'[r] = InState(status[r], "New") /\ status[r].state = "absent"
        /\ \A o \in Restores \ {r} : status'[o] = status[o] /\ ~InProgress(o)
    BY Zenon, <1>3, <1>a, Calm
       DEF CreateRestore, TypeOK, clusterVars, ctlVars, jobVars, OtherRestoreInProgress
  <2>2. status'[r].state = "New"
    BY <2>1, <1>a, InStateFields DEF TypeOK, States
  <2>3. \A a, b \in Restores : InProgress(a)' /\ InProgress(b)' => a = b
    BY Zenon, <2>1 DEF InProgress
  <2>4. ASSUME NEW q \in Restores \ {r} PROVE JobsOK(q)'
    BY Zenon, <2>1 DEF JobsInv, JobsOK, Chain, NoJobActive
  <2>5. \A k \in JobKinds : job'[r][k] = "none"
    BY Zenon, <2>1 DEF JobsInv, JobsOK, Chain
  <2>6. pc'[r] = "idle"
    <3>1. ~InProgress(r)
      BY Zenon, <2>1 DEF InProgress
    <3>2. pc[r] # "finalizers"
      BY Zenon, <2>1 DEF JobsInv, JobsOK, Finished
    <3> QED BY Zenon, <2>1, <3>1, <3>2, <1>a, ClaimIsInProgress
  <2>7. Chain(r, status[r].state)'
    BY Zenon, <2>2, <2>5 DEF Chain, Finished
  <2> QED BY Zenon, <2>3, <2>4, <2>5, <2>6, <2>7 DEF JobsInv, JobsOK
<1>4. CASE Crash
  <2>1. /\ UNCHANGED <<job, kept, spec, status>>
        /\ \A o \in Restores : pc'[o] = "idle"
    BY Zenon, <1>4 DEF Crash, clusterVars, jobVars
  <2> QED BY Zenon, <2>1 DEF JobsInv, JobsOK, Chain, NoJobActive, InProgress
<1>5. CASE ClusterSteps \/ UNCHANGED vars
  <2>1. UNCHANGED <<job, kept, spec, status, pc, mem>>
    BY Zenon, <1>5 DEF ClusterSteps, ControllerReads, ControllerApplies, vars, stepVars,
       ControllerObserves, PodStops, PodStarts, clusterVars, jobVars
  <2>2. ASSUME NEW q \in Restores PROVE JobsOK(q)'
    <3>1. JobsOK(q)
      BY Zenon DEF JobsInv
    <3>2. \A s : Chain(q, s) => Chain(q, s)'
      BY Zenon, <2>1 DEF Chain, NoJobActive
    <3>3. Chain(q, status[q].state)' /\ (pc'[q] = "setStatus" => Chain(q, mem[q].state)')
      BY Zenon, <2>1, <3>1, <3>2 DEF JobsOK
    <3> QED BY Zenon, <2>1, <3>1, <3>3 DEF JobsOK
  <2> QED BY Zenon, <2>1, <2>2 DEF JobsInv, InProgress
<1> QED BY Zenon, <1>1, <1>2, <1>3, <1>4, <1>5 DEF Next, Step

(***************************************************************************)
(* Stopping and starting the cluster.                                      *)
(***************************************************************************)

\* The cluster has at least one node whenever it is not paused.
LEMMA SizesPositive ==
    ASSUME Inv, ShapeInv
    PROVE  spec.size >= 1 /\ ctlSpec.size >= 1 /\ spec.size \in Nat /\ ctlSpec.size \in Nat
<1>1. spec \in Specs /\ ctlSpec \in Specs
  BY Zenon DEF Inv, TypeOK
<1>2. \A s \in Specs : /\ Shape(s) = Orig => s.size = Size
                       /\ Shape(s) = One => s.size = 1
  BY Zenon, Shapes
<1>3. spec.size \in {1, Size} /\ ctlSpec.size \in {1, Size}
  BY Zenon, <1>1, <1>2 DEF ShapeInv
<1> QED BY <1>3, RestoreAssumption

\* The steps of the cluster's reconciler and of the StatefulSet.
LEMMA ClusterEffects ==
    ASSUME Inv, ShapeInv, ClusterSteps \/ Crash
    PROVE  /\ UNCHANGED <<spec, status, job, kept, data>>
           /\ \A r \in Restores : \/ pc'[r] = "idle"
                                  \/ pc'[r] = pc[r] /\ mem'[r] = mem[r]
           /\ Settled => Settled'
           /\ Stopped => Stopped'
           /\ Stopped /\ pods = 0 => pods' = 0 /\ volumes' = volumes
<1>a. TypeOK /\ spec.size >= 1 /\ ctlSpec.size >= 1 /\ ctlSpec.size \in Nat
      /\ pods \in Nat /\ replicas \in Nat
  BY SizesPositive DEF Inv, TypeOK
<1>1. CASE ControllerReads
  <2>1. /\ UNCHANGED <<spec, status, job, kept, data, pc, mem, pods, volumes, replicas>>
        /\ ctl' = "apply" /\ ctlSpec' = spec
    BY Zenon, <1>1 DEF ControllerReads, jobVars, clusterVars
  <2> QED BY Zenon, <2>1 DEF Settled, Running, Stopped
<1>2. CASE ControllerApplies
  <2>1. /\ UNCHANGED <<spec, status, job, kept, data, pc, mem, pods, volumes, ctlSpec>>
        /\ ctl = "apply" /\ ctl' = "observe"
        /\ replicas' = IF ctlSpec.pause THEN 0 ELSE ctlSpec.size
    BY Zenon, <1>2 DEF ControllerApplies, jobVars
  <2> QED BY <2>1, <1>a DEF Settled, Running, Stopped
<1>3. CASE ControllerObserves
  <2>1. /\ UNCHANGED <<spec, status, job, kept, data, pc, mem, pods, volumes, replicas>>
        /\ ctl' = "idle"
    BY Zenon, <1>3 DEF ControllerObserves, jobVars
  <2> QED BY Zenon, <2>1 DEF Settled, Running, Stopped
<1>4. CASE PodStops
  <2>1. /\ UNCHANGED <<spec, status, job, kept, data, pc, mem, volumes, replicas, ctl, ctlSpec>>
        /\ pods > replicas /\ pods' = pods - 1
    BY Zenon, <1>4 DEF PodStops, jobVars, ctlVars
  <2> QED BY <2>1, <1>a DEF Settled, Running, Stopped
<1>5. CASE PodStarts
  <2>1. /\ UNCHANGED <<spec, status, job, kept, data, pc, mem, replicas, ctl, ctlSpec>>
        /\ pods < replicas /\ pods' = pods + 1
    BY Zenon, <1>5 DEF PodStarts, jobVars, ctlVars
  <2> QED BY <2>1, <1>a DEF Settled, Running, Stopped
<1>6. CASE Crash
  <2>1. /\ UNCHANGED <<spec, status, job, kept, data, pods, volumes, replicas>>
        /\ ctl' = "idle" /\ \A r \in Restores : pc'[r] = "idle"
    BY Zenon, <1>6 DEF Crash, jobVars, clusterVars
  <2> QED BY Zenon, <2>1 DEF Settled, Running, Stopped
<1> QED BY Zenon, <1>1, <1>2, <1>3, <1>4, <1>5, <1>6 DEF ClusterSteps

\* A paused cluster whose pods are gone has no replicas, and no pass of its
\* reconciler will give it any.
LEMMA ClusterKeepsPause ==
    ASSUME Inv, ShapeInv, ClusterSteps \/ Crash,
           spec.pause /\ replicas = 0 => Stopped,
           spec.pause /\ pods = 0 => replicas = 0
    PROVE  /\ (spec.pause /\ replicas = 0 => Stopped)'
           /\ (spec.pause /\ pods = 0 => replicas = 0)'
<1>a. /\ spec.size >= 1 /\ ctlSpec.size >= 1 /\ ctlSpec.size \in Nat
      /\ pods \in Nat /\ replicas \in Nat
  BY SizesPositive DEF Inv, TypeOK
<1>1. CASE ControllerReads
  <2>1. UNCHANGED <<spec, pods, replicas>> /\ ctl' = "apply" /\ ctlSpec' = spec
    BY Zenon, <1>1 DEF ControllerReads, clusterVars
  <2> QED BY Zenon, <2>1 DEF Stopped
<1>2. CASE ControllerApplies
  <2>1. /\ UNCHANGED <<spec, pods, ctlSpec>> /\ ctl = "apply" /\ ctl' = "observe"
        /\ replicas' = IF ctlSpec.pause THEN 0 ELSE ctlSpec.size
    BY Zenon, <1>2 DEF ControllerApplies
  <2> QED BY <2>1, <1>a DEF Stopped
<1>3. CASE ControllerObserves
  <2>1. UNCHANGED <<spec, pods, replicas>> /\ ctl' = "idle"
    BY Zenon, <1>3 DEF ControllerObserves
  <2> QED BY Zenon, <2>1 DEF Stopped
<1>4. CASE PodStops
  <2>1. UNCHANGED <<spec, replicas, ctl, ctlSpec>> /\ pods > replicas /\ pods' = pods - 1
    BY Zenon, <1>4 DEF PodStops, ctlVars
  <2> QED BY <2>1, <1>a DEF Stopped
<1>5. CASE PodStarts
  <2>1. UNCHANGED <<spec, replicas, ctl, ctlSpec>> /\ pods < replicas /\ pods' = pods + 1
    BY Zenon, <1>5 DEF PodStarts, ctlVars
  <2> QED BY <2>1, <1>a DEF Stopped
<1>6. CASE Crash
  <2>1. UNCHANGED <<spec, pods, replicas>> /\ ctl' = "idle"
    BY Zenon, <1>6 DEF Crash, clusterVars
  <2> QED BY Zenon, <2>1 DEF Stopped
<1> QED BY Zenon, <1>1, <1>2, <1>3, <1>4, <1>5, <1>6 DEF ClusterSteps

\* While no other restore is in progress, the cluster changes only under one
\* that restores or starts it.
LEMMA SettledElsewhere ==
    ASSUME Inv, JobsInv, PauseInv, NEW r \in Restores, InProgress(r),
           status[r].state \notin {"Restore", "StartCluster"}
    PROVE  Settled
<1>1. \A q \in Restores : status[q].state \in {"Restore", "StartCluster"} => InProgress(q)
  BY Zenon DEF InProgress, Finished
<1> QED BY Zenon, <1>1 DEF JobsInv, PauseInv

\* A reconcile returns with another state only when the cluster is settled.
LEMMA OutcomeSettled ==
    ASSUME GeneralInv, JobsInv, PauseInv, ~JobsMayOutlive, NEW r \in Restores,
           Reconcile(r) \/ APIError(r), pc'[r] = "setStatus", ~Updates(r),
           mem'[r].state \notin {"Restore", "StartCluster"}
    PROVE  Settled
<1>a. /\ Inv /\ MemInv /\ CtlInv /\ ViewInv /\ ShapeInv /\ JobsOK(r)
      /\ mem[r] \in Statuses
  BY Zenon DEF GeneralInv, Inv, TypeOK, JobsInv
<1>b. /\ pc[r] \notin {"idle", "finalizers", "setStatus"} /\ Outcome(r) /\ InProgress(r)
  BY Zenon, <1>a, Outcomes, ClaimIsInProgress
<1>c. Chain(r, status[r].state)
  BY Zenon, <1>a DEF JobsOK
<1>s. {"Restore", "StartCluster"} \subseteq States
  BY Zenon DEF States, Working
<1>i. \A s \in States : InState(mem[r], s).state = s
  BY Zenon, <1>a, InStateFields
<1>r. ASSUME pc[r] \in {"createPITR", "starting"}, view[r].seen.current, view[r].seen.ready
      PROVE  Settled
  <2>1. pc[r] \in ViewLabels
    BY Zenon, <1>r DEF ViewLabels
  <2>2. /\ ~spec.pause /\ replicas = spec.size /\ pods = spec.size
        /\ ctl # "idle" => ctlSpec = spec
    BY Zenon, <1>a, <1>r, <2>1, ReadyCluster
  <2>3. spec.size >= 1
    BY Zenon, <1>a, SizesPositive
  <2> QED BY Zenon, <2>2, <2>3 DEF Settled, Running
<1>1. CASE status[r].state \notin {"Restore", "StartCluster"}
  BY Zenon, <1>1, <1>a, <1>b, SettledElsewhere
<1>2. CASE status[r].state \in {"Restore", "StartCluster"}
  <2>1. mem[r] = status[r] /\ pc[r] # "new"
    BY Zenon, <1>2, <1>a, <1>b, MemIsStatus
  <2>2. mem'[r] # mem[r]
    BY Zenon, <1>2, <2>1
  <2>3. CASE Fails(r)
    <3>1. \/ pc[r] = "restoring" /\ job[r]["restore"] = "failed"
          \/ pc[r] = "recovering" \/ pc[r] = "preparing"
      BY Zenon, <2>1, <2>3, <1>a, FailsForItsJobs
    <3>2. status[r].state = "Restore" /\ job[r]["restore"] = "failed"
      BY Zenon, <3>1, <1>2, <1>a, <1>b, MemIsStatus DEF RestoreLabels
    <3> QED BY Zenon, <3>2, <1>c DEF Chain, Settled
  <2>4. CASE pc[r] = "createPITR"
    <3>1. view[r].seen.current /\ view[r].seen.ready
      BY Zenon, <2>4, <1>a DEF ViewInv, ViewOK
    <3> QED BY Zenon, <2>4, <3>1, <1>r
  <2>5. CASE pc[r] = "restoring" /\ r \notin WithPITR
    <3>1. status[r].state = "Restore"
      BY Zenon, <2>5, <1>a, <1>b, MemIsStatus DEF RestoreLabels
    <3> QED BY Zenon, <2>5, <3>1, <1>c DEF Chain, Settled
  <2>6. CASE pc[r] = "starting" /\ view[r].seen.current /\ view[r].seen.ready
    BY Zenon, <2>6, <1>r
  <2>7. ASSUME \/ pc[r] = "createJob" /\ mem'[r] = InState(mem[r], "Restore")
               \/ mem'[r] = InState(mem[r], "StartCluster")
        PROVE  FALSE
    BY <2>7, <1>s, <1>i
  <2> QED BY Zenon, <1>b, <2>1, <2>2, <2>3, <2>4, <2>5, <2>6, <2>7 DEF Outcome
<1> QED BY Zenon, <1>1, <1>2

\* A reconcile pauses only a cluster that is paused or runs.
LEMMA ReconcilePause ==
    ASSUME GeneralInv, JobsInv, PauseInv, ~JobsMayOutlive, NEW r \in Restores,
           Reconcile(r) \/ APIError(r)
    PROVE  PauseInv'
<1>a. Inv /\ TypeOK /\ MemInv /\ CtlInv /\ ViewInv /\ ShapeInv
  BY Zenon DEF GeneralInv, Inv
<1>o. \A o \in Restores \ {r} :
          pc'[o] = pc[o] /\ mem'[o] = mem[o] /\ status'[o] = status[o]
  BY Zenon, <1>a, OthersStay DEF Others
<1>1. CASE ~Updates(r)
  <2>1. UNCHANGED <<spec, replicas, pods, ctl, ctlSpec>>
    BY Zenon, <1>1, ClusterStays
  <2>2. Settled' = Settled /\ Stopped' = Stopped
    BY Zenon, <2>1 DEF Settled, Running, Stopped
  <2>3. Settled \/ \E q \in Restores : status'[q].state \in {"Restore", "StartCluster"}
    <3>1. CASE status' = status
      BY Zenon, <3>1 DEF PauseInv
    <3>2. CASE pc[r] = "setStatus" /\ status'[r].state = mem[r].state
      BY Zenon, <3>2 DEF PauseInv
    <3> QED BY Zenon, <3>1, <3>2, <1>a, StatusWrites
  <2>4. ASSUME NEW q \in Restores, pc'[q] = "setStatus",
               mem'[q].state \notin {"Restore", "StartCluster"}
        PROVE  Settled
    BY Zenon, <1>1, <1>o, <2>4, OutcomeSettled DEF PauseInv
  <2> QED BY Zenon, <2>1, <2>2, <2>3, <2>4 DEF PauseInv
<1>2. CASE Updates(r)
  <2>1. /\ UNCHANGED <<status, mem, replicas, pods, ctl, ctlSpec>>
        /\ pc[r] \in {"pause", "unpauseOne", "unpause"} /\ InProgress(r)
        /\ \/ /\ pc[r] = "pause" /\ pc'[r] = "podsGone"
              /\ spec' = [spec EXCEPT !.pause = @ \/ ~view[r].spec.pause]
           \/ pc[r] # "pause" /\ ~spec'.pause
    BY Zenon, <1>2, <1>a, UpdateEffects, ClaimIsInProgress
  <2>2. \A q \in Restores \ {r} : pc'[q] # "setStatus"
    BY Zenon, <1>o, <2>1, <1>a, ClaimIsInProgress DEF JobsInv
  <2>3. CASE pc[r] = "pause"
    <3>1. status[r].state = "StopCluster"
      BY Zenon, <2>3, <1>a, MemIsStatus DEF StopLabels
    <3>2. Settled
      BY Zenon, <3>1, <2>1, <1>a, SettledElsewhere
    <3>3. view[r].spec = spec /\ spec \in Specs
      BY Zenon, <2>3, <1>a DEF ViewInv, ViewOK, ViewLabels, TypeOK
    <3>4. spec'.pause /\ pc'[r] = "podsGone"
      BY Zenon, <2>1, <2>3, <3>3 DEF Specs
    <3>5. CASE spec.pause
      BY Zenon, <2>1, <2>2, <3>4, <3>5 DEF PauseInv, Stopped, Settled
    <3>6. CASE ~spec.pause
      <4>1. pods # 0 /\ replicas # 0
        BY <3>2, <3>6 DEF Settled, Running
      <4> QED BY Zenon, <2>1, <2>2, <3>4, <4>1 DEF PauseInv, Settled
    <3> QED BY Zenon, <3>5, <3>6
  <2>4. CASE pc[r] # "pause"
    <3>1. status[r].state \in {"Restore", "StartCluster"} /\ mem[r] = status[r]
      BY Zenon, <2>1, <2>4, <1>a, MemIsStatus DEF RestoreLabels
    <3> QED BY Zenon, <2>1, <2>2, <2>4, <3>1 DEF PauseInv
  <2> QED BY Zenon, <2>3, <2>4
<1> QED BY Zenon, <1>1, <1>2

\* What is known of the pause is kept by every step.
LEMMA NextPause ==
    ASSUME GeneralInv, JobsInv, PauseInv, ~JobsMayOutlive, [Next]_vars
    PROVE  PauseInv'
<1>a. Inv /\ TypeOK /\ ShapeInv
  BY Zenon DEF GeneralInv, Inv
<1>1. ASSUME NEW r \in Restores, Reconcile(r) \/ APIError(r)
      PROVE  PauseInv'
  BY Zenon, <1>1, ReconcilePause
<1>2. CASE ClusterSteps \/ Crash
  <2>1. /\ UNCHANGED status /\ (Settled => Settled')
        /\ \A r \in Restores : pc'[r] = "idle" \/ (pc'[r] = pc[r] /\ mem'[r] = mem[r])
    BY Zenon, <1>2, <1>a, ClusterEffects
  <2>2. /\ (spec.pause /\ replicas = 0 => Stopped)'
        /\ (spec.pause /\ pods = 0 => replicas = 0)'
    BY Zenon, <1>2, <1>a, ClusterKeepsPause DEF PauseInv
  <2> QED BY Zenon, <2>1, <2>2 DEF PauseInv
<1>3. ASSUME UNCHANGED <<spec, replicas, pods, ctl, ctlSpec, pc, mem>>,
             \A q \in Restores : status[q].state \in {"Restore", "StartCluster"} =>
                                     status'[q] = status[q]
      PROVE  PauseInv'
  <2>1. Settled' = Settled /\ Stopped' = Stopped
    BY Zenon, <1>3 DEF Settled, Running, Stopped
  <2> QED BY Zenon, <1>3, <2>1 DEF PauseInv
<1>4. ASSUME NEW r \in Restores, CreateRestore(r)
      PROVE  PauseInv'
  <2>1. /\ UNCHANGED <<spec, replicas, pods, ctl, ctlSpec, pc, mem>>
        /\ status[r].state = "absent"
        /\ \A o \in Restores \ {r} : status'[o] = status[o]
    BY Zenon, <1>4, <1>a DEF CreateRestore, TypeOK, clusterVars, ctlVars
  <2> QED BY Zenon, <2>1, <1>3
<1>5. ASSUME NEW r \in Restores, NEW k \in JobKinds, JobEnds(r, k) \/ JobExpires(r, k)
      PROVE  PauseInv'
  BY Zenon, <1>3, <1>5, <1>a, JobSteps
<1>6. CASE UNCHANGED vars
  BY Zenon, <1>3, <1>6 DEF vars, stepVars
<1> QED BY Zenon, <1>1, <1>2, <1>4, <1>5, <1>6 DEF Next, Step

\* A Job runs only for a restore in progress.
LEMMA ActiveInProgress ==
    ASSUME Inv, JobsInv, NEW r \in Restores, NEW k \in JobKinds, job[r][k] = "active"
    PROVE  InProgress(r)
<1>1. Chain(r, status[r].state)
  BY Zenon DEF JobsInv, JobsOK
<1> QED BY Zenon, <1>1 DEF Chain, NoJobActive, InProgress

\* A reconcile that stops the cluster goes on only when it has stopped.
LEMMA ReconcileStops ==
    ASSUME GeneralInv, JobsInv, PauseInv, StopInv, ~JobsMayOutlive, NEW r \in Restores,
           Reconcile(r) \/ APIError(r)
    PROVE  StopInv'
<1>a. /\ Inv /\ TypeOK /\ MemInv /\ CtlInv /\ ViewInv /\ ShapeInv /\ JobsOK(r) /\ StopOK(r)
      /\ {"restore", "pitr", "prepare"} = JobKinds
  BY Zenon DEF GeneralInv, Inv, JobsInv, StopInv, JobKinds
<1>p. \A l : pc' = [pc EXCEPT ![r] = l] => pc'[r] = l
  BY Zenon, <1>a DEF TypeOK
<1>o. \A o \in Restores \ {r} : pc'[o] = pc[o] /\ job'[o] = job[o] /\ StopOK(o)
  BY Zenon, <1>a, OthersStay DEF Others, StopInv
<1>1. CASE ~Updates(r)
  <2>1. UNCHANGED <<spec, replicas, pods, ctl, ctlSpec>>
    BY Zenon, <1>1, ClusterStays
  <2>2. Stopped' = Stopped
    BY Zenon, <2>1 DEF Stopped
  <2>3. volumes' = volumes \/ volumes' = volumes \cap {0}
    BY Zenon DEF Reconcile, APIError, Get, RunJobFinalizers, CheckOthers, GetCluster,
       ReconcileStateNew, PauseCluster, WaitForPodsShutdown, DeleteVolumes,
       WaitForPVCShutdown, CreateRestoreJob, ReconcileStateRestore, UnpauseOne,
       CreatePITRJob, ReconcileStatePITR, ReconcileStatePrepareCluster,
       ReconcileStateStartCluster, UnpauseCluster, SetStatus, UpdateCluster, clusterVars
  <2>4. volumes \subseteq {0} => volumes' \subseteq {0}
    BY Zenon, <2>3
  <2>5. ASSUME NEW q \in Restores \ {r} PROVE StopOK(q)'
    BY Zenon, <1>o, <2>1, <2>2, <2>4 DEF StopOK
  <2>6. ASSUME pc'[r] \in {"deleteVolumes", "volumesGone", "createJob"}
        PROVE  /\ Stopped /\ pods = 0
               /\ pc'[r] \in {"volumesGone", "createJob"} => volumes' \subseteq {0}
    <3>g. GetCluster(r) => pc'[r] \notin {"deleteVolumes", "volumesGone", "createJob"}
      <4> SUFFICES ASSUME GetCluster(r)
                   PROVE  pc'[r] \notin {"deleteVolumes", "volumesGone", "createJob"}
        BY Zenon
      <4>1. mem[r].state \in {"Starting"} \cup Working
        BY Zenon, <1>a DEF GetCluster, Inv, ClaimInv
      <4>2. pc'[r] = "setStatus" \/ pc'[r] = HandlerOf(mem[r].state)
        BY Zenon, <1>p DEF GetCluster, Goto, ReturnIn
      <4> QED BY Zenon, <4>1, <4>2, HandlerLabels
    <3>1. \/ WaitForPodsShutdown(r) /\ pc'[r] = "deleteVolumes"
          \/ DeleteVolumes(r) /\ pc'[r] = "volumesGone"
          \/ WaitForPVCShutdown(r) /\ pc'[r] = "createJob"
      BY Zenon, <2>6, <1>p, <3>g DEF Reconcile, APIError, Get, RunJobFinalizers, CheckOthers,
         ReconcileStateNew, PauseCluster, WaitForPodsShutdown, DeleteVolumes,
         WaitForPVCShutdown, CreateRestoreJob, ReconcileStateRestore, UnpauseOne,
         CreatePITRJob, ReconcileStatePITR, ReconcileStatePrepareCluster,
         ReconcileStateStartCluster, UnpauseCluster, SetStatus, Goto, Return, ReturnIn
    <3>2. CASE WaitForPodsShutdown(r) /\ pc'[r] = "deleteVolumes"
      <4>1. pc[r] = "podsGone" /\ pods = 0
        BY Zenon, <3>2, <1>p DEF WaitForPodsShutdown, Return, Goto
      <4>2. spec.pause
        BY Zenon, <4>1, <1>a DEF ViewInv, ViewOK, StopLabels
      <4> QED BY Zenon, <3>2, <4>1, <4>2 DEF PauseInv
    <3>3. CASE DeleteVolumes(r) /\ pc'[r] = "volumesGone"
      <4>1. pc[r] = "deleteVolumes" /\ volumes' = volumes \cap {0}
        BY Zenon, <3>3 DEF DeleteVolumes
      <4> QED BY Zenon, <4>1, <1>a DEF StopOK
    <3>4. CASE WaitForPVCShutdown(r) /\ pc'[r] = "createJob"
      <4>1. pc[r] = "volumesGone"
        BY Zenon, <3>4 DEF WaitForPVCShutdown
      <4> QED BY Zenon, <4>1, <2>4, <1>a DEF StopOK
    <3> QED BY Zenon, <3>1, <3>2, <3>3, <3>4
  <2>7. ASSUME job'[r]["restore"] = "active"
        PROVE  Stopped /\ pods = 0 /\ volumes \subseteq {0}
    <3>1. job[r]["restore"] = "active" \/ pc[r] = "createJob"
      <4>1. \A k \in {"pitr", "prepare"} : "restore" \in JobKinds \ {k}
        BY Zenon, <1>a
      <4> QED BY Zenon, <2>7, <4>1, <1>a, JobWrites DEF Creates
    <3> QED BY Zenon, <3>1, <1>a DEF StopOK
  <2>8. StopOK(r)'
    BY Zenon, <2>1, <2>2, <2>4, <2>6, <2>7 DEF StopOK
  <2> QED BY Zenon, <2>5, <2>8 DEF StopInv
<1>2. CASE Updates(r)
  <2>1. /\ UNCHANGED <<status, job, replicas, pods, volumes, ctl, ctlSpec>>
        /\ pc[r] \in {"pause", "unpauseOne", "unpause"} /\ InProgress(r)
        /\ pc'[r] \in {"podsGone", "setStatus"}
        /\ pc[r] = "pause" => spec' = [spec EXCEPT !.pause = @ \/ ~view[r].spec.pause]
    BY Zenon, <1>2, <1>a, UpdateEffects, ClaimIsInProgress
  <2>2. ASSUME NEW q \in Restores \ {r} PROVE StopOK(q)'
    <3>1. ~InProgress(q)
      BY Zenon, <2>1 DEF JobsInv
    <3>2. pc'[q] \in {"idle", "finalizers"} /\ job'[q]["restore"] # "active"
      BY Zenon, <3>1, <1>o, <1>a, ClaimIsInProgress, ActiveInProgress
    <3> QED BY Zenon, <3>2 DEF StopOK
  <2>3. ASSUME job[r]["restore"] = "active"
        PROVE  Stopped' /\ pods' = 0 /\ volumes' \subseteq {0}
    <3>1. Chain(r, status[r].state)
      BY Zenon, <1>a DEF JobsOK
    <3>2. pc[r] = "pause"
      BY Zenon, <2>1, <2>3, <3>1, <1>a, MemIsStatus DEF JobsOK, Chain
    <3>3. Stopped /\ pods = 0 /\ volumes \subseteq {0} /\ spec \in Specs
      BY Zenon, <2>3, <1>a DEF StopOK, TypeOK
    <3>4. spec'.pause
      BY Zenon, <2>1, <3>2, <3>3 DEF Stopped, Specs
    <3> QED BY Zenon, <2>1, <3>3, <3>4 DEF Stopped
  <2>4. StopOK(r)'
    BY Zenon, <2>1, <2>3 DEF StopOK
  <2> QED BY Zenon, <2>2, <2>4 DEF StopInv
<1> QED BY Zenon, <1>1, <1>2

\* It stays stopped until the restore Job has ended.
LEMMA NextStops ==
    ASSUME GeneralInv, JobsInv, PauseInv, StopInv, ~JobsMayOutlive, [Next]_vars
    PROVE  StopInv'
<1>a. Inv /\ TypeOK /\ ShapeInv /\ "restore" \in JobKinds
  BY Zenon DEF GeneralInv, Inv, JobKinds
<1>1. ASSUME NEW r \in Restores, Reconcile(r) \/ APIError(r)
      PROVE  StopInv'
  BY Zenon, <1>1, ReconcileStops
<1>2. CASE ClusterSteps \/ Crash
  <2>1. /\ UNCHANGED job /\ (Stopped => Stopped')
        /\ Stopped /\ pods = 0 => pods' = 0 /\ volumes' = volumes
        /\ \A r \in Restores : pc'[r] = "idle" \/ pc'[r] = pc[r]
    BY Zenon, <1>2, <1>a, ClusterEffects
  <2> SUFFICES ASSUME NEW r \in Restores PROVE StopOK(r)'
    BY Zenon DEF StopInv
  <2>2. StopOK(r)
    BY Zenon DEF StopInv
  <2> QED BY Zenon, <2>1, <2>2 DEF StopOK
<1>3. ASSUME UNCHANGED <<spec, replicas, pods, ctl, ctlSpec, volumes, pc>>,
             \A q \in Restores : job'[q]["restore"] = "active" => job[q]["restore"] = "active"
      PROVE  StopInv'
  <2>1. Stopped' = Stopped
    BY Zenon, <1>3 DEF Stopped
  <2> QED BY Zenon, <1>3, <2>1 DEF StopInv, StopOK
<1>4. ASSUME NEW r \in Restores, CreateRestore(r)
      PROVE  StopInv'
  BY Zenon, <1>4, <1>3 DEF CreateRestore, clusterVars, ctlVars, jobVars
<1>5. ASSUME NEW r \in Restores, NEW k \in JobKinds, JobEnds(r, k) \/ JobExpires(r, k)
      PROVE  StopInv'
  <2>1. /\ UNCHANGED <<spec, replicas, pods, ctl, ctlSpec, volumes, pc>>
        /\ \A o \in Restores \ {r} : job'[o] = job[o]
        /\ \A j \in JobKinds \ {k} : job'[r][j] = job[r][j]
        /\ job'[r][k] # "active"
    BY Zenon, <1>5, <1>a, JobSteps
  <2>2. \A q \in Restores : job'[q]["restore"] = "active" => job[q]["restore"] = "active"
    BY Zenon, <2>1, <1>a
  <2> QED BY Zenon, <1>3, <2>1, <2>2
<1>6. CASE UNCHANGED vars
  BY Zenon, <1>3, <1>6 DEF vars, stepVars
<1> QED BY Zenon, <1>1, <1>2, <1>4, <1>5, <1>6 DEF Next, Step

(***************************************************************************)
(* The data.                                                               *)
(***************************************************************************)
LEMMA NextData ==
    ASSUME GeneralInv, JobsInv, DataInv, ~JobsMayOutlive, [Next]_vars
    PROVE  DataInv'
<1>a. Inv /\ TypeOK /\ MemInv /\ ShapeInv /\ JobKinds = {"restore", "pitr", "prepare"}
  BY Zenon DEF GeneralInv, Inv, JobKinds
<1>1. ASSUME data' = data, NEW q \in Restores, InProgress(q)' => InProgress(q),
             \A k \in JobKinds : job'[q][k] = "complete" <=> job[q][k] = "complete"
      PROVE  DataOK(q)'
  BY Zenon, <1>1, <1>a DEF DataInv, DataOK
<1>2. ASSUME NEW r \in Restores, Reconcile(r) \/ APIError(r)
      PROVE  DataInv'
  <2>1. data' = data
    BY Zenon, <1>2, <1>a, ClusterStays, UpdateEffects
  <2>2. \A o \in Restores \ {r} : status'[o] = status[o] /\ job'[o] = job[o]
    BY Zenon, <1>2, <1>a, OthersStay DEF Others
  <2>3. status' = status \/ InProgress(r)
    BY Zenon, <1>2, <1>a, StatusWrites, ClaimIsInProgress
  <2>4. ASSUME NEW k \in JobKinds
        PROVE  job'[r][k] = "complete" <=> job[r][k] = "complete"
    <3>1. ASSUME NEW j \in JobKinds, Creates(r, j)
          PROVE  job'[r][k] = "complete" <=> job[r][k] = "complete"
      <4>1. CASE k = j
        BY Zenon, <3>1, <4>1 DEF Creates
      <4>2. CASE k # j
        BY Zenon, <3>1, <4>2 DEF Creates
      <4> QED BY Zenon, <4>1, <4>2
    <3> QED BY Zenon, <1>2, <1>a, <3>1, JobWrites
  <2>5. ASSUME NEW q \in Restores PROVE DataOK(q)'
    <3>1. InProgress(q)' => InProgress(q)
      BY Zenon, <2>2, <2>3 DEF InProgress
    <3>2. \A k \in JobKinds : job'[q][k] = "complete" <=> job[q][k] = "complete"
      BY Zenon, <2>2, <2>4
    <3> QED BY Zenon, <1>1, <2>1, <3>1, <3>2
  <2> QED BY Zenon, <2>5 DEF DataInv
<1>3. ASSUME NEW r \in Restores, NEW k \in JobKinds, JobEnds(r, k) \/ JobExpires(r, k)
      PROVE  DataInv'
  <2>1. /\ UNCHANGED <<status, spec>>
        /\ \A o \in Restores \ {r} : job'[o] = job[o]
        /\ \A j \in JobKinds \ {k} : job'[r][j] = job[r][j]
        /\ \/ job[r][k] = "active" /\ job'[r][k] \in {"failed", "complete"}
           \/ /\ job[r][k] \in {"failed", "complete"} /\ k \notin kept[r]
              /\ JobExpires(r, k) /\ data' = data
    BY Zenon, <1>3, <1>a, JobSteps
  <2>2. \A q \in Restores : InProgress(q)' = InProgress(q)
    BY Zenon, <2>1 DEF InProgress
  <2>c. Chain(r, status[r].state) /\ status[r].state \in States
    BY Zenon, <1>a DEF JobsInv, JobsOK, TypeOK, Statuses
  <2>3. CASE job[r][k] \in {"failed", "complete"} /\ k \notin kept[r] /\ data' = data
    <3>1. status[r].state \in Finished
      BY Zenon, <2>3 DEF JobsInv, JobsOK
    <3>2. ~InProgress(r)'
      BY Zenon, <3>1, <2>2 DEF InProgress
    <3>3. \A q \in Restores \ {r} : DataOK(q)'
      BY Zenon, <1>1, <2>1, <2>2, <2>3
    <3> QED BY Zenon, <3>2, <3>3 DEF DataInv, DataOK
  <2>4. CASE job[r][k] = "active" /\ job'[r][k] \in {"failed", "complete"}
    <3>1. InProgress(r)
      BY Zenon, <2>4, <1>a, ActiveInProgress
    <3>2. \A q \in Restores \ {r} : DataOK(q)'
      BY Zenon, <3>1, <2>2 DEF JobsInv, DataOK
    <3>3. DataOK(r)'
      <4>1. status[r].state \in {"StopCluster", "Restore", "PITR", "PrepareCluster"}
        BY Zenon, <2>1, <2>4, <2>c, EndKeepsChain
      <4>2. CASE job'[r][k] = "failed"
        <5>1. data' = data
          BY <1>3, <2>4, <4>2, <1>a DEF JobEnds, JobExpires, TypeOK, InPhase
        <5>2. \A j \in JobKinds : job'[r][j] = "complete" <=> job[r][j] = "complete"
          BY Zenon, <2>1, <2>4, <4>2
        <5> QED BY Zenon, <1>1, <2>2, <5>1, <5>2
      <4>3. CASE job'[r][k] = "complete"
        <5>1. data' = [by |-> IF k = "restore" THEN r ELSE data.by,
                       stage |-> CASE k = "restore" -> "restored"
                                   [] k = "prepare" -> "prepared"
                                   [] k = "pitr"    -> "recovered"]
          BY <1>3, <2>1, <2>4, <4>3, <1>a DEF JobEnds, JobExpires, TypeOK, InPhase
        <5>2. DataOK(r)
          BY Zenon DEF DataInv
        <5>3. CASE k = "restore"
          <6>1. data' = [by |-> r, stage |-> "restored"]
            BY <5>1, <5>3
          <6>2. job[r]["pitr"] # "complete" /\ job[r]["prepare"] # "complete"
            BY Zenon, <2>4, <2>c, <4>1, <5>3 DEF Chain
          <6>3. job'[r]["pitr"] # "complete" /\ job'[r]["prepare"] # "complete"
            BY Zenon, <2>1, <5>3, <6>2, <1>a
          <6> QED BY Zenon, <6>1, <6>3 DEF DataOK
        <5>4. CASE k = "prepare"
          <6>1. job[r]["restore"] = "complete" /\ job[r]["pitr"] # "complete"
            BY Zenon, <2>4, <2>c, <4>1, <5>4 DEF Chain
          <6>2. data = [by |-> r, stage |-> "restored"]
            BY Zenon, <2>4, <3>1, <5>2, <5>4, <6>1 DEF DataOK
          <6>3. data' = [by |-> r, stage |-> "prepared"]
            BY <5>1, <5>4, <6>2
          <6>4. job'[r]["pitr"] # "complete" /\ job'[r]["prepare"] = "complete"
            BY Zenon, <2>1, <4>3, <5>4, <6>1, <1>a
          <6> QED BY Zenon, <6>3, <6>4 DEF DataOK
        <5>5. CASE k = "pitr"
          <6>1. job[r]["restore"] = "complete" /\ job[r]["prepare"] # "complete"
            BY Zenon, <2>4, <2>c, <4>1, <5>5 DEF Chain
          <6>2. data = [by |-> r, stage |-> "restored"]
            BY Zenon, <2>4, <3>1, <5>2, <5>5, <6>1 DEF DataOK
          <6>3. data' = [by |-> r, stage |-> "recovered"]
            BY <5>1, <5>5, <6>2
          <6>4. job'[r]["prepare"] # "complete" /\ job'[r]["pitr"] = "complete"
            BY Zenon, <2>1, <4>3, <5>5, <6>1, <1>a
          <6> QED BY Zenon, <6>3, <6>4 DEF DataOK
        <5> QED BY Zenon, <1>a, <5>3, <5>4, <5>5
      <4> QED BY Zenon, <2>4, <4>2, <4>3
    <3> QED BY Zenon, <3>2, <3>3 DEF DataInv
  <2> QED BY Zenon, <2>1, <2>3, <2>4
<1>4. ASSUME NEW r \in Restores, CreateRestore(r)
      PROVE  DataInv'
  <2>1. /\ UNCHANGED <<job, data>> /\ status[r].state = "absent"
        /\ \A o \in Restores \ {r} : status'[o] = status[o]
    BY Zenon, <1>4, <1>a DEF CreateRestore, TypeOK, clusterVars, jobVars
  <2>2. \A q \in Restores \ {r} : DataOK(q)'
    BY Zenon, <1>1, <2>1 DEF InProgress
  <2>3. \A k \in JobKinds : job'[r][k] = "none"
    BY Zenon, <2>1 DEF JobsInv, JobsOK, Chain
  <2>4. DataOK(r)'
    BY Zenon, <2>3, <1>a DEF DataOK
  <2> QED BY Zenon, <2>2, <2>4 DEF DataInv
<1>5. CASE ClusterSteps \/ Crash \/ UNCHANGED vars
  <2>1. UNCHANGED <<status, job, data>>
    BY Zenon, <1>5, <1>a, ClusterEffects DEF vars, stepVars
  <2> QED BY Zenon, <1>1, <2>1 DEF DataInv, InProgress
<1> QED BY Zenon, <1>2, <1>3, <1>4, <1>5 DEF Next, Step

(***************************************************************************)
(* The theorems.                                                           *)
(***************************************************************************)
LEMMA InvariantsInit == Init => GeneralInv /\ CalmInv
<1> SUFFICES ASSUME Init PROVE GeneralInv /\ CalmInv
  BY Zenon
<1>1. Inv
  BY Zenon, InvInductive
<1>2. \A r \in Restores : /\ pc[r] = "idle" /\ status[r] = NoStatus
                          /\ \A k \in JobKinds : job[r][k] = "none"
  BY Zenon DEF Init
<1>3. {"restore", "pitr", "prepare"} = JobKinds /\ NoStatus.state = "absent"
  BY Zenon DEF JobKinds, NoStatus
<1>4. MemInv /\ ViewInv
  BY Zenon, <1>2 DEF MemInv, MemOK, ViewInv, ViewOK, StopLabels, RestoreLabels, ViewLabels
<1>5. /\ ~spec.pause /\ spec.size = Size /\ spec.proxy = ProxySize /\ seen.proxy = ProxySize
      /\ replicas = Size /\ pods = Size /\ ctl = "idle" /\ ctlSpec = spec
      /\ spec = SpecAtFirst
  BY Zenon DEF Init, SpecAtFirst, SeenAtFirst
<1>6. CtlInv
  BY Zenon, <1>5 DEF CtlInv, Want
<1>7. ShapeInv
  BY Zenon, <1>2, <1>3, <1>5 DEF ShapeInv, ShapeOK, SavedInv, Orig, Working
<1>8. AloneInv
  BY Zenon, <1>2, <1>3 DEF AloneInv, AloneOK
<1>9. JobsInv
  BY Zenon, <1>2, <1>3 DEF JobsInv, JobsOK, Chain, InProgress, Finished
<1>10. PauseInv
  <2>1. Size >= 1
    BY RestoreAssumption
  <2> QED BY Zenon, <2>1, <1>2, <1>5 DEF PauseInv, Settled, Running
<1>11. StopInv /\ DataInv
  BY Zenon, <1>2, <1>3 DEF StopInv, StopOK, DataInv, DataOK
<1> QED BY Zenon, <1>1, <1>4, <1>6, <1>7, <1>8, <1>9, <1>10, <1>11 DEF GeneralInv, CalmInv

\* Every step keeps them.
LEMMA InvariantsNext ==
    ASSUME GeneralInv, CalmInv, [Next]_vars
    PROVE  GeneralInv' /\ CalmInv'
<1>1. GeneralInv'
  BY Zenon, InvInductive, NextMem, NextCtl, NextView, NextShape, NextAlone DEF GeneralInv
<1>2. events' = events
  BY Zenon DEF Next, vars
<1>3. JobsMayOutlive' = JobsMayOutlive
  BY Zenon, <1>2 DEF JobsMayOutlive
<1>4. CalmInv'
  BY Zenon, <1>3, NextJobs, NextPause, NextStops, NextData DEF CalmInv
<1> QED BY Zenon, <1>1, <1>4

\* Whatever the restores, the sizes, the failures of calls and the crashes:
\* while the restore Job overwrites the data directory the cluster has no pods
\* and no volumes but the first, as long as nothing makes a restore fail while
\* its Job runs (JobsMayOutlive); and in any case binlogs are only replayed into
\* a single node without a proxy.
THEOREM DataIsQuiet == Spec => []QuietData
<1>1. GeneralInv /\ CalmInv => QuietData
  <2>1. GeneralInv => RecoversAlone
    BY Zenon DEF GeneralInv, AloneInv, AloneOK, Alone, RecoversAlone
  <2>2. CalmInv /\ ~JobsMayOutlive => RestoresQuietData
    BY Zenon DEF CalmInv, StopInv, StopOK, RestoresQuietData
  <2> QED BY Zenon, <2>1, <2>2 DEF QuietData
<1>2. Init => GeneralInv /\ CalmInv
  BY Zenon, InvariantsInit
<1>3. GeneralInv /\ CalmInv /\ [Next]_vars => (GeneralInv /\ CalmInv)'
  BY Zenon, InvariantsNext
<1> QED BY <1>1, <1>2, <1>3, PTL DEF Spec

\* A restore succeeds only by the write of a status that a reconcile in
\* StartCluster has prepared.
LEMMA SuccessWrites ==
    ASSUME Inv, MemInv, Step, NEW r \in Restores, Succeeds(r)
    PROVE  pc[r] = "setStatus" /\ mem[r].state = "Succeeded" /\ status[r].state = "StartCluster"
<1>a. TypeOK
  BY Zenon DEF Inv
<1>1. ASSUME NEW q \in Restores, Reconcile(q) \/ APIError(q)
      PROVE  pc[r] = "setStatus" /\ mem[r].state = "Succeeded"
  <2>1. q = r
    BY Zenon, <1>1, <1>a, OthersStay DEF Others, Succeeds
  <2> QED BY Zenon, <1>1, <2>1, StatusWrites DEF Succeeds
<1>2. ASSUME NEW q \in Restores, CreateRestore(q)
      PROVE  FALSE
  <2>1. /\ status'[q] = InState(status[q], "New")
        /\ \A o \in Restores \ {q} : status'[o] = status[o]
    BY Zenon, <1>2, <1>a DEF CreateRestore, TypeOK
  <2>2. status'[q].state = "New"
    BY <2>1, <1>a, InStateFields DEF TypeOK, States
  <2> QED BY Zenon, <2>1, <2>2 DEF Succeeds
<1>3. ASSUME \/ ClusterSteps \/ Crash
             \/ \E q \in Restores : \E k \in JobKinds : JobEnds(q, k) \/ JobExpires(q, k)
      PROVE  FALSE
  <2>1. status' = status
    BY Zenon, <1>3 DEF ClusterSteps, ControllerReads, ControllerApplies, ControllerObserves,
       PodStops, PodStarts, Crash, JobEnds, JobExpires
  <2> QED BY Zenon, <2>1 DEF Succeeds
<1>4. pc[r] = "setStatus" /\ mem[r].state = "Succeeded"
  BY Zenon, <1>1, <1>2, <1>3 DEF Step
<1> QED BY Zenon, <1>4 DEF MemInv, MemOK

\* Whatever the restores, the failures of calls and the crashes, of a cluster
\* with more than one node or with a proxy: a restore succeeds with the data of
\* its own Jobs, as long as nothing makes a restore fail while its Job runs, and
\* with the cluster unpaused and of the sizes and unsafe flags it had before.
THEOREM SuccessAsPromised ==
    Size > 1 \/ ProxySize > 0 => (Spec => SucceedsAsPromised)
<1> SUFFICES ASSUME Size > 1 \/ ProxySize > 0
             PROVE  Spec => SucceedsAsPromised
  BY Zenon
<1>1. GeneralInv /\ CalmInv /\ [Next]_vars =>
          [(~JobsMayOutlive => SuccessHasData) /\ SuccessHasSpec]_vars
  <2> SUFFICES ASSUME GeneralInv, CalmInv, Step, NEW r \in Restores, Succeeds(r)
               PROVE  /\ ~spec.pause
                      /\ spec.size = status[r].saved.size
                      /\ spec.proxy = status[r].saved.proxy
                      /\ spec.unsafe = status[r].saved.unsafe
                      /\ ~JobsMayOutlive =>
                             /\ data.by = r
                             /\ data.stage = IF r \in WithPITR THEN "recovered"
                                             ELSE IF PreparesCluster THEN "prepared"
                                             ELSE "restored"
    BY Zenon DEF SuccessHasData, SuccessHasSpec, Next
  <2>a. Inv /\ MemInv /\ ShapeInv /\ spec \in Specs
    BY Zenon DEF GeneralInv, Inv, TypeOK
  <2>1. pc[r] = "setStatus" /\ mem[r].state = "Succeeded" /\ status[r].state = "StartCluster"
    BY Zenon, <2>a, SuccessWrites
  <2>2. ~spec.pause /\ Shape(spec) = status[r].saved
    BY Zenon, <2>a, <2>1 DEF ShapeInv, ShapeOK
  <2>3. /\ spec.size = status[r].saved.size /\ spec.proxy = status[r].saved.proxy
        /\ spec.unsafe = status[r].saved.unsafe
    BY Zenon, <2>a, <2>2, Shapes
  <2>4. ASSUME ~JobsMayOutlive
        PROVE  /\ data.by = r
               /\ data.stage = IF r \in WithPITR THEN "recovered"
                               ELSE IF PreparesCluster THEN "prepared"
                               ELSE "restored"
    <3>1. /\ InProgress(r) /\ DataOK(r) /\ job[r]["restore"] = "complete"
          /\ job[r]["pitr"] = IF r \in WithPITR THEN "complete" ELSE "none"
          /\ job[r]["prepare"] = IF r \notin WithPITR /\ PreparesCluster THEN "complete"
                                 ELSE "none"
      BY Zenon, <2>1, <2>4 DEF CalmInv, JobsInv, JobsOK, Chain, DataInv, InProgress, Finished
    <3>2. data = [by |-> r, stage |-> IF r \in WithPITR THEN "recovered"
                                      ELSE IF PreparesCluster THEN "prepared"
                                      ELSE "restored"]
      BY Zenon, <3>1 DEF DataOK
    <3> QED BY Zenon, <3>2
  <2> QED BY Zenon, <2>2, <2>3, <2>4
<1>2. Init => GeneralInv /\ CalmInv
  BY Zenon, InvariantsInit
<1>3. GeneralInv /\ CalmInv /\ [Next]_vars => (GeneralInv /\ CalmInv)'
  BY Zenon, InvariantsNext
<1> QED BY <1>1, <1>2, <1>3, PTL DEF Spec, SucceedsAsPromised
====
