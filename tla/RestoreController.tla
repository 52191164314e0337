------------------------- MODULE RestoreController -------------------------
(***************************************************************************)
(* The reconciler of PerconaXtraDBClusterRestore objects                   *)
(* (src/pkg/controller/pxcrestore) with the helpers that stop a cluster    *)
(* (src/pkg/k8s/cluster.go), next to the reconciler of the cluster, of     *)
(* which only the replicas and the status it writes are kept.              *)
(*                                                                         *)
(* pc[r] names the API call that the reconcile of restore r makes next.    *)
(* The status is written once, by a deferred function, when it returns.    *)
(***************************************************************************)
EXTENDS Naturals, FiniteSets

CONSTANTS
    Restores,       \* the restore objects of one cluster
    NoRestore,      \* the data is not from a restore
    Size,           \* cluster.Spec.PXC.Size
    ProxySize,      \* size of HAProxy or ProxySQL, 0 without a proxy
    WithPITR,       \* the restores that have .spec.pitr
    PreparesCluster,\* cluster.CompareVersionWith("1.18.0") >= 0
    EventSets       \* the sets of kinds of events that may come together

EventKinds ==
    {"crash", "error", "jobError", "status", "overlap", "invalid", "wait"}

ASSUME RestoreAssumption ==
    /\ NoRestore \notin Restores
    /\ IsFiniteSet(Restores)
    /\ Size \in Nat \ {0}
    /\ ProxySize \in Nat
    /\ WithPITR \subseteq Restores
    /\ PreparesCluster \in BOOLEAN
    /\ EventSets \subseteq SUBSET EventKinds

-----------------------------------------------------------------------------
VARIABLES
    status,     \* .status of every restore: state, saved sizes, completed
    job,        \* phase of the Jobs of every restore
    kept,       \* the Jobs of every restore that have the keep-job finalizer
    spec,       \* the cluster: pause, sizes and unsafe flags
    seen,       \* .status of the cluster: of the current generation, ready, proxy
    replicas,   \* replicas of the StatefulSet
    pods,       \* its pods
    volumes,    \* the ordinals that have a data volume
    data        \* what is in the data volume 0

VARIABLE events \* the kinds of events that happen in this behaviour

VARIABLES
    pc,         \* next call of the reconcile of a restore
    mem,        \* .status of the object the reconcile works on
    view,       \* the cluster object the reconcile works on
    ctl,        \* next step of the reconcile of the cluster
    ctlSpec,    \* the specification it works on
    ctlFresh    \* it is still the current one

clusterVars == <<spec, seen, replicas, pods, volumes, data>>
ctlVars     == <<ctl, ctlSpec, ctlFresh>>
jobVars     == <<job, kept>>
stepVars == <<status, job, kept, spec, seen, replicas, pods, volumes, data,
              pc, mem, view, ctl, ctlSpec, ctlFresh>>
vars == <<stepVars, events>>

-----------------------------------------------------------------------------
Finished  == {"Failed", "Succeeded"}
Working   == {"StopCluster", "Restore", "PITR", "PrepareCluster", "StartCluster"}
States    == {"absent", "New", "Starting"} \cup Working \cup Finished

JobKinds  == {"restore", "pitr", "prepare"}
JobPhases == {"none", "active", "complete", "failed"}

Flags == {"pxcSize", "proxySize"}   \* of cluster.Spec.Unsafe
Specs == [pause : BOOLEAN, size : 0 .. Size, proxy : 0 .. ProxySize,
          unsafe : SUBSET Flags]
Saved == [size : 0 .. Size, proxy : 0 .. ProxySize, unsafe : SUBSET Flags]
Statuses == [state : States, saved : Saved, completed : BOOLEAN]
Seen  == [current : BOOLEAN, ready : BOOLEAN, proxy : 0 .. ProxySize]
Views == [spec : Specs, seen : Seen]

Stages == {"old", "restored", "prepared", "recovered"}
Data   == [by : Restores \cup {NoRestore}, stage : Stages]

PCs == {"idle", "finalizers", "others", "cluster", "new", "pause", "podsGone",
        "deleteVolumes", "volumesGone", "createJob", "restoring",
        "unpauseOne", "createPITR", "recovering", "preparing", "starting",
        "unpause", "setStatus"}

TypeOK ==
    /\ status \in [Restores -> Statuses]
    /\ job \in [Restores -> [JobKinds -> JobPhases]]
    /\ kept \in [Restores -> SUBSET JobKinds]
    /\ spec \in Specs
    /\ seen \in Seen
    /\ replicas \in 0 .. Size
    /\ pods \in 0 .. Size
    /\ volumes \subseteq 0 .. Size - 1
    /\ data \in Data
    /\ pc \in [Restores -> PCs]
    /\ mem \in [Restores -> Statuses]
    /\ view \in [Restores -> Views]
    /\ ctl \in {"idle", "apply", "observe"}
    /\ ctlSpec \in Specs
    /\ ctlFresh \in BOOLEAN
    /\ events \in EventSets

NoStatus == [state |-> "absent",
             saved |-> [size |-> 0, proxy |-> 0, unsafe |-> {}],
             completed |-> FALSE]

\* A small cluster can only exist with the unsafe flag for its size.
SpecAtFirst == [pause |-> FALSE, size |-> Size, proxy |-> ProxySize,
                unsafe |-> IF Size = 1 THEN {"pxcSize"} ELSE {}]
SeenAtFirst == [current |-> TRUE, ready |-> TRUE, proxy |-> ProxySize]
NoView      == [spec |-> SpecAtFirst, seen |-> SeenAtFirst]

Init ==
    /\ status = [r \in Restores |-> NoStatus]
    /\ job = [r \in Restores |-> [k \in JobKinds |-> "none"]]
    /\ kept = [r \in Restores |-> {}]
    /\ spec = SpecAtFirst
    /\ seen = SeenAtFirst
    /\ replicas = Size
    /\ pods = Size
    /\ volumes = 0 .. Size - 1
    /\ data = [by |-> NoRestore, stage |-> "old"]
    /\ pc = [r \in Restores |-> "idle"]
    /\ mem = [r \in Restores |-> NoStatus]
    /\ view = [r \in Restores |-> NoView]
    /\ ctl = "idle"
    /\ ctlSpec = SpecAtFirst
    /\ ctlFresh = TRUE
    /\ events \in EventSets

-----------------------------------------------------------------------------
InState(st, s) == [st EXCEPT !.state = s]

\* The sizes and unsafe flags of a cluster, to be restored at the end.
Saving(st, c) ==
    [state |-> "StopCluster",
     saved |-> [size |-> c.size, proxy |-> c.proxy, unsafe |-> c.unsafe],
     completed |-> st.completed]

InPhase(jobs, k, p) == [jobs EXCEPT ![k] = p]

Goto(r, label) == pc' = [pc EXCEPT ![r] = label]

\* Reconcile returns: the deferred setStatus is next.
Return(r) == Goto(r, "setStatus") /\ UNCHANGED mem

\* Reconcile returns with another state.
ReturnIn(r, s) ==
    /\ Goto(r, "setStatus")
    /\ mem' = [mem EXCEPT ![r] = InState(mem[r], s)]

\* Update of the cluster object: a change gives it a new generation.
UpdateCluster(s) ==
    /\ spec' = s
    /\ seen' = IF s = spec THEN seen ELSE [seen EXCEPT !.current = FALSE]
    /\ ctlFresh' = (ctlFresh /\ s = spec)
    /\ UNCHANGED <<replicas, pods, volumes, data, ctl, ctlSpec>>

CreateJob(r, k) ==
    IF job[r][k] = "none"
    THEN /\ job' = [job EXCEPT ![r] = InPhase(job[r], k, "active")]
         /\ kept' = [kept EXCEPT ![r] = kept[r] \cup {k}]
    ELSE UNCHANGED jobVars

\* Reconcile: Get; a new restore is Starting from here on.
Get(r) ==
    /\ pc[r] = "idle"
    /\ status[r].state # "absent"
    /\ IF status[r].state \in Finished
       THEN Goto(r, "finalizers") /\ UNCHANGED mem
       ELSE /\ Goto(r, "others")
            /\ mem' = [mem EXCEPT ![r] =
                   IF status[r].state = "New"
                   THEN InState(status[r], "Starting")
                   ELSE status[r]]
    /\ UNCHANGED <<status, jobVars, clusterVars, view, ctlVars>>

\* runJobFinalizers: removal from one Job after the other.
RunJobFinalizers(r) ==
    /\ pc[r] = "finalizers"
    /\ \/ \E k \in kept[r] :
              /\ kept' = [kept EXCEPT ![r] = kept[r] \ {k}]
              /\ UNCHANGED pc
       \/ /\ kept[r] = {} \/ "error" \in events
          /\ Goto(r, "idle")
          /\ UNCHANGED kept
    /\ UNCHANGED <<status, job, clusterVars, mem, view, ctlVars>>

\* A mutant: a restore that has no state yet is not in progress.
OtherRestoreInProgressUnlessNew(r) ==
    \E o \in Restores \ {r} :
        status[o].state \notin Finished \cup {"absent", "New"}

\* isOtherRestoreInProgress: any other restore without a result, even one that
\* has not been looked at yet, fails this one.
InProgress(r) == status[r].state \notin Finished \cup {"absent"}

OtherRestoreInProgress(r) == \E o \in Restores \ {r} : InProgress(o)

CheckOthers(r) ==
    /\ pc[r] = "others"
    /\ IF OtherRestoreInProgress(r)
       THEN ReturnIn(r, "Failed")
       ELSE Goto(r, "cluster") /\ UNCHANGED mem
    /\ UNCHANGED <<status, jobVars, clusterVars, view, ctlVars>>

HandlerOf(s) ==
    CASE s = "Starting"       -> "new"
      [] s = "StopCluster"    -> "pause"
      [] s = "Restore"        -> "restoring"
      [] s = "PITR"           -> "recovering"
      [] s = "PrepareCluster" -> "preparing"
      [] s = "StartCluster"   -> "starting"

\* The cluster and the backup are read in every reconcile; a backup that cannot
\* be read fails the restore in whatever state it is.
GetCluster(r) ==
    /\ pc[r] = "cluster"
    /\ \/ /\ view' = [view EXCEPT ![r] = [spec |-> spec, seen |-> seen]]
          /\ Goto(r, HandlerOf(mem[r].state))
          /\ UNCHANGED mem
       \/ "invalid" \in events /\ ReturnIn(r, "Failed") /\ UNCHANGED view
    /\ UNCHANGED <<status, jobVars, clusterVars, ctlVars>>

\* Restorer.Validate: of a backup on a volume, it needs a pod of its own that
\* has to start first.
Validations ==
    {"valid", "invalid"} \cup (IF "wait" \in events THEN {"wait"} ELSE {})

\* Restorer.Init: of a backup on a volume, it starts that pod anew.
Inits ==
    {"done"} \cup (IF "wait" \in events THEN {"wait"} ELSE {})

\* reconcileStateNew: the restore is validated and the sizes are saved.
ReconcileStateNew(r) ==
    /\ pc[r] = "new"
    /\ \E v \in Validations :
          \/ v = "invalid" /\ ReturnIn(r, "Failed")
          \/ v = "wait" /\ Return(r)
          \/ /\ v = "valid"
             /\ Goto(r, "setStatus")
             /\ mem' = [mem EXCEPT ![r] = Saving(mem[r], view[r].spec)]
    /\ UNCHANGED <<status, jobVars, clusterVars, view, ctlVars>>

\* PauseClusterWithWait: the patch, which is empty if the cluster was paused
\* when it was read, then two waits that may time out, with the
\* deletion of all data volumes but the first in between.
PauseCluster(r) ==
    /\ pc[r] = "pause"
    /\ UpdateCluster([spec EXCEPT !.pause = @ \/ ~view[r].spec.pause])
    /\ Goto(r, "podsGone")
    /\ UNCHANGED <<status, jobVars, mem, view>>

\* A mutant: the wait limit is not an error.
WaitForPodsShutdownOrLimit(r) ==
    /\ pc[r] = "podsGone"
    /\ Goto(r, "deleteVolumes")
    /\ UNCHANGED <<status, jobVars, clusterVars, mem, view, ctlVars>>

WaitForPodsShutdown(r) ==
    /\ pc[r] = "podsGone"
    /\ \/ pods = 0 /\ Goto(r, "deleteVolumes") /\ UNCHANGED mem
       \/ pods # 0 /\ Return(r)
    /\ UNCHANGED <<status, jobVars, clusterVars, view, ctlVars>>

DeleteVolumes(r) ==
    /\ pc[r] = "deleteVolumes"
    /\ volumes' = volumes \cap {0}
    /\ Goto(r, "volumesGone")
    /\ UNCHANGED <<status, jobVars, spec, seen, replicas, pods, data, mem, view,
                   ctlVars>>

WaitForPVCShutdown(r) ==
    /\ pc[r] = "volumesGone"
    /\ \/ Cardinality(volumes) = 1 /\ Goto(r, "createJob") /\ UNCHANGED mem
       \/ Cardinality(volumes) # 1 /\ Return(r)
    /\ UNCHANGED <<status, jobVars, clusterVars, view, ctlVars>>

\* createRestoreJob after the cluster has been stopped; any error is final.
CreateRestoreJob(r) ==
    /\ pc[r] = "createJob"
    /\ \E i \in Inits :
          \/ i = "done" /\ CreateJob(r, "restore") /\ ReturnIn(r, "Restore")
          \/ i = "wait" /\ Return(r) /\ UNCHANGED jobVars
          \/ "jobError" \in events /\ ReturnIn(r, "Failed") /\ UNCHANGED jobVars
    /\ UNCHANGED <<status, clusterVars, view, ctlVars>>

\* reconcileStateRestore: what to do once the restore Job has finished.
ReconcileStateRestore(r) ==
    /\ pc[r] = "restoring"
    /\ \/ job[r]["restore"] = "failed" /\ ReturnIn(r, "Failed")
       \/ job[r]["restore"] \in {"none", "active"} /\ Return(r)
       \/ /\ job[r]["restore"] = "complete"
          /\ \/ /\ r \in WithPITR
                /\ \/ /\ view[r].spec.pause
                      /\ Goto(r, "unpauseOne") /\ UNCHANGED mem
                   \/ /\ ~view[r].spec.pause
                      /\ ~(view[r].seen.current /\ view[r].seen.ready
                           /\ view[r].seen.proxy = 0)
                      /\ Return(r)
                   \/ /\ ~view[r].spec.pause
                      /\ view[r].seen.current /\ view[r].seen.ready
                      /\ view[r].seen.proxy = 0
                      /\ Goto(r, "createPITR") /\ UNCHANGED mem
             \/ /\ r \notin WithPITR
                /\ ReturnIn(r, IF PreparesCluster THEN "PrepareCluster"
                               ELSE "StartCluster")
    /\ UNCHANGED <<status, jobVars, clusterVars, view, ctlVars>>

\* A mutant: the proxies keep their size.
UnpauseOneWithProxy(r) ==
    /\ pc[r] = "unpauseOne"
    /\ UpdateCluster([pause |-> FALSE, size |-> 1, proxy |-> spec.proxy,
                      unsafe |-> Flags])
    /\ Return(r)
    /\ UNCHANGED <<status, jobVars, view>>

\* One node and no proxy for the point-in-time recovery.
UnpauseOne(r) ==
    /\ pc[r] = "unpauseOne"
    /\ UpdateCluster([pause |-> FALSE, size |-> 1, proxy |-> 0,
                      unsafe |-> Flags])
    /\ Return(r)
    /\ UNCHANGED <<status, jobVars, view>>

\* An error of it is not final: the reconcile is repeated, as after a wait.
CreatePITRJob(r) ==
    /\ pc[r] = "createPITR"
    /\ \E i \in Inits :
          \/ i = "done" /\ CreateJob(r, "pitr") /\ ReturnIn(r, "PITR")
          \/ i = "wait" /\ Return(r) /\ UNCHANGED jobVars
    /\ UNCHANGED <<status, clusterVars, view, ctlVars>>

\* reconcileStatePITR.
ReconcileStatePITR(r) ==
    /\ pc[r] = "recovering"
    /\ \/ job[r]["pitr"] = "failed" /\ ReturnIn(r, "Failed")
       \/ job[r]["pitr"] \in {"none", "active"} /\ Return(r)
       \/ job[r]["pitr"] = "complete" /\ ReturnIn(r, "StartCluster")
    /\ UNCHANGED <<status, jobVars, clusterVars, view, ctlVars>>

\* reconcileStatePrepareCluster.
ReconcileStatePrepareCluster(r) ==
    /\ pc[r] = "preparing"
    /\ \/ job[r]["prepare"] = "failed" /\ ReturnIn(r, "Failed")
       \/ job[r]["prepare"] \in {"none", "active"} /\ Return(r)
       \/ job[r]["prepare"] = "complete" /\ ReturnIn(r, "StartCluster")
    /\ CreateJob(r, "prepare")
    /\ UNCHANGED <<status, clusterVars, view, ctlVars>>

\* A mutant: only the pause makes a difference.
DiffersInPause(r) == view[r].spec.pause

\* reconcileStateStartCluster: as long as the cluster is paused or has another
\* size it is updated, then its status is awaited.
Differs(r) ==
    \/ view[r].spec.pause
    \/ mem[r].saved.size # 0 /\ view[r].spec.size # mem[r].saved.size
    \/ /\ ProxySize # 0
       /\ mem[r].saved.proxy # 0 /\ view[r].spec.proxy # mem[r].saved.proxy

ReconcileStateStartCluster(r) ==
    /\ pc[r] = "starting"
    /\ \/ Differs(r) /\ Goto(r, "unpause") /\ UNCHANGED mem
       \/ /\ ~Differs(r)
          /\ view[r].seen.current /\ view[r].seen.ready
          /\ ReturnIn(r, "Succeeded")
       \/ /\ ~Differs(r)
          /\ ~(view[r].seen.current /\ view[r].seen.ready)
          /\ Return(r)
    /\ UNCHANGED <<status, jobVars, clusterVars, view, ctlVars>>

UnpauseCluster(r) ==
    /\ pc[r] = "unpause"
    /\ UpdateCluster([pause |-> FALSE, size |-> mem[r].saved.size,
                      proxy |-> mem[r].saved.proxy,
                      unsafe |-> mem[r].saved.unsafe])
    /\ Return(r)
    /\ UNCHANGED <<status, jobVars, view>>

\* setStatus: the completion time is set when the recorded state, not the new
\* one, is Succeeded.
SetStatus(r) ==
    /\ pc[r] = "setStatus"
    /\ \/ status' = [status EXCEPT ![r] =
              [mem[r] EXCEPT !.completed =
                  mem[r].completed \/ status[r].state = "Succeeded"]]
       \/ "status" \in events /\ UNCHANGED status
    /\ pc' = [pc EXCEPT ![r] = "idle"]
    /\ mem' = [mem EXCEPT ![r] = NoStatus]
    /\ view' = [view EXCEPT ![r] = NoView]
    /\ UNCHANGED <<jobVars, clusterVars, ctlVars>>

\* A call fails where Reconcile returns the error and the state stays.
APIError(r) ==
    /\ "error" \in events
    /\ pc[r] \in {"others", "cluster", "new", "pause", "podsGone",
                  "deleteVolumes", "volumesGone", "restoring", "unpauseOne",
                  "createPITR", "recovering", "preparing", "starting",
                  "unpause"}
    /\ Return(r)
    /\ UNCHANGED <<status, jobVars, clusterVars, view, ctlVars>>

Reconcile(r) ==
    \/ Get(r) \/ RunJobFinalizers(r) \/ CheckOthers(r) \/ GetCluster(r)
    \/ ReconcileStateNew(r) \/ PauseCluster(r) \/ WaitForPodsShutdown(r)
    \/ DeleteVolumes(r) \/ WaitForPVCShutdown(r) \/ CreateRestoreJob(r)
    \/ ReconcileStateRestore(r) \/ UnpauseOne(r) \/ CreatePITRJob(r)
    \/ ReconcileStatePITR(r) \/ ReconcileStatePrepareCluster(r)
    \/ ReconcileStateStartCluster(r) \/ UnpauseCluster(r) \/ SetStatus(r)

-----------------------------------------------------------------------------
(***************************************************************************)
(* The reconciler of the cluster: it reads the object, sets the replicas of *)
(* the StatefulSet and, at the end, writes the status of what it has read.  *)
(***************************************************************************)
ControllerReads ==
    /\ ctl = "idle"
    /\ ctl' = "apply"
    /\ ctlSpec' = spec
    /\ ctlFresh' = TRUE
    /\ UNCHANGED <<status, jobVars, clusterVars, pc, mem, view>>

ControllerApplies ==
    /\ ctl = "apply"
    /\ ctl' = "observe"
    /\ replicas' = IF ctlSpec.pause THEN 0 ELSE ctlSpec.size
    /\ UNCHANGED <<status, jobVars, spec, seen, pods, volumes, data,
                   pc, mem, view, ctlSpec, ctlFresh>>

\* updateStatus: the observed generation is that of the object read.
ControllerObserves ==
    /\ ctl = "observe"
    /\ ctl' = "idle"
    /\ ctlSpec' = SpecAtFirst
    /\ ctlFresh' = TRUE
    /\ seen' = [current |-> ctlFresh,
                ready |-> ~ctlSpec.pause /\ pods = ctlSpec.size,
                proxy |-> ctlSpec.proxy]
    /\ UNCHANGED <<status, jobVars, spec, replicas, pods, volumes, data,
                   pc, mem, view>>

\* The StatefulSet: one pod at a time; a new pod gets a volume.
PodStops ==
    /\ pods > replicas
    /\ pods' = pods - 1
    /\ UNCHANGED <<status, jobVars, spec, seen, replicas, volumes, data,
                   pc, mem, view, ctlVars>>

PodStarts ==
    /\ pods < replicas
    /\ pods' = pods + 1
    /\ volumes' = volumes \cup {pods}
    /\ UNCHANGED <<status, jobVars, spec, seen, replicas, data,
                   pc, mem, view, ctlVars>>

\* A Job of a restore ends; a complete one has changed the data of volume 0.
JobEnds(r, k) ==
    /\ job[r][k] = "active"
    /\ \/ /\ job' = [job EXCEPT ![r] = InPhase(job[r], k, "failed")]
          /\ UNCHANGED data
       \/ /\ job' = [job EXCEPT ![r] = InPhase(job[r], k, "complete")]
          /\ data' = [by |-> IF k = "restore" THEN r ELSE data.by,
                      stage |-> CASE k = "restore" -> "restored"
                                  [] k = "prepare" -> "prepared"
                                  [] k = "pitr"    -> "recovered"]
    /\ UNCHANGED <<status, kept, spec, seen, replicas, pods, volumes,
                   pc, mem, view, ctlVars>>

\* ttlSecondsAfterFinished, held up by the keep-job finalizer.
JobExpires(r, k) ==
    /\ job[r][k] \in {"complete", "failed"}
    /\ k \notin kept[r]
    /\ job' = [job EXCEPT ![r] = InPhase(job[r], k, "none")]
    /\ UNCHANGED <<status, kept, clusterVars, pc, mem, view, ctlVars>>

CreateRestore(r) ==
    /\ status[r].state = "absent"
    /\ OtherRestoreInProgress(r) => "overlap" \in events
    /\ status' = [status EXCEPT ![r] = InState(status[r], "New")]
    /\ UNCHANGED <<jobVars, clusterVars, pc, mem, view, ctlVars>>

\* The operator restarts.
Crash ==
    /\ "crash" \in events
    /\ pc' = [r \in Restores |-> "idle"]
    /\ mem' = [r \in Restores |-> NoStatus]
    /\ view' = [r \in Restores |-> NoView]
    /\ ctl' = "idle"
    /\ ctlSpec' = SpecAtFirst
    /\ ctlFresh' = TRUE
    /\ UNCHANGED <<status, jobVars, clusterVars>>

ClusterSteps ==
    ControllerReads \/ ControllerApplies \/ ControllerObserves
    \/ PodStops \/ PodStarts

Step ==
    \/ \E r \in Restores :
           \/ Reconcile(r) \/ APIError(r) \/ CreateRestore(r)
           \/ \E k \in JobKinds : JobEnds(r, k) \/ JobExpires(r, k)
    \/ ClusterSteps
    \/ Crash

Next == Step /\ UNCHANGED events

Spec == Init /\ [][Next]_vars

\* Restores are requeued, the cluster is reconciled again and again, pods and
\* Jobs get on.
Fairness ==
    /\ \A r \in Restores :
           /\ WF_stepVars(Reconcile(r))
           /\ \A k \in JobKinds : WF_stepVars(JobEnds(r, k))
    /\ WF_stepVars(ControllerReads) /\ WF_stepVars(ControllerApplies)
    /\ WF_stepVars(ControllerObserves) /\ WF_stepVars(PodStops) /\ WF_stepVars(PodStarts)

FairSpec == Spec /\ Fairness

-----------------------------------------------------------------------------
(***************************************************************************)
(* Properties.                                                             *)
(***************************************************************************)

\* Two restores never work on the cluster at the same time, although each only
\* looks at the recorded states of the others before it starts.
OneRestoreWorks ==
    \A a, b \in Restores :
        status[a].state \in Working /\ status[b].state \in Working => a = b

\* Why: a reconcile that has passed the check has a claim on the cluster until
\* its status is written, and a restore that works has one in any case. It is
\* in progress for all others, who therefore do not pass the check.
HasPassed(r) ==
    \/ pc[r] \notin {"idle", "finalizers", "others", "setStatus"}
    \/ pc[r] = "setStatus" /\ mem[r].state \in Working

HasClaim(r) == status[r].state \in Working \/ HasPassed(r)

ClaimInv ==
    /\ \A a, b \in Restores : HasClaim(a) /\ HasClaim(b) => a = b
    /\ \A r \in Restores :
           /\ pc[r] \notin {"idle", "finalizers"} => InProgress(r)
           /\ pc[r] = "others" => mem[r].state \in {status[r].state, "Starting"}
           /\ pc[r] \in {"others", "cluster"} =>
                  mem[r].state \in {"Starting"} \cup Working

\* The data directory is only overwritten while no node uses it and the
\* volumes of the other nodes, with the old data, are gone.
RestoresQuietData ==
    \A r \in Restores :
        job[r]["restore"] = "active" => pods = 0 /\ volumes \subseteq {0}

\* The point-in-time recovery replays binlogs into a single node that no proxy
\* sends traffic to.
RecoversAlone ==
    \A r \in Restores : job[r]["pitr"] = "active" => pods <= 1 /\ seen.proxy = 0

Succeeds(r) == status[r].state # "Succeeded" /\ status'[r].state = "Succeeded"

\* A restore succeeds with the data it promised: that of its own restore Job,
\* after the recovery or the preparation it asks for.
SuccessHasData ==
    \A r \in Restores : Succeeds(r) =>
        /\ data.by = r
        /\ data.stage = IF r \in WithPITR THEN "recovered"
                        ELSE IF PreparesCluster THEN "prepared"
                        ELSE "restored"

\* A restore succeeds with the cluster unpaused, ready and of the sizes and
\* unsafe flags it had before, whatever the recovery needed in between.
SuccessHasSpec ==
    \A r \in Restores : Succeeds(r) =>
        /\ ~spec.pause
        /\ spec.size = status[r].saved.size
        /\ spec.proxy = status[r].saved.proxy
        /\ spec.unsafe = status[r].saved.unsafe

\* A restore can fail while a Job of it runs when it becomes invalid or another
\* one comes, and when the Job that a reconcile before has created cannot be
\* created again.
JobsMayOutlive == events \cap {"overlap", "invalid", "jobError"} # {}

\* Whatever call fails and wherever the operator stops, the data directory is
\* only overwritten while no node uses it and the volumes of the other nodes are
\* gone (stopping the cluster before the restore Job), as long as no restore
\* comes while a Job of a failed one still runs; and binlogs are only replayed
\* into a single node that no proxy sends traffic to.
QuietData == (~JobsMayOutlive => RestoresQuietData) /\ RecoversAlone

\* A restore succeeds with the data it promised, that of its own Job after the
\* recovery or the preparation it asks for (under the same condition), and with
\* the cluster unpaused and of the sizes and unsafe flags it had before.
SucceedsAsPromised ==
    [][(~JobsMayOutlive => SuccessHasData) /\ SuccessHasSpec]_vars

\* Every restore ends, whatever comes of the others and of its own Jobs, when
\* no call fails: each reconcile of a restore that is not done is followed by
\* another one.
RestoresEnd ==
    \A r \in Restores :
        events \cap {"crash", "error", "status", "wait"} = {} /\ status[r].state = "New"
            ~> status[r].state \in Finished

=============================================================================
