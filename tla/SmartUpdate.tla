---------------------------- MODULE SmartUpdate ----------------------------
(***************************************************************************)
(* The smart update of the database pods: smartUpdate and applyNWait       *)
(* (src/pkg/controller/pxc/upgrade.go) in the reconcile of a cluster, the  *)
(* status the reconcile writes, and the backups, which start by that       *)
(* status and hold the update up.                                          *)
(*                                                                         *)
(* The StatefulSet has the update strategy OnDelete: its controller only   *)
(* replaces the pods that are deleted.                                     *)
(***************************************************************************)
EXTENDS Naturals

CONSTANTS
    Size,           \* cluster.Spec.PXC.Size
    MaxRevision,    \* bound on the changes of the pod template
    MaxFailures,    \* bound on failures: calls that fail and crashes
    NoPod,          \* no pod
    ProxySQL,       \* the proxy is ProxySQL, else it is HAProxy
    Events          \* the environment events that happen

EventKinds == {"crash", "error", "timeout", "switch", "backup", "proxy"}

ASSUME SmartUpdateAssumption ==
    /\ Size \in Nat \ {0}
    /\ MaxRevision \in Nat
    /\ MaxFailures \in Nat \ {0}
    /\ NoPod \notin 0 .. Size - 1
    /\ ProxySQL \in BOOLEAN
    /\ Events \subseteq EventKinds

Pods      == 0 .. Size - 1
Revisions == 0 .. MaxRevision

-----------------------------------------------------------------------------
VARIABLES
    failures,   \* reconciles cut short by an error, a limit or a crash
    podSpec,    \* revision of the pods that the custom resource asks for
    revision,   \* revision of the StatefulSet
    updateRevision, \* .status.updateRevision of the StatefulSet
    phase,      \* of every pod
    podRevision,\* of every pod
    primary,    \* the pod that the proxy sends writes to
    ready,      \* .status.state of the cluster is ready
    backup      \* the backup: none, checked, running or suspended

VARIABLES
    pc,         \* next step of the reconcile
    target,     \* the update revision the smart update works with
    list,       \* revisions of the pods it has listed
    todo,       \* the pods it still has to update
    chosen      \* the pod it took for the primary

specVars    == <<podSpec, revision>>
kubeVars    == <<updateRevision, phase, podRevision>>
processVars == <<target, list, todo, chosen>>
vars == <<failures, specVars, kubeVars, primary, ready, backup, pc, processVars>>

Phases  == {"terminating", "absent", "starting", "ready", "synced", "online"}
Started == {"ready", "synced", "online"}
Synced  == {"synced", "online"}

TypeOK ==
    /\ failures \in 0 .. MaxFailures
    /\ podSpec \in Revisions
    /\ revision \in Revisions
    /\ updateRevision \in Revisions
    /\ phase \in [Pods -> Phases]
    /\ podRevision \in [Pods -> Revisions]
    /\ primary \in Pods \cup {NoPod}
    /\ ready \in BOOLEAN
    /\ backup \in {"none", "checked", "running", "suspended"}
    /\ pc \in {"idle", "list", "backups", "primary", "apply", "restart",
               "synced", "online", "status", "failed"}
    /\ target \in Revisions
    /\ DOMAIN list \subseteq Pods
    /\ \A p \in DOMAIN list : list[p] \in Revisions
    /\ todo \subseteq Pods \cup {NoPod}
    /\ chosen \in Pods \cup {NoPod}

NoList == [p \in {} |-> 0]

Init ==
    /\ failures = 0
    /\ podSpec = 0
    /\ revision = 0
    /\ updateRevision = 0
    /\ phase = [p \in Pods |-> "online"]
    /\ podRevision = [p \in Pods |-> 0]
    /\ primary \in Pods
    /\ ready = TRUE
    /\ backup = "none"
    /\ pc = "idle"
    /\ target = 0
    /\ list = NoList
    /\ todo = {}
    /\ chosen = NoPod

-----------------------------------------------------------------------------
ForgetList ==
    /\ target' = 0
    /\ list' = NoList
    /\ todo' = {}
    /\ chosen' = NoPod

Goto(label) == pc' = label /\ UNCHANGED processVars

\* The reconcile ends: the deferred updateStatus is next.
End(label) == pc' = label /\ ForgetList

\* updatePod: the StatefulSet gets the template of the custom resource. The
\* smart update is left out while the proxy is not ready.
UpdatePod ==
    /\ pc = "idle"
    /\ revision' = podSpec
    /\ \/ Goto("list")
       \/ "proxy" \in Events /\ Goto("status")
    /\ UNCHANGED <<failures, podSpec, kubeVars, primary, ready, backup>>

Listed == {p \in Pods : phase[p] # "absent"}

\* smartUpdate: nothing to do if all listed pods have the update revision.
ListPods ==
    /\ pc = "list"
    /\ IF \A p \in Listed : podRevision[p] = updateRevision
       THEN Goto("status")
       ELSE /\ pc' = "backups"
            /\ target' = updateRevision
            /\ list' = [p \in Listed |-> podRevision[p]]
            /\ UNCHANGED <<todo, chosen>>
    /\ UNCHANGED <<failures, specVars, kubeVars, primary, ready, backup>>

IsBackupRunning ==
    /\ pc = "backups"
    /\ IF backup = "running" THEN End("status") ELSE Goto("primary")
    /\ UNCHANGED <<failures, specVars, kubeVars, primary, ready, backup>>

\* What comes last: the primary, or an empty pod if it is not in the list.
Last(p) == IF p \in DOMAIN list THEN p ELSE NoPod

\* GetPrimaryPod asks the node behind the proxy.
GetPrimaryPod ==
    /\ pc = "primary"
    /\ IF primary # NoPod /\ phase[primary] \in Started
       THEN /\ pc' = "apply"
            /\ chosen' = primary
            /\ todo' = DOMAIN list \cup {Last(primary)}
            /\ UNCHANGED <<target, list>>
       ELSE End("failed")
    /\ UNCHANGED <<failures, specVars, kubeVars, primary, ready, backup>>

\* A mutant: the primary is taken in its turn.
IsNextPlain(p) ==
    /\ p \in todo
    /\ IF p = NoPod THEN todo = {p} ELSE \A q \in todo \ {NoPod} : q <= p

\* The pods are taken in descending order, the primary comes after all others.
IsNext(p) ==
    /\ p \in todo
    /\ IF p = Last(chosen) THEN todo = {p}
       ELSE \A q \in todo \ {Last(chosen)} : q <= p

\* A mutant: the pods are deleted without a wait in between.
ApplyChangesAtOnce ==
    /\ pc = "apply"
    /\ \E p \in todo :
          /\ IsNext(p)
          /\ todo' = todo \ {p}
          /\ IF p = NoPod THEN UNCHANGED phase
             ELSE phase' = [phase EXCEPT ![p] =
                                IF list[p] = target THEN @ ELSE "terminating"]
    /\ UNCHANGED <<pc, target, list, chosen>>
    /\ UNCHANGED <<failures, specVars, updateRevision, podRevision, primary,
                   ready, backup>>

\* applyNWait: the pod is deleted unless it had the update revision when it was
\* listed; deleting the empty pod or one that is gone is an error.
ApplyChanges ==
    /\ pc = "apply"
    /\ \E p \in todo :
       /\ IsNext(p)
       /\ \/ /\ p # NoPod
             /\ list[p] = target
             /\ Goto("restart")
             /\ UNCHANGED phase
          \/ /\ p # NoPod
             /\ list[p] # target
             /\ phase[p] # "absent"
             /\ phase' = [phase EXCEPT ![p] = "terminating"]
             /\ Goto("restart")
          \/ /\ IF p = NoPod THEN TRUE
                ELSE list[p] # target /\ phase[p] = "absent"
             /\ End("failed")
             /\ UNCHANGED phase
    /\ UNCHANGED <<failures, specVars, updateRevision, podRevision, primary,
                   ready, backup>>

\* The pod is ready with the update revision.
Updated(p) == phase[p] \in Started /\ podRevision[p] = target

\* waitPodRestart: the status of the cluster is written in every round; the
\* pod has to be ready with the update revision.
WaitPodRestart ==
    /\ pc = "restart"
    /\ ready' = FALSE
    /\ IF \E p \in todo : IsNext(p) /\ Updated(p)
       THEN Goto("synced")
       ELSE UNCHANGED <<pc, processVars>>
    /\ UNCHANGED <<failures, specVars, kubeVars, primary, backup>>

WaitPXCSynced ==
    /\ pc = "synced"
    /\ \E p \in todo : IsNext(p) /\ phase[p] \in Synced
    /\ Goto("online")
    /\ UNCHANGED <<failures, specVars, kubeVars, primary, ready, backup>>

\* waitHostgroups and waitUntilOnline: with ProxySQL only.
WaitUntilOnline ==
    /\ pc = "online"
    /\ \E p \in todo : /\ IsNext(p)
                       /\ ProxySQL => phase[p] = "online"
                       /\ todo' = todo \ {p}
    /\ pc' = "apply"
    /\ UNCHANGED <<target, list, chosen>>
    /\ UNCHANGED <<failures, specVars, kubeVars, primary, ready, backup>>

SmartUpdateFinished ==
    /\ pc = "apply"
    /\ todo = {}
    /\ End("status")
    /\ UNCHANGED <<failures, specVars, kubeVars, primary, ready, backup>>

Fails(kind) ==
    /\ kind \in Events
    /\ failures < MaxFailures
    /\ failures' = failures + 1

\* A wait reaches its limit, as often as it likes.
WaitLimit ==
    /\ "timeout" \in Events
    /\ pc \in {"restart", "synced", "online"}
    /\ \E p \in todo : /\ IsNext(p)
                       /\ phase[p] \notin {"terminating", "absent"}
                       /\ ~Updated(p)
    /\ End("failed")
    /\ failures' = IF failures < MaxFailures THEN failures + 1 ELSE failures
    /\ UNCHANGED <<specVars, kubeVars, primary, ready, backup>>

\* A call fails: the reconcile ends with the error.
APIError ==
    /\ Fails("error")
    /\ pc \in {"list", "primary", "apply", "restart", "synced", "online"}
    /\ End("failed")
    /\ UNCHANGED <<specVars, kubeVars, primary, ready, backup>>

\* A mutant: ready pods are enough, of whatever revision they are.
UpdateStatusOfReady ==
    /\ pc \in {"status", "failed"}
    /\ ready' = (pc = "status" /\ \A p \in Pods : phase[p] \in Started)
    /\ Goto("idle")
    /\ UNCHANGED <<failures, specVars, kubeVars, primary, backup>>

\* updateStatus: after an error the status is an error; otherwise all pods have
\* to be ready with the update revision, and none is left to be updated.
UpdateStatus ==
    /\ pc \in {"status", "failed"}
    /\ ready' = /\ pc = "status"
                /\ \A p \in Pods : /\ phase[p] \in Started
                                   /\ podRevision[p] = updateRevision
    /\ Goto("idle")
    /\ UNCHANGED <<failures, specVars, kubeVars, primary, backup>>

Reconcile ==
    \/ UpdatePod \/ ListPods \/ IsBackupRunning \/ GetPrimaryPod
    \/ ApplyChanges \/ WaitPodRestart \/ WaitPXCSynced \/ WaitUntilOnline
    \/ SmartUpdateFinished \/ UpdateStatus

-----------------------------------------------------------------------------
(***************************************************************************)
(* The environment.                                                        *)
(***************************************************************************)
ChangeTemplate ==
    /\ podSpec < MaxRevision
    /\ podSpec' = podSpec + 1
    /\ UNCHANGED <<failures, revision, kubeVars, primary, ready, backup, pc,
                   processVars>>

ObserveRevision ==
    /\ updateRevision # revision
    /\ updateRevision' = revision
    /\ UNCHANGED <<failures, specVars, phase, podRevision, primary, ready,
                   backup, pc, processVars>>

Move(p, from, to) ==
    /\ phase[p] = from
    /\ phase' = [phase EXCEPT ![p] = to]
    /\ UNCHANGED <<failures, specVars, updateRevision, podRevision, primary,
                   ready, backup, pc, processVars>>

\* Pods are created in order, when all before are ready.
CreatePod(p) ==
    /\ phase[p] = "absent"
    /\ \A q \in Pods : q < p => phase[q] \in Started
    /\ phase' = [phase EXCEPT ![p] = "starting"]
    /\ podRevision' = [podRevision EXCEPT ![p] = revision]
    /\ UNCHANGED <<failures, specVars, updateRevision, primary, ready, backup,
                   pc, processVars>>

PodGone(p)    == Move(p, "terminating", "absent")
PodReady(p)   == Move(p, "starting", "ready")
PodSynced(p)  == Move(p, "ready", "synced")
PodOnline(p)  == Move(p, "synced", "online")

\* The proxy finds another primary when it has lost the one it had, or at will.
SwitchPrimary ==
    /\ \/ primary = NoPod
       \/ primary # NoPod /\ phase[primary] \notin Synced
       \/ "switch" \in Events
    /\ \E p \in Pods : phase[p] \in Synced /\ primary' = p
    /\ primary' # primary
    /\ UNCHANGED <<failures, specVars, kubeVars, ready, backup, pc, processVars>>

\* A backup is started in two steps, by the status of the cluster; later it is
\* suspended and resumed by that status.
CheckBackup ==
    /\ "backup" \in Events
    /\ backup = "none"
    /\ ready
    /\ backup' = "checked"
    /\ UNCHANGED <<failures, specVars, kubeVars, primary, ready, pc, processVars>>

StartBackup ==
    /\ backup = "checked"
    /\ backup' = "running"
    /\ UNCHANGED <<failures, specVars, kubeVars, primary, ready, pc, processVars>>

SuspendBackup ==
    /\ backup = "running"
    /\ ~ready
    /\ backup' = "suspended"
    /\ UNCHANGED <<failures, specVars, kubeVars, primary, ready, pc, processVars>>

ResumeBackup ==
    /\ backup = "suspended"
    /\ ready
    /\ backup' = "running"
    /\ UNCHANGED <<failures, specVars, kubeVars, primary, ready, pc, processVars>>

EndBackup ==
    /\ backup = "running"
    /\ backup' = "none"
    /\ UNCHANGED <<failures, specVars, kubeVars, primary, ready, pc, processVars>>

\* The operator restarts.
Crash ==
    /\ Fails("crash")
    /\ pc # "idle"
    /\ End("idle")
    /\ UNCHANGED <<specVars, kubeVars, primary, ready, backup>>

PodSteps(p) == CreatePod(p) \/ PodGone(p) \/ PodReady(p) \/ PodSynced(p) \/ PodOnline(p)

BackupSteps == CheckBackup \/ StartBackup \/ SuspendBackup \/ ResumeBackup \/ EndBackup

Next ==
    \/ Reconcile \/ WaitLimit \/ APIError \/ Crash
    \/ ChangeTemplate \/ ObserveRevision \/ SwitchPrimary
    \/ \E p \in Pods : PodSteps(p)
    \/ BackupSteps

Spec == Init /\ [][Next]_vars

\* The cluster is reconciled again and again, and not always without its proxy;
\* a wait has a limit, pods and backups get on.
Fairness ==
    /\ WF_vars(Reconcile) /\ SF_vars(UpdatePod /\ pc' = "list")
    /\ WF_vars(WaitLimit)
    /\ WF_vars(ObserveRevision)
    /\ WF_vars(SwitchPrimary)
    /\ \A p \in Pods : WF_vars(PodSteps(p))
    /\ WF_vars(StartBackup) /\ WF_vars(SuspendBackup \/ EndBackup)

FairSpec == Spec /\ Fairness

-----------------------------------------------------------------------------
(***************************************************************************)
(* Properties.                                                             *)
(***************************************************************************)
Down == {p \in Pods : phase[p] \notin Started}

Deletes(p) == phase[p] # "terminating" /\ phase'[p] = "terminating"

\* As long as every reconcile is carried through, the update takes one pod at a
\* time: it goes on only after the pod it has deleted is back.
OnePodDown == failures = 0 => \A p, q \in Down : p = q

\* The pod that had the writes when the update began is the last one to be
\* deleted: by then all others of the list run the new revision.
PrimaryLastStep ==
    \A p \in Pods : Deletes(p) /\ p = chosen =>
        \A q \in DOMAIN list \ {p} : podRevision[q] = target
PrimaryLast == [][PrimaryLastStep]_vars

\* An update gets done, however often waits reach their limit, the primary
\* moves and backups are asked for: once the pods are outdated the status is
\* not ready and no other backup starts.
UpdateCompletes ==
    <>[](\A p \in Pods : podRevision[p] = podSpec /\ phase[p] = "online")
=============================================================================
