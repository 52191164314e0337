------------------------------ MODULE MainLoop ------------------------------
(***************************************************************************)
(* The main loop of the cluster controller: one pass of Reconcile from the *)
(* lock to the deferred status write (pkg/controller/pxc/controller.go,    *)
(* status.go), the version service's cron job that runs beside it under    *)
(* the same lock (version.go), and what Kubernetes does with the           *)
(* StatefulSets in the meantime.                                           *)
(*                                                                         *)
(* An image is named by its version, a number; 0 is "no such object", "no  *)
(* version known" and an empty image.  A StatefulSet has one pod, replaced *)
(* by Kubernetes when the template changes (updateStrategy RollingUpdate;  *)
(* SmartUpdate.tla has the operator's own order of restarts).  A resize of *)
(* the volumes is its annotation here and what follows from it;            *)
(* VolumeExpansion.tla has the claims, and the StatefulSet that is deleted *)
(* and created again.  The steps of a pass that touch nothing of this      *)
(* module's state only succeed or fail here.                               *)
(***************************************************************************)
EXTENDS Naturals, Sequences, FiniteSets

CONSTANTS MaxVersion,    \* versions are 1..MaxVersion
          MaxEdits,      \* edits of the images by the user
          MaxCalls,      \* API or database calls that fail
          MaxCrashes,    \* restarts of the operator
          MaxFlaps,      \* pods that stop being ready, tokens, resizes
          MaxFaults      \* the last three together

VARIABLES setup,      \* the proxy, whether upgrades apply, whether telemetry is
                      \* on, whether the version service is not the default one
          spec,       \* the image of each application in the CR
          gen,        \* metadata.generation of the CR
          crVersion,  \* is spec.crVersion set?
          token,      \* is the annotation issue-vault-token there?
          resize,     \* the annotation pvc-resize-in-progress: "none", "asked",
                      \* or "grown" when the claims have their new size
          recorded,   \* the status stored in the CR
          available,  \* the version the version service offers
          sts,        \* the image in each StatefulSet's template
          seen,       \* the template its controller has acted on (status)
          run,        \* the image of the pod
          up,         \* is the pod ready?
          mutex,      \* who holds statusMutex
          sync,       \* is updateSync = updateWait?
          registered, \* is the version job in the cron registry?
          lpc, o,     \* the pass: its next step and the object it works on
          failed,     \* err, as the deferred updateStatus sees it
          marked,     \* has the object of the pass the annotation of a resize?
          jpc, job,   \* the version job: its next step and its object
          passed,     \* history: has a pass ended since the last job began?
          left,       \* how many faults of each kind may still happen
          happened    \* which deviations have happened

store    == <<spec, gen, crVersion, token, resize, recorded, available>>
cluster  == <<sts, seen, run, up>>
locks    == <<mutex, sync, registered>>
pass     == <<lpc, o, failed, marked>>
version  == <<jpc, job, passed>>
loopVars == <<setup, store, cluster, locks, pass, version, left, happened>>

Apps     == {"pxc", setup.proxy}
Versions == 0..MaxVersion
NoObject == [spec |-> [a \in Apps |-> 0], gen |-> 0,
             status |-> [state |-> "none", pxc |-> FALSE, gen |-> 0,
                         version |-> 0, image |-> 0]]

Statuses == [state : {"none", "initializing", "ready", "error"}, pxc : BOOLEAN,
             gen : Nat, version : Versions, image : Versions]
Steps    == {"idle", "setCRVersion", "defaults", "users", "ensure",
             "ensureStatus", "volumes", "deploy", "updatePXC", "proxy",
             "backups", "fetch", "schedule", "status"}
Deviations == {"lag", "token", "empty", "unpatched"}

\* One type invariant: the stored and the in-memory objects are well formed,
\* and only the holder of the lock is inside Reconcile or the version job.
LoopTypeOK ==
    /\ spec \in [Apps -> Versions] /\ gen \in Nat
    /\ crVersion \in BOOLEAN /\ token \in BOOLEAN /\ marked \in BOOLEAN
    /\ resize \in {"none", "asked", "grown"}
    /\ recorded \in Statuses /\ available \in Versions
    /\ \A f \in {sts, seen, run} : f \in [Apps -> Versions]
    /\ up \in [Apps -> BOOLEAN]
    /\ mutex \in {"free", "pass", "job"} /\ sync \in BOOLEAN
    /\ registered \in BOOLEAN /\ passed \in BOOLEAN
    /\ lpc \in Steps /\ failed \in BOOLEAN /\ jpc \in {"idle", "patch", "status"}
    /\ o.status \in Statuses /\ job.status \in Statuses
    /\ o.spec \in [Apps -> Versions] /\ job.spec \in [Apps -> Versions]
    /\ left \in [{"edit", "call", "crash", "flap"} -> Nat]
    /\ happened \subseteq Deviations
    /\ (lpc # "idle") <=> (mutex = "pass")
    /\ (jpc # "idle") <=> (mutex = "job")

LoopInit ==
    /\ setup \in [proxy : {"haproxy", "proxysql"}, apply : BOOLEAN,
                  telemetry : BOOLEAN, custom : BOOLEAN]
    /\ spec = [a \in Apps |-> 1] /\ gen = 1
    /\ crVersion = FALSE /\ token = FALSE /\ resize = "none"
    /\ recorded = NoObject.status /\ available = 1
    /\ sts = [a \in Apps |-> 0] /\ seen = sts /\ run = sts
    /\ up = [a \in Apps |-> FALSE]
    /\ mutex = "free" /\ sync = FALSE /\ registered = FALSE
    /\ lpc = "idle" /\ o = NoObject /\ failed = FALSE /\ marked = FALSE
    /\ jpc = "idle" /\ job = NoObject /\ passed = FALSE
    /\ left = [edit |-> MaxEdits, call |-> MaxCalls,
               crash |-> MaxCrashes, flap |-> MaxFlaps]
    /\ happened = {}

Faults == MaxCalls + MaxCrashes + MaxFlaps - (left.call + left.crash + left.flap)
Spend(kind) == /\ left[kind] > 0 /\ (kind = "edit" \/ Faults < MaxFaults)
               /\ left' = [left EXCEPT ![kind] = @ - 1]

-----------------------------------------------------------------------------
\* The pass: Reconcile.

\* The lock, then the object as it is stored now.
Begin ==
    /\ mutex = "free"
    /\ mutex' = "pass"
    /\ o' = [spec |-> spec, gen |-> gen, status |-> recorded]
    /\ marked' = (resize # "none")
    /\ lpc' = "setCRVersion" /\ failed' = FALSE
    /\ UNCHANGED <<setup, store, cluster, sync, registered, version, left,
                   happened>>

\* The read fails: the pass is over, and updateSync is done all the same.
BeginFails ==
    /\ mutex = "free" /\ Spend("call")
    /\ sync' = FALSE /\ passed' = TRUE
    /\ UNCHANGED <<setup, store, cluster, mutex, registered, pass, jpc, job,
                   happened>>

\* The step's call failed.  Where err is the outer variable the deferred
\* updateStatus records the error; where it is shadowed (setCRVersion,
\* reconcileHAProxy, fetchVersionFromPXC) the status is computed as if the
\* pass had succeeded.
Abandon(shadowed) ==
    /\ Spend("call")
    /\ lpc' = "status" /\ failed' = ~shadowed
    /\ UNCHANGED <<setup, store, cluster, locks, o, marked, version, happened>>

setCRVersion ==
    /\ lpc = "setCRVersion"
    /\ \/ /\ crVersion' = TRUE
          /\ IF crVersion THEN UNCHANGED <<gen, o>>
                          ELSE /\ gen' = gen + 1
                               /\ o' = [spec |-> spec, gen |-> gen + 1,
                                        status |-> recorded]
          /\ lpc' = "defaults"
          /\ UNCHANGED <<setup, spec, token, resize, recorded, available, cluster,
                         locks, failed, marked, version, left, happened>>
       \/ ~crVersion /\ Abandon(TRUE)

\* Validate asks for the images of all that is enabled.
Valid(images) == \A a \in Apps : images[a] # 0

\* CheckNSetDefaults finds one missing.
CheckFails ==
    /\ lpc = "defaults" /\ ~Valid(o.spec)
    /\ lpc' = "status" /\ failed' = TRUE
    /\ UNCHANGED <<setup, store, cluster, locks, o, marked, version, left, happened>>

\* ShouldWaitForTokenIssue: the pass ends here, without an error.
WaitForToken ==
    /\ lpc = "defaults" /\ token /\ Valid(o.spec)
    /\ lpc' = "status" /\ happened' = happened \union {"token"}
    /\ UNCHANGED <<setup, store, cluster, locks, o, failed, marked, version, left>>

\* Steps that leave this module's state alone and may fail.
Pure(from, to) ==
    /\ lpc = from
    /\ \/ /\ lpc' = to
          /\ UNCHANGED <<setup, store, cluster, locks, o, failed, marked, version,
                         left, happened>>
       \/ Abandon(FALSE)

\* A mutant: the return for a token is taken whether or not one is awaited.
CheckNSetDefaultsReturns == ~token /\ Valid(o.spec) /\ Pure("defaults", "status")

CheckNSetDefaults == ~token /\ Valid(o.spec) /\ Pure("defaults", "users")
reconcileUsers    == Pure("users", IF o.status.version = 0 THEN "ensure" ELSE "volumes")
reconcileBackups  == Pure("backups", "fetch")

\* reconcilePersistentVolumes: the user has asked for larger volumes, and the
\* annotation is set, in memory too; or the claims have grown, and it is taken
\* away, but not in memory.
ResizeStarts ==
    /\ resize = "none" /\ sts["pxc"] # 0 /\ Spend("flap")
    /\ resize' = "asked" /\ marked' = TRUE
ResizeEnds ==
    /\ marked /\ resize = "grown"
    /\ resize' = "none" /\ UNCHANGED <<marked, left>>

reconcileVolumes ==
    \/ /\ ~(marked /\ resize = "grown")
       /\ Pure("volumes", "deploy")
    \/ /\ lpc = "volumes" /\ (ResizeStarts \/ ResizeEnds)
       /\ lpc' = "deploy"
       /\ UNCHANGED <<setup, spec, gen, crVersion, token, recorded, available,
                      cluster, locks, o, failed, version, happened>>

\* ensurePXCVersion: is there anything to do, for the object c?
EnsureApplies(c) ==
    /\ c.status.state = "ready" \/ c.status.version = 0
    /\ setup.apply

\* getNewVersions: with telemetry on and a version service that is not the
\* default one, nobody is asked and the answer is the empty version.
Mute == setup.telemetry /\ setup.custom
getNewVersions == IF Mute THEN 0 ELSE available

\* The object with the new images,
EnsureImages(c) == [c EXCEPT !.spec = [a \in Apps |-> getNewVersions]]

\* ... the Patch of the images that differ from those it was read with,
EnsurePatch(c) ==
    /\ spec' = [a \in Apps |-> IF c.spec[a] # getNewVersions THEN getNewVersions
                               ELSE spec[a]]
    /\ gen' = IF spec' = spec THEN gen ELSE gen + 1

\* ... and then the versions, in memory and in the stored status.
Ensured(c) == [c EXCEPT !.status.version = c.spec["pxc"],
                        !.status.image = c.spec["pxc"]]

\* A deviation: the images are empty, or only those in memory are new.
NoteImages(patched) ==
    happened' = IF Mute THEN happened \union {"empty"}
                ELSE IF patched \/ o.spec = EnsureImages(o).spec THEN happened
                ELSE happened \union {"unpatched"}

\* The new images are put in the object in memory before the Patch, which may
\* fail; the webhook, where it is installed, refuses empty ones.  In the pass an
\* error of ensurePXCVersion is logged and the pass goes on with that object.
ensurePXCVersion ==
    \/ /\ lpc = "ensure" /\ EnsureApplies(o)
       /\ o' = EnsureImages(o)
       /\ \/ EnsurePatch(o) /\ NoteImages(TRUE) /\ lpc' = "ensureStatus" /\ UNCHANGED left
          \/ /\ (Mute /\ UNCHANGED left) \/ Spend("call")
             /\ NoteImages(FALSE) /\ lpc' = "volumes" /\ UNCHANGED <<spec, gen>>
       /\ UNCHANGED <<setup, crVersion, token, resize, recorded, available, cluster,
                      locks, failed, marked, version>>
    \/ /\ lpc = "ensure"
       /\ \/ ~EnsureApplies(o) /\ UNCHANGED left
          \/ EnsureApplies(o) /\ Spend("call")
       /\ lpc' = "volumes"
       /\ UNCHANGED <<setup, store, cluster, locks, o, failed, marked, version,
                      happened>>
    \/ /\ lpc = "ensureStatus"
       /\ o' = Ensured(o) /\ lpc' = "volumes"
       /\ \/ recorded' = o'.status /\ UNCHANGED left
          \/ Spend("call") /\ UNCHANGED recorded
       /\ UNCHANGED <<setup, spec, gen, crVersion, token, resize, available, cluster,
                      locks, failed, marked, version, happened>>

\* updatePod: nothing is done during a resize; the API server refuses a
\* template without an image.
Updates(apps) ==
    sts' = [a \in Apps |-> IF a \in apps /\ ~marked THEN o.spec[a] ELSE sts[a]]
Accepted(a) == marked \/ o.spec[a] # 0

\* deploy: updatePod of PXC and then of the proxy; the second may fail after
\* the first was stored.
deploy ==
    /\ lpc = "deploy"
    /\ \E done \in {{}, {"pxc"}, Apps} :
         /\ \A a \in done : Accepted(a)
         /\ Updates(done)
         /\ \/ /\ done = Apps
               /\ lpc' = "updatePXC" /\ UNCHANGED <<failed, left>>
            \/ /\ done # Apps
               /\ lpc' = "status" /\ failed' = TRUE
               /\ \/ UNCHANGED left /\ \E a \in Apps : ~Accepted(a)
                  \/ Spend("call")
    /\ UNCHANGED <<setup, store, seen, run, up, locks, o, marked, version, happened>>

\* updatePod of PXC once more, with the annotations of this pass, and the
\* services, whose error ends the pass.
updatePXC ==
    /\ lpc = "updatePXC"
    /\ \/ /\ Updates({"pxc"})
          /\ lpc' = "proxy"
          /\ UNCHANGED <<setup, store, seen, run, up, locks, o, failed, marked,
                         version, left, happened>>
       \/ Abandon(FALSE)

\* reconcileHAProxy, or the ProxySQL part of Reconcile.
updateProxy ==
    /\ lpc = "proxy"
    /\ \/ /\ Updates({setup.proxy})
          /\ lpc' = "backups"
          /\ UNCHANGED <<setup, store, seen, run, up, locks, o, failed, marked,
                         version, left, happened>>
       \/ Abandon(setup.proxy = "haproxy")

\* Replicas > UpdatedReplicas, as the StatefulSet's status has it.
upgradeInProgress(a) == run[a] # 0 /\ run[a] # seen[a]

\* The StatefulSet's status is older than its template.
Lagging == \E a \in Apps : seen[a] # sts[a]
NoteLag(behind) ==
    happened' = IF behind THEN happened \union {"lag"} ELSE happened

\* mysqlVersion: the version is asked of the database only then.
MustFetch ==
    /\ o.status.pxc
    /\ o.status.gen = o.gen
    /\ o.status.image # o.spec["pxc"]
    /\ ~upgradeInProgress("pxc")

Fetched == [o EXCEPT !.status.version = run["pxc"],
                     !.status.image = o.spec["pxc"]]

fetchVersionFromPXC ==
    /\ lpc = "fetch"
    /\ \/ /\ ~MustFetch
          /\ lpc' = "schedule"
          /\ UNCHANGED <<recorded, o, failed, left, happened>>
       \/ /\ MustFetch /\ up["pxc"]
          /\ o' = Fetched
          /\ \/ recorded' = o'.status /\ lpc' = "schedule" /\ UNCHANGED left
             \/ Spend("call") /\ lpc' = "status" /\ UNCHANGED recorded
          /\ NoteLag(Lagging \/ sts["pxc"] # o.spec["pxc"]) /\ UNCHANGED failed
       \/ /\ MustFetch /\ ~up["pxc"]     \* "failed to reach any pod"
          /\ lpc' = "status"
          /\ UNCHANGED <<recorded, o, failed, left, happened>>
    /\ UNCHANGED <<setup, spec, gen, crVersion, token, resize, available, cluster,
                   locks, marked, version>>

\* scheduleEnsurePXCVersion and scheduleTelemetryRequests.  The job is there for
\* telemetry alone, too.
scheduleEnsurePXCVersion ==
    /\ lpc = "schedule"
    /\ \/ /\ registered' = (setup.apply \/ setup.telemetry)
          /\ lpc' = "status"
          /\ UNCHANGED <<setup, store, cluster, mutex, sync, o, failed, marked,
                         version, left, happened>>
       \/ Abandon(FALSE)

\* appStatus: PXC pods count when they have the revision of the StatefulSet's
\* status, proxy pods when they are ready.
appReady(a) == up[a] /\ (a = "pxc" => run[a] = seen[a])

ClusterStatus ==
    IF (\E a \in Apps : upgradeInProgress(a)) \/ (\E a \in Apps : ~appReady(a))
    THEN "initializing" ELSE "ready"

\* A mutant: the generation is read again for the status.
NewStatusRereadsGeneration ==
    IF failed
    THEN [o.status EXCEPT !.state = "error"]
    ELSE IF marked
    THEN [o.status EXCEPT !.state = "initializing"]
    ELSE [o.status EXCEPT !.state = ClusterStatus, !.pxc = appReady("pxc"),
                          !.gen = gen]

NewStatus ==
    IF failed
    THEN [o.status EXCEPT !.state = "error"]
    ELSE IF marked
    THEN [o.status EXCEPT !.state = "initializing"]
    ELSE [o.status EXCEPT !.state = ClusterStatus,
                          !.pxc = appReady("pxc"),
                          !.gen = o.gen]

\* What the deferred calls leave when the pass is over: updateSync is done,
\* the lock is free.
Unlocked == mutex' = "free" /\ sync' = FALSE

\* The deferred updateStatus, whose own failure is only logged, and the end
\* of the pass.
updateStatus ==
    /\ lpc = "status"
    /\ \/ recorded' = NewStatus /\ UNCHANGED left
       \/ Spend("call") /\ UNCHANGED recorded
    /\ Unlocked
    /\ lpc' = "idle" /\ o' = NoObject /\ failed' = FALSE /\ marked' = FALSE
    /\ passed' = TRUE /\ NoteLag(Lagging)
    /\ UNCHANGED <<setup, spec, gen, crVersion, token, resize, available, cluster,
                   registered, jpc, job>>

Pass ==
    \/ Begin \/ BeginFails \/ setCRVersion \/ CheckFails \/ WaitForToken
    \/ CheckNSetDefaults
    \/ reconcileUsers \/ ensurePXCVersion \/ reconcileVolumes \/ deploy
    \/ updatePXC \/ updateProxy \/ reconcileBackups \/ fetchVersionFromPXC
    \/ scheduleEnsurePXCVersion \/ updateStatus

-----------------------------------------------------------------------------
\* The version service's job.

\* A mutant: updateSync is not asked.
MayRunJobAlways == TRUE

\* It returns at once when no pass has run since the last job.
MayRunJob == ~sync

\* What the job asks of the stored object before it calls ensurePXCVersion, and
\* what that asks first.
JobApplies ==
    recorded.state = "ready" /\ Valid(spec) /\ EnsureApplies([status |-> recorded])

\* A mutant: the job does not take the lock.
JobBeginUnlocked ==
    /\ registered /\ jpc = "idle" /\ MayRunJob /\ JobApplies
    /\ sync' = TRUE /\ passed' = FALSE
    /\ jpc' = "patch" /\ job' = [spec |-> spec, gen |-> gen, status |-> recorded]
    /\ UNCHANGED <<setup, store, cluster, mutex, registered, pass, left, happened>>

\* Lock, the exchange of updateSync, the read, which may fail.
JobBegin ==
    /\ registered /\ mutex = "free" /\ MayRunJob
    /\ sync' = TRUE /\ passed' = FALSE
    /\ \/ /\ JobApplies
          /\ mutex' = "job" /\ jpc' = "patch"
          /\ job' = [spec |-> spec, gen |-> gen, status |-> recorded]
          /\ UNCHANGED left
       \/ /\ (~JobApplies /\ UNCHANGED left) \/ Spend("call")
          /\ UNCHANGED <<mutex, jpc, job>>
    /\ UNCHANGED <<setup, store, cluster, registered, pass, happened>>

JobEnds == mutex' = "free" /\ jpc' = "idle" /\ job' = NoObject

JobPatch ==
    /\ jpc = "patch"
    /\ \/ /\ EnsurePatch(job) /\ job' = EnsureImages(job)
          /\ happened' = IF Mute THEN happened \union {"empty"} ELSE happened
          /\ jpc' = "status"
          /\ UNCHANGED <<mutex, left>>
       \/ /\ (Mute /\ UNCHANGED left) \/ Spend("call")
          /\ JobEnds /\ UNCHANGED <<spec, gen, happened>>
    /\ UNCHANGED <<setup, crVersion, token, resize, recorded, available, cluster,
                   sync, registered, pass, passed>>

JobStatus ==
    /\ jpc = "status"
    /\ \/ recorded' = Ensured(job).status /\ UNCHANGED left
       \/ Spend("call") /\ UNCHANGED recorded
    /\ JobEnds
    /\ UNCHANGED <<setup, spec, gen, crVersion, token, resize, available, cluster,
                   sync, registered, pass, passed, happened>>

-----------------------------------------------------------------------------
\* The rest of the world.

\* The user changes an image, where the version service does not.
EditImage(a) ==
    /\ ~setup.apply /\ spec[a] < MaxVersion
    /\ Spend("edit")
    /\ spec' = [spec EXCEPT ![a] = @ + 1] /\ gen' = gen + 1
    /\ UNCHANGED <<setup, crVersion, token, resize, recorded, available, cluster,
                   locks, pass, version, happened>>

\* The version service offers a newer version.
Offer ==
    /\ setup.apply /\ available < MaxVersion
    /\ Spend("edit")
    /\ available' = available + 1
    /\ UNCHANGED <<setup, spec, gen, crVersion, token, resize, recorded, cluster,
                   locks, pass, version, happened>>

\* The annotation is set, and removed when the token has been issued; neither
\* changes the generation.
SetToken ==
    /\ ~token /\ Spend("flap")
    /\ token' = TRUE
    /\ UNCHANGED <<setup, spec, gen, crVersion, resize, recorded, available, cluster,
                   locks, pass, version, happened>>

IssueToken ==
    /\ token
    /\ token' = FALSE
    /\ UNCHANGED <<setup, spec, gen, crVersion, resize, recorded, available, cluster,
                   locks, pass, version, left, happened>>

\* The claims get the size that was asked for.
ClaimsGrow ==
    /\ resize = "asked"
    /\ resize' = "grown"
    /\ UNCHANGED <<setup, spec, gen, crVersion, token, recorded, available, cluster,
                   locks, pass, version, left, happened>>

\* The StatefulSet controller acts on a template,
Observe(a) ==
    /\ seen[a] # sts[a]
    /\ seen' = [seen EXCEPT ![a] = sts[a]]
    /\ UNCHANGED <<setup, store, sts, run, up, locks, pass, version, left,
                   happened>>

\* replaces the pod,
Roll(a) ==
    /\ run[a] # seen[a]
    /\ run' = [run EXCEPT ![a] = seen[a]]
    /\ up' = [up EXCEPT ![a] = FALSE]
    /\ UNCHANGED <<setup, store, sts, seen, locks, pass, version, left,
                   happened>>

\* and the pod becomes ready, or stops being ready.
PodUp(a) ==
    /\ run[a] # 0 /\ ~up[a]
    /\ up' = [up EXCEPT ![a] = TRUE]
    /\ UNCHANGED <<setup, store, sts, seen, run, locks, pass, version, left,
                   happened>>

PodFails(a) ==
    /\ up[a] /\ Spend("flap")
    /\ up' = [up EXCEPT ![a] = FALSE]
    /\ UNCHANGED <<setup, store, sts, seen, run, locks, pass, version,
                   happened>>

\* The operator restarts: its locks, its registry and what it was doing are
\* gone.
RestartOperator ==
    /\ Spend("crash")
    /\ mutex' = "free" /\ sync' = FALSE /\ registered' = FALSE
    /\ lpc' = "idle" /\ o' = NoObject /\ failed' = FALSE /\ marked' = FALSE
    /\ jpc' = "idle" /\ job' = NoObject
    /\ UNCHANGED <<setup, store, cluster, passed, happened>>

Kubernetes(a) == Observe(a) \/ Roll(a) \/ PodUp(a)
Job  == JobBegin \/ JobPatch \/ JobStatus

LoopNext ==
    \/ Pass \/ Job
    \/ Offer \/ SetToken \/ IssueToken \/ ClaimsGrow \/ RestartOperator
    \/ \E a \in Apps : EditImage(a) \/ Kubernetes(a) \/ PodFails(a)

LoopSpec == LoopInit /\ [][LoopNext]_loopVars

\* The work queue runs a pass again and again, Kubernetes acts on what it is
\* given, the token is issued, volumes grow.  The job waits for a lock the pass keeps
\* taking: Go's Mutex hands itself to a waiter in the end (strong fairness).
LoopFairSpec ==
    /\ LoopSpec
    /\ WF_loopVars(Pass) /\ SF_loopVars(JobBegin) /\ WF_loopVars(JobPatch \/ JobStatus)
    /\ WF_loopVars(IssueToken) /\ WF_loopVars(ClaimsGrow)
    /\ \A a \in {"pxc", "haproxy", "proxysql"} : WF_loopVars(a \in Apps /\ Kubernetes(a))

-----------------------------------------------------------------------------
\* Between two runs of the version job that get past the exchange of
\* updateSync a pass of Reconcile has come to its end (one that cannot read the
\* object counts, its deferred calls run as well), as the comment in
\* Reconcile asks ("the reconcile loop will be run at least once in-between
\* any version service jobs"), restarts of the operator included: they forget
\* updateSync, but also the registry.
JobsApartStep ==
    jpc = "idle" /\ jpc' = "patch" => passed
VersionJobsApart == [][JobsApartStep]_loopVars

\* Nobody upgrades backwards here, so the version recorded in the status never
\* goes back: the pass and the job both store the whole status from the copy
\* they read, and only statusMutex keeps the one from overwriting what the
\* other has stored since.  There are three exceptions: a version asked of the
\* database while the StatefulSet's status is older than its template, or the
\* template older than the object because of a resize, may be an old one; with
\* telemetry on, a version service other than the default one is not asked and
\* the empty version is stored (getNewVersions); and when the Patch of
\* ensurePXCVersion fails, the pass deploys images that the spec does not have,
\* and the next one takes them back.
VersionStep ==
    happened' \subseteq {"token"} => recorded'.version >= recorded.version
VersionNeverGoesBack == [][VersionStep]_loopVars

\* A status that says "ready" for the current generation is about the current
\* spec: each application runs the image the spec names, and the recorded
\* version is the one that runs, unless a status was computed from a
\* StatefulSet status older than its template, while the pass was waiting
\* for a token, or with images that ensurePXCVersion emptied or could not store.
ReadyIsCurrent ==
    recorded.state = "ready" /\ recorded.gen = gen /\ happened = {} =>
        /\ run = spec
        /\ recorded.image = spec["pxc"] => recorded.version = run["pxc"]

\* When edits and faults end, every application ends up running the image of
\* the spec, the version service's offer is what the spec names (where
\* upgrades apply), and the status says so for good; unless ensurePXCVersion
\* has emptied the images, which the user has to repair.
Settled == "empty" \notin happened =>
    /\ recorded.state = "ready" /\ recorded.gen = gen
    /\ run = spec
    /\ setup.apply => spec["pxc"] = available
    /\ recorded.image = spec["pxc"]
    /\ happened = {} => recorded.version = run["pxc"]
Settles == <>[]Settled
=============================================================================
