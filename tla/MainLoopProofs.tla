---------------------------- MODULE MainLoopProofs ----------------------------
(***************************************************************************)
(* The passes of Reconcile and the version job exclude each other and      *)
(* alternate; the version they record never goes back, and a "ready" they  *)
(* record is true, whatever the versions, edits, failures and restarts.    *)
(***************************************************************************)
EXTENDS MainLoop, TLAPS

\* statusMutex belongs to the one that runs; a registered job that finds
\* updateSync done between two passes finds a pass behind it.
LockInv ==
    /\ lpc # "idle" => mutex = "pass"
    /\ jpc # "idle" => mutex = "job"
    /\ registered /\ ~sync /\ lpc = "idle" => passed

\* A step of a pass that keeps the locks and does not end the pass keeps the
\* invariant.
LEMMA InsideThePass ==
    ASSUME LockInv, lpc # "idle", lpc' # "idle", UNCHANGED <<mutex, version>>
    PROVE  LockInv'
  BY Zenon DEF LockInv, version

\* Every step of Reconcile keeps it: Begin takes the lock, updateStatus gives it
\* back with updateSync done, the steps between do neither.
LEMMA PassKeeps ==
    ASSUME LockInv, Pass
    PROVE  LockInv'
<1>1. CASE Begin
  BY Zenon, <1>1 DEF Begin, LockInv, version
<1>2. CASE updateStatus
  BY Zenon, <1>2 DEF updateStatus, Unlocked, LockInv
<1>3. CASE setCRVersion
  BY Zenon, <1>3, InsideThePass DEF setCRVersion, Abandon, locks
<1>4. CASE WaitForToken \/ CheckFails
  BY Zenon, <1>4, InsideThePass DEF WaitForToken, CheckFails, locks
<1>5. CASE CheckNSetDefaults \/ reconcileUsers \/ reconcileVolumes \/ reconcileBackups
  BY Zenon, <1>5, InsideThePass DEF CheckNSetDefaults, reconcileUsers,
       reconcileVolumes,
     reconcileBackups, Pure, Abandon, locks, version
<1>6. CASE ensurePXCVersion
  BY Zenon, <1>6, InsideThePass DEF ensurePXCVersion, locks
<1>7. CASE deploy
  BY Zenon, <1>7, InsideThePass DEF deploy, locks
<1>8. CASE updatePXC \/ updateProxy
  BY Zenon, <1>8, InsideThePass DEF updatePXC, updateProxy, Abandon, locks
<1>9. CASE fetchVersionFromPXC
  BY Zenon, <1>9, InsideThePass DEF fetchVersionFromPXC, locks
<1>10. CASE scheduleEnsurePXCVersion
  BY Zenon, <1>10, InsideThePass DEF scheduleEnsurePXCVersion, Abandon, locks
<1>11. CASE BeginFails
  BY Zenon, <1>11 DEF BeginFails, LockInv, pass
<1> QED BY Zenon, <1>1, <1>2, <1>3, <1>4, <1>5, <1>6, <1>7, <1>8, <1>9, <1>10, <1>11
     DEF Pass

\* Every step of the version job keeps it.
LEMMA JobKeeps ==
    ASSUME LockInv, Job
    PROVE  LockInv'
<1>1. CASE JobBegin
  BY Zenon, <1>1 DEF JobBegin, LockInv, pass
<1>2. CASE JobPatch
  BY Zenon, <1>2 DEF JobPatch, JobEnds, LockInv, pass
<1>3. CASE JobStatus
  BY Zenon, <1>3 DEF JobStatus, JobEnds, LockInv, pass
<1> QED BY Zenon, <1>1, <1>2, <1>3 DEF Job

\* So does everything else; a restart of the operator frees the lock and
\* forgets the registry along with updateSync.
LEMMA LockInvNext ==
    ASSUME LockInv, [LoopNext]_loopVars
    PROVE  LockInv'
<1>1. CASE Pass
  BY Zenon, <1>1, PassKeeps
<1>2. CASE Job
  BY Zenon, <1>2, JobKeeps
<1>3. CASE RestartOperator
  BY Zenon, <1>3 DEF RestartOperator, LockInv
<1>4. CASE Offer \/ SetToken \/ IssueToken \/ ClaimsGrow
  BY <1>4 DEF Offer, SetToken, IssueToken, ClaimsGrow, LockInv, locks, pass, version
<1>5. ASSUME NEW a \in Apps, EditImage(a) \/ Kubernetes(a) \/ PodFails(a)
      PROVE  LockInv'
  BY <1>5 DEF EditImage, Kubernetes, Observe, Roll, PodUp, PodFails, LockInv,
     locks, pass, version
<1>6. CASE UNCHANGED loopVars
  BY Zenon, <1>6 DEF loopVars, LockInv, locks, pass, version
<1> QED BY Zenon, <1>1, <1>2, <1>3, <1>4, <1>5, <1>6 DEF LoopNext

\* Whatever the bounds, a pass of Reconcile has run to its end between two runs
\* of the version job (updateSync of scheduleEnsurePXCVersion).
THEOREM JobsApart == LoopSpec => VersionJobsApart
<1>1. LoopInit => LockInv
  BY Zenon DEF LoopInit, LockInv
<1>2. LockInv /\ [LoopNext]_loopVars => [JobsApartStep]_loopVars
  <2> SUFFICES ASSUME LockInv, LoopNext, jpc = "idle", jpc' = "patch" PROVE passed
    BY Zenon DEF JobsApartStep
  <2>1. JobBegin
    BY Zenon DEF LoopNext, Pass, Job, JobPatch, JobStatus, JobEnds, Offer,
         SetToken,
         IssueToken, ClaimsGrow, BeginFails, CheckFails,
       RestartOperator, EditImage, Kubernetes, Observe, Roll, PodUp, PodFails, Begin,
       setCRVersion, WaitForToken, CheckNSetDefaults, reconcileUsers,
       reconcileVolumes, reconcileBackups, Pure, Abandon, ensurePXCVersion, deploy,
       updatePXC, updateProxy, fetchVersionFromPXC, scheduleEnsurePXCVersion,
       updateStatus, pass, version
  <2> QED BY Zenon, <2>1 DEF JobBegin, MayRunJob, LockInv
<1> QED BY <1>1, <1>2, LockInvNext, PTL DEF LoopSpec, VersionJobsApart

-----------------------------------------------------------------------------
\* The shapes of the objects, with no bound on versions and generations.
StatusRecord == [state : {"none", "initializing", "ready", "error"}, pxc : BOOLEAN,
                 gen : Nat, version : Nat, image : Nat]
Object == [spec : [Apps -> Nat], gen : Nat, status : StatusRecord]

LoopShape ==
    /\ setup \in [proxy : {"haproxy", "proxysql"}, apply : BOOLEAN,
                  telemetry : BOOLEAN, custom : BOOLEAN]
    /\ spec \in [Apps -> Nat] /\ available \in Nat /\ gen \in Nat
    /\ sts \in [Apps -> Nat] /\ seen \in [Apps -> Nat] /\ run \in [Apps -> Nat]
    /\ up \in [Apps -> BOOLEAN]
    /\ recorded \in StatusRecord /\ o \in Object /\ job \in Object

\* A pass holds the object it has read; these steps come after deploy.
Inside == lpc # "idle"
Deployed == {"updatePXC", "proxy", "backups", "fetch", "schedule"}

\* Versions only rise: what the pods run, what the StatefulSets say, what the
\* pass has read and what the custom resource asks for, each at most the next.
Rising ==
    /\ \A a \in Apps : run[a] <= seen[a] /\ seen[a] <= sts[a] /\ sts[a] <= spec[a]
    /\ setup.apply => \A a \in Apps : spec[a] <= available
    /\ Inside => /\ \A a \in Apps : sts[a] <= o.spec[a] /\ o.spec[a] <= spec[a]
                 /\ o.gen <= gen /\ (o.gen = gen => o.spec = spec)
    /\ lpc \in Deployed => sts = o.spec \/ marked
    /\ lpc \in {"ensure", "ensureStatus"} => o.status.version = 0
    /\ jpc # "idle" => setup.apply /\ \A a \in Apps : job.spec[a] <= spec[a]

\* The version recorded is one that was deployed, unless it was asked of the
\* database while the StatefulSet's status was behind.
VersionKnown ==
    "lag" \notin happened =>
      /\ recorded.version <= spec["pxc"] /\ recorded.image = recorded.version
      /\ Inside => /\ recorded.version <= o.status.version
                   /\ o.status.version <= o.spec["pxc"]
                   /\ o.status.image = o.status.version
      /\ jpc = "status" => /\ recorded.version <= job.spec["pxc"]
                           /\ job.spec["pxc"] <= spec["pxc"]

\* A status "ready" of the current generation, stored or held in memory, tells
\* of StatefulSets that have been rolled out.
Rolled(s) ==
    s.state = "ready" /\ s.gen = gen /\ happened = {} =>
        run = spec /\ seen = spec /\ sts = spec
StatusTells ==
    /\ recorded.gen <= gen /\ Rolled(recorded)
    /\ Inside => /\ o.status.gen <= o.gen /\ recorded.gen <= o.gen
                 /\ Rolled(o.status)
    /\ jpc # "idle" => job.status.gen <= gen /\ Rolled(job.status)

\* The pass ends without an error after it has deployed, during a resize, or
\* before anything was deployed.
EndsDeployed ==
    /\ lpc = "status" /\ ~failed /\ "token" \notin happened =>
         marked \/ sts = o.spec \/ \A a \in Apps : sts[a] = 0
    /\ ~crVersion => /\ \A a \in Apps : sts[a] = 0
                     /\ lpc \in {"idle", "setCRVersion", "status"}
    /\ \A a \in Apps : up[a] => run[a] # 0

\* All this as long as ensurePXCVersion has not emptied the images, or gone on
\* with images that it could not store.
Clean == happened \cap {"empty", "unpatched"} = {}

LoopInv == LoopShape /\ LockInv /\ Rising /\ VersionKnown /\ StatusTells /\ EndsDeployed

\* The empty object is one.
LEMMA NoneIsAnObject == NoObject \in Object
  <1>1. [a \in Apps |-> 0] \in [Apps -> Nat]
    OBVIOUS
  <1>2. [state |-> "none", pxc |-> FALSE, gen |-> 0, version |-> 0, image |-> 0] \in StatusRecord
    BY Zenon DEF StatusRecord
  <1> QED BY Zenon, <1>1, <1>2 DEF NoObject, Object

\* The invariant holds before the first pass.
LEMMA LoopStart == LoopInit => LoopInv
  <1> SUFFICES ASSUME LoopInit PROVE LoopInv
    OBVIOUS
  <1> DEFINE zero == [a \in Apps |-> 0]
             none == [state |-> "none", pxc |-> FALSE, gen |-> 0, version |-> 0, image |-> 0]
  <1>a. zero \in [Apps -> Nat] /\ none \in StatusRecord
    <2>1. zero \in [Apps -> Nat]
      OBVIOUS
    <2>2. none \in StatusRecord
      BY Zenon DEF StatusRecord
    <2> QED BY Zenon, <2>1, <2>2
  <1>b. none.state = "none" /\ none.gen = 0 /\ none.version = 0 /\ none.image = 0
    OBVIOUS
  <1>d. \A a \in Apps : zero[a] = 0
    OBVIOUS
  <1>e. NoObject.status = none
    BY Zenon DEF NoObject
  <1>c. NoObject \in Object
    BY Zenon, NoneIsAnObject
  <1> HIDE DEF zero, none
  <1>f. recorded = none /\ o = NoObject /\ job = NoObject /\ sts = zero /\ seen = zero
        /\ run = zero /\ gen = 1 /\ available = 1 /\ lpc = "idle" /\ jpc = "idle"
        /\ registered = FALSE /\ happened = {}
    BY Zenon, <1>e DEF LoopInit, zero
  <1>g. spec \in [Apps -> Nat] /\ \A a \in Apps : spec[a] = 1
    BY Zenon DEF LoopInit
  <1>h. /\ setup \in [proxy : {"haproxy", "proxysql"}, apply : BOOLEAN,
                      telemetry : BOOLEAN, custom : BOOLEAN]
        /\ "pxc" \in Apps
    BY Zenon DEF LoopInit, Apps
  <1>i. up \in [Apps -> BOOLEAN]
    BY Zenon DEF LoopInit
  <1>1. LoopShape
    BY Zenon, <1>a, <1>c, <1>f, <1>g, <1>h, <1>i DEF LoopShape
  <1>2. LockInv /\ Rising
    BY <1>d, <1>f, <1>g DEF LockInv, Rising, Inside, Deployed
  <1>3. VersionKnown /\ StatusTells
    BY <1>b, <1>f, <1>g, <1>h DEF VersionKnown, StatusTells, Rolled, Inside
  <1>4. EndsDeployed
    <2>1. \A a \in Apps : ~up[a]
      BY Zenon DEF LoopInit
    <2> QED BY Zenon, <1>d, <1>f, <2>1 DEF EndsDeployed
  <1> QED BY Zenon, <1>1, <1>2, <1>3, <1>4 DEF LoopInv

\* A step of the pass that leaves the objects alone and moves on to a place
\* where the invariant asks no more.
LEMMA OnlyMoves ==
    ASSUME LoopInv, LockInv', Inside, lpc' # "idle", happened \subseteq happened',
           UNCHANGED <<setup, spec, gen, available, recorded, crVersion, sts, seen,
                       run, up, o, jpc, job>>,
           marked' = marked \/ marked' = TRUE,
           lpc' \in Deployed => lpc \in Deployed,
           lpc' \in {"ensure", "ensureStatus"} => o.status.version = 0,
           lpc' = "status" /\ ~failed' /\ "token" \notin happened' =>
               lpc \in Deployed \/ ~crVersion,
           ~crVersion => lpc' = "status"
    PROVE  LoopInv'
  <1>0. Apps' = Apps
    BY Zenon DEF Apps
  <1>1. LoopShape'
    BY Zenon, <1>0 DEF LoopInv, LoopShape, Object
  <1>a. marked => marked'
    OBVIOUS
  <1>2. Rising'
    BY Zenon, <1>0, <1>a DEF LoopInv, Rising, Inside
  <1>3. VersionKnown'
    BY Zenon DEF LoopInv, VersionKnown, Inside
  <1>4. StatusTells'
    BY Zenon DEF LoopInv, StatusTells, Rolled, Inside
  <1>5. EndsDeployed'
    BY Zenon, <1>0, <1>a DEF LoopInv, EndsDeployed, Rising
  <1> QED BY Zenon, <1>1, <1>2, <1>3, <1>4, <1>5 DEF LoopInv

\* The lock, and the read of the object.
LEMMA BeginKeeps ==
    ASSUME LoopInv, LockInv', Begin
    PROVE  LoopInv'
  <1>0. /\ Apps' = Apps
        /\ UNCHANGED <<setup, spec, gen, available, recorded, crVersion, sts, seen, run, up,
                       jpc, job, happened>>
    BY Zenon DEF Apps, Begin, store, cluster, version
  <1>1. /\ o'.spec = spec /\ o'.gen = gen /\ o'.status = recorded
        /\ lpc' = "setCRVersion" /\ jpc = "idle" /\ jpc' = "idle"
        /\ o' = [spec |-> spec, gen |-> gen, status |-> recorded]
    BY Zenon, <1>0 DEF LoopInv, LockInv, Begin
  <1>2. o' \in Object'
    BY Zenon, <1>0, <1>1 DEF LoopInv, LoopShape, Object
  <1>3. LoopShape'
    BY Zenon, <1>0, <1>2 DEF LoopInv, LoopShape, Object
  <1>4. Rising'
    BY <1>0, <1>1 DEF LoopInv, LoopShape, Rising, Inside, Deployed
  <1>5. VersionKnown'
    BY <1>0, <1>1 DEF LoopInv, VersionKnown, LoopShape, StatusRecord, Inside
  <1>6. StatusTells'
    BY Zenon, <1>0, <1>1 DEF LoopInv, LoopShape, StatusRecord, StatusTells,
         Rolled, Inside
  <1>7. EndsDeployed'
    BY Zenon, <1>0, <1>1 DEF LoopInv, EndsDeployed
  <1> QED BY Zenon, <1>3, <1>4, <1>5, <1>6, <1>7 DEF LoopInv

\* The first pass sets crVersion and reads the object again.
LEMMA CRVersionKeeps ==
    ASSUME LoopInv, LockInv', setCRVersion
    PROVE  LoopInv'
  <1> USE DEF setCRVersion
  <1>1. CASE crVersion
    BY Zenon, <1>1, OnlyMoves DEF store, cluster, version, Inside, Deployed
  <1>2. CASE ~crVersion /\ Abandon(TRUE)
    BY Zenon, <1>2, OnlyMoves DEF Abandon, store, cluster, version, Inside,
         Deployed
  <1>3. CASE ~crVersion /\ ~Abandon(TRUE)
    <2> USE <1>3 DEF cluster, version
    <2>0. Apps' = Apps
      BY Zenon DEF Apps
    <2>a. /\ o' = [spec |-> spec, gen |-> gen + 1, status |-> recorded]
          /\ gen' = gen + 1 /\ lpc = "setCRVersion" /\ lpc' = "defaults" /\ crVersion' = TRUE
          /\ UNCHANGED <<setup, spec, recorded, available, sts, seen, run, up, happened, jpc, job>>
      BY Zenon
    <2>b. /\ jpc = "idle" /\ gen \in Nat /\ recorded \in StatusRecord /\ spec \in [Apps -> Nat]
          /\ recorded.gen <= gen
      BY Zenon, <2>a DEF LoopInv, LockInv, LoopShape, StatusTells
    <2>c. recorded.gen \in Nat
      BY Zenon, <2>b DEF StatusRecord
    <2>1. /\ o'.spec = spec /\ o'.gen = gen + 1 /\ o'.status = recorded /\ gen' = gen + 1
          /\ lpc' = "defaults" /\ crVersion' = TRUE /\ Inside /\ jpc = "idle" /\ jpc' = "idle"
          /\ gen \in Nat /\ recorded.gen \in Nat /\ recorded.gen <= gen
          /\ UNCHANGED <<setup, spec, recorded, available, sts, seen, run, up, happened>>
      BY Zenon, <2>a, <2>b, <2>c DEF Inside
    <2>2. o' \in Object'
      <3>1. [spec |-> spec, gen |-> gen + 1, status |-> recorded] \in Object
        BY <2>b DEF Object
      <3> QED BY Zenon, <2>0, <2>a, <3>1 DEF Object, StatusRecord
    <2>3. LoopShape'
      BY Zenon, <2>0, <2>1, <2>2 DEF LoopInv, LoopShape, Object
    <2>4. Rising'
      BY <2>0, <2>1 DEF LoopInv, LoopShape, Rising, Inside, Deployed
    <2>5. VersionKnown'
      BY <2>1 DEF LoopInv, VersionKnown, LoopShape, StatusRecord, Inside
    <2>6. StatusTells'
      BY <2>1 DEF LoopInv, StatusTells, Rolled, Inside
    <2>7. EndsDeployed'
      BY Zenon, <2>0, <2>1 DEF LoopInv, EndsDeployed
    <2> QED BY Zenon, <2>3, <2>4, <2>5, <2>6, <2>7 DEF LoopInv
  <1> QED BY Zenon, <1>1, <1>2, <1>3

\* The steps that only go on or give up.
LEMMA PureKeeps ==
    ASSUME LoopInv, LockInv',
           \/ CheckFails \/ WaitForToken \/ CheckNSetDefaults \/ reconcileUsers
           \/ reconcileVolumes \/ reconcileBackups \/ scheduleEnsurePXCVersion
    PROVE  LoopInv'
  <1>0. crVersion \/ lpc \in {"idle", "setCRVersion", "status"}
    BY Zenon DEF LoopInv, EndsDeployed
  <1> USE <1>0, OnlyMoves DEF Abandon, store, cluster, version, Inside, Deployed
  <1>1. CASE WaitForToken
    BY Zenon, <1>1 DEF WaitForToken
  <1>2. CASE CheckNSetDefaults
    BY Zenon, <1>2 DEF CheckNSetDefaults, Pure
  <1>3. CASE reconcileUsers
    BY Zenon, <1>3 DEF reconcileUsers, Pure
  <1>4. CASE reconcileVolumes
    BY Zenon, <1>4 DEF reconcileVolumes, ResizeStarts, ResizeEnds, Pure
  <1>5. CASE reconcileBackups
    BY Zenon, <1>5 DEF reconcileBackups, Pure
  <1>6. CASE scheduleEnsurePXCVersion
    BY Zenon, <1>6 DEF scheduleEnsurePXCVersion
  <1>7. CASE CheckFails
    BY Zenon, <1>7 DEF CheckFails
  <1> QED BY Zenon, <1>1, <1>2, <1>3, <1>4, <1>5, <1>6, <1>7

\* What every step of the controller finds in its object.
LEMMA ObjectFields ==
    ASSUME NEW c \in Object
    PROVE  /\ c.spec \in [Apps -> Nat] /\ c.gen \in Nat /\ c.status \in StatusRecord
           /\ c.status.gen \in Nat /\ c.status.version \in Nat /\ c.status.image \in Nat
           /\ "pxc" \in Apps /\ c.spec["pxc"] \in Nat
  BY Zenon DEF Object, StatusRecord, Apps

\* The images ensurePXCVersion puts in it,
LEMMA ObjectImages ==
    ASSUME NEW c \in Object, NEW f \in [Apps -> Nat]
    PROVE  /\ [c EXCEPT !.spec = f] \in Object
           /\ [c EXCEPT !.spec = f].spec = f
           /\ [c EXCEPT !.spec = f].gen = c.gen
           /\ [c EXCEPT !.spec = f].status = c.status
           /\ f = c.spec => [c EXCEPT !.spec = f] = c
  BY Zenon DEF Object

\* The images patched are the ones on offer, all of them: an image that was on
\* offer when the object was read is stored.
LEMMA PatchesAll ==
    ASSUME LoopInv, ~Mute, setup.apply, NEW c \in Object, EnsurePatch(c),
           \A a \in Apps : c.spec[a] <= spec[a]
    PROVE  /\ spec' = [a \in Apps |-> available]
           /\ EnsureImages(c) = [c EXCEPT !.spec = [a \in Apps |-> available]]
  <1>1. getNewVersions = available
    BY Zenon DEF getNewVersions
  <1>2. ASSUME NEW a \in Apps, c.spec[a] = available PROVE spec[a] = available
    <2>1. available \in Nat /\ spec[a] \in Nat
      BY Zenon DEF LoopInv, LoopShape
    <2>2. available <= spec[a] /\ spec[a] <= available
      BY Zenon, <1>2 DEF LoopInv, Rising
    <2> QED BY <2>1, <2>2
  <1> QED BY Zenon, <1>1, <1>2 DEF EnsurePatch, EnsureImages

\* and the versions.
Versioned(c, v, i) == [c EXCEPT !.status.version = v, !.status.image = i]

\* Such an object is one, with the versions written.
LEMMA ObjectVersions ==
    ASSUME NEW c \in Object, NEW v \in Nat, NEW i \in Nat
    PROVE  LET d == Versioned(c, v, i)
           IN  /\ d \in Object /\ d.spec = c.spec /\ d.gen = c.gen
               /\ d.status.version = v /\ d.status.image = i
               /\ d.status.gen = c.status.gen /\ d.status.state = c.status.state
  <1> DEFINE s == [c.status EXCEPT !.version = v, !.image = i]
  <1>2. c.status \in StatusRecord
    BY Zenon DEF Object
  <1>3. /\ s \in StatusRecord
        /\ s.version = v /\ s.image = i /\ s.gen = c.status.gen /\ s.state = c.status.state
    BY Zenon, <1>2 DEF StatusRecord
  <1>4. Versioned(c, v, i) = [c EXCEPT !.status = s]
    BY Zenon DEF Object, Versioned
  <1> HIDE DEF s
  <1>5. /\ [c EXCEPT !.status = s] \in Object
        /\ [c EXCEPT !.status = s].spec = c.spec
        /\ [c EXCEPT !.status = s].gen = c.gen
        /\ [c EXCEPT !.status = s].status = s
    BY Zenon, <1>3 DEF Object
  <1> QED BY Zenon, <1>3, <1>4, <1>5

\* A version put in the object in memory and then, if the call succeeds, in the
\* stored status: it is the one deployed, or the StatefulSet was behind.
LEMMA VersionStored ==
    ASSUME LoopInv, Inside, Inside', jpc = "idle", jpc' = "idle",
           NEW v \in Nat, NEW i \in Nat,
           o' = Versioned(o, v, i),
           recorded' = o'.status \/ recorded' = recorded,
           happened \subseteq happened',
           "lag" \notin happened' => v = o.spec["pxc"] /\ i = o.spec["pxc"],
           UNCHANGED <<setup, spec, gen, available, sts, seen, run, up, job>>
    PROVE  /\ LoopShape' /\ VersionKnown' /\ StatusTells'
           /\ o'.spec = o.spec /\ o'.gen = o.gen
           /\ "lag" \notin happened' => recorded'.version >= recorded.version
  <1>0. Apps' = Apps /\ Object' = Object /\ o \in Object
    BY Zenon DEF Apps, Object, LoopInv, LoopShape
  <1>1. /\ o' \in Object /\ o'.spec = o.spec /\ o'.gen = o.gen
        /\ o'.status.version = v /\ o'.status.image = i
        /\ o'.status.gen = o.status.gen /\ o'.status.state = o.status.state
    <2>1. LET e == Versioned(o, v, i)
          IN  /\ e \in Object /\ e.spec = o.spec /\ e.gen = o.gen
              /\ e.status.version = v /\ e.status.image = i
              /\ e.status.gen = o.status.gen /\ e.status.state = o.status.state
      BY Zenon, <1>0, ObjectVersions
    <2> QED BY Zenon, <2>1
  <1>2. recorded' \in StatusRecord
    BY Zenon, <1>1 DEF LoopInv, LoopShape, Object
  <1>3. /\ o.gen \in Nat /\ o.status.gen \in Nat /\ o.status.version \in Nat
        /\ "pxc" \in Apps /\ o.spec["pxc"] \in Nat /\ recorded.version \in Nat
        /\ gen \in Nat /\ spec["pxc"] \in Nat /\ recorded.gen \in Nat
    BY Zenon, <1>0, ObjectFields DEF LoopInv, LoopShape, StatusRecord
  <1>4. LoopShape'
    BY Zenon, <1>0, <1>1, <1>2 DEF LoopInv, LoopShape
  <1>5. o.spec["pxc"] <= spec["pxc"] /\ o.gen <= gen
    BY Zenon, <1>3 DEF LoopInv, Rising
  <1>6. ASSUME "lag" \notin happened'
        PROVE  /\ recorded.version <= v /\ v <= spec["pxc"] /\ i = v
               /\ recorded.image = recorded.version
    BY <1>3, <1>5, <1>6 DEF LoopInv, VersionKnown
  <1>7. VersionKnown'
    <2>1. CASE recorded' = o'.status
      BY <1>1, <1>3, <1>5, <1>6, <2>1 DEF VersionKnown
    <2>2. CASE recorded' = recorded
      BY <1>1, <1>3, <1>5, <1>6, <2>2 DEF VersionKnown
    <2> QED BY Zenon, <2>1, <2>2
  <1>8. StatusTells'
    <2>1. /\ o.status.gen <= o.gen /\ recorded.gen <= o.gen
          /\ Rolled(o.status) /\ Rolled(recorded)
      BY Zenon DEF LoopInv, StatusTells
    <2>2. Rolled(o.status)' /\ Rolled(recorded)'
      <3>1. CASE recorded' = o'.status
        BY Zenon, <1>1, <2>1, <3>1 DEF Rolled
      <3>2. CASE recorded' = recorded
        BY Zenon, <1>1, <2>1, <3>2 DEF Rolled
      <3> QED BY Zenon, <3>1, <3>2
    <2>3. o'.status.gen <= o'.gen /\ recorded'.gen <= o'.gen /\ recorded'.gen <= gen'
      <3>1. CASE recorded' = o'.status
        BY <1>1, <1>3, <1>5, <2>1, <3>1
      <3>2. CASE recorded' = recorded
        BY <1>1, <1>3, <1>5, <2>1, <3>2
      <3> QED BY Zenon, <3>1, <3>2
    <2> QED BY Zenon, <2>2, <2>3 DEF StatusTells, Rolled
  <1>9. "lag" \notin happened' => recorded'.version >= recorded.version
    <2>1. CASE recorded' = o'.status
      BY Zenon, <1>1, <1>3, <1>6, <2>1
    <2>2. CASE recorded' = recorded
      BY <1>3, <2>2
    <2> QED BY Zenon, <2>1, <2>2
  <1> QED BY Zenon, <1>1, <1>4, <1>7, <1>8, <1>9

\* ensurePXCVersion in the pass: the Patch of the images, then the status.
LEMMA EnsureKeeps ==
    ASSUME LoopInv, LockInv', Clean', ensurePXCVersion
    PROVE  /\ LoopInv'
           /\ "lag" \notin happened' => recorded'.version >= recorded.version
  <1>0. Apps' = Apps /\ Object' = Object /\ o \in Object /\ jpc = "idle" /\ jpc' = "idle"
    BY Zenon DEF Apps, Object, LoopInv, LoopShape, LockInv, ensurePXCVersion,
         cluster, version
  <1>1. CASE lpc = "ensure" /\ lpc' = "volumes"
    <2>0. o' = o /\ happened' = happened
      <3>1. CASE EnsureApplies(o) /\ NoteImages(FALSE) /\ o' = EnsureImages(o)
        <4>1. ~Mute /\ o.spec = EnsureImages(o).spec /\ happened' = happened
          BY Zenon, <3>1 DEF NoteImages, Clean
        <4>2. available \in Nat
          BY Zenon DEF LoopInv, LoopShape
        <4>3. PICK f \in [Apps -> Nat] : EnsureImages(o) = [o EXCEPT !.spec = f]
          BY Zenon, <4>1, <4>2 DEF EnsureImages, getNewVersions
        <4> QED BY Zenon, <1>0, <3>1, <4>1, <4>3, ObjectImages
      <3> QED BY Zenon, <1>1, <3>1 DEF ensurePXCVersion
    <2>1. LoopInv'
      BY Zenon, <1>1, <2>0, OnlyMoves DEF LoopInv, EndsDeployed, Inside, Deployed,
           ensurePXCVersion, store, cluster, version
    <2>2. recorded.version \in Nat /\ recorded' = recorded
      BY Zenon, <1>1 DEF LoopInv, LoopShape, StatusRecord, ensurePXCVersion,
           store, cluster, version
    <2> QED BY <2>1, <2>2
  <1>2. CASE lpc = "ensure" /\ lpc' = "ensureStatus"
    <2> DEFINE f == [a \in Apps |-> available]
    <2>0. /\ EnsurePatch(o) /\ o' = EnsureImages(o) /\ setup.apply /\ NoteImages(TRUE)
          /\ UNCHANGED <<setup, available, recorded, crVersion, sts, seen, run, up, job>>
      BY Zenon, <1>2 DEF EnsureApplies, ensurePXCVersion, cluster, version
    <2>a. ~Mute /\ happened' = happened
      BY Zenon, <2>0 DEF NoteImages, Clean
    <2>b. \A a \in Apps : o.spec[a] <= spec[a]
      BY Zenon, <1>2 DEF LoopInv, Rising, Inside
    <2>c. spec' = f /\ EnsureImages(o) = [o EXCEPT !.spec = f]
      BY Zenon, <1>0, <2>0, <2>a, <2>b, PatchesAll
    <2>1. /\ spec' = f /\ gen' = (IF f = spec THEN gen ELSE gen + 1)
          /\ o' = [o EXCEPT !.spec = f] /\ setup.apply
          /\ UNCHANGED <<setup, available, recorded, crVersion, sts, seen, run, up, happened, job>>
      BY Zenon, <2>0, <2>a, <2>c DEF EnsurePatch
    <2>2. available \in Nat /\ gen \in Nat /\ recorded \in StatusRecord /\ recorded.version \in Nat
          /\ recorded.gen \in Nat /\ spec \in [Apps -> Nat]
      BY Zenon DEF LoopInv, LoopShape, StatusRecord
    <2>3. f \in [Apps -> Nat] /\ \A a \in Apps : f[a] = available
      BY Zenon, <2>2
    <2> HIDE DEF f
    <2>4. o' \in Object /\ o'.spec = f /\ o'.gen = o.gen /\ o'.status = o.status
      BY Zenon, <1>0, <2>1, <2>2, <2>3, ObjectImages
    <2>5. /\ o.gen \in Nat /\ o.status.gen \in Nat /\ o.status.version \in Nat
          /\ "pxc" \in Apps
      BY Zenon, <1>0, ObjectFields
    <2>6. LoopShape'
      BY <1>0, <2>1, <2>2, <2>3, <2>4 DEF LoopInv, LoopShape
    <2>7. \A a \in Apps : spec[a] <= f[a]
      BY Zenon, <2>1, <2>3 DEF LoopInv, Rising
    <2>8. gen' \in Nat /\ gen <= gen' /\ (gen' = gen => f = spec)
      BY <2>1, <2>2
    <2>9. Rising'
      <3>1. \A a \in Apps : run[a] <= seen[a] /\ seen[a] <= sts[a] /\ sts[a] <= f[a]
        <4>1. \A a \in Apps : sts[a] \in Nat /\ spec[a] \in Nat /\ f[a] \in Nat
          BY Zenon, <2>2, <2>3 DEF LoopInv, LoopShape
        <4> QED BY <2>7, <4>1 DEF LoopInv, Rising
      <3>2. o.gen <= gen'
        BY <1>2, <2>2, <2>5, <2>8 DEF LoopInv, Rising, Inside
      <3>3. o.status.version = 0
        BY Zenon, <1>2 DEF LoopInv, Rising
      <3> QED BY <1>0, <1>2, <2>1, <2>2, <2>3, <2>4, <3>1, <3>2, <3>3
           DEF Rising, Deployed
    <2>10. VersionKnown'
      <3>1. o.status.version = 0
        BY Zenon, <1>2 DEF LoopInv, Rising
      <3> QED BY <1>0, <1>2, <2>1, <2>2, <2>3, <2>4, <2>5, <3>1 DEF LoopInv,
           VersionKnown, Inside
    <2>11. StatusTells'
      <3>1. CASE gen' = gen
        BY Zenon, <1>0, <1>2, <2>1, <2>2, <2>4, <2>8, <3>1 DEF LoopInv,
             StatusTells,
             Rolled, Inside
      <3>2. CASE gen' # gen
        BY <1>0, <1>2, <2>1, <2>2, <2>4, <2>5, <2>8, <3>2
           DEF LoopInv, StatusTells, Rising, Rolled, Inside
      <3> QED BY Zenon, <3>1, <3>2
    <2>12. EndsDeployed'
      BY Zenon, <1>0, <1>2, <2>1 DEF LoopInv, EndsDeployed
    <2> QED BY <2>1, <2>2, <2>6, <2>9, <2>10, <2>11, <2>12 DEF LoopInv
  <1>3. CASE lpc = "ensureStatus"
    <2>1. /\ o' = Versioned(o, o.spec["pxc"], o.spec["pxc"])
          /\ recorded' = o'.status \/ recorded' = recorded
          /\ lpc' = "volumes"
          /\ UNCHANGED <<setup, spec, gen, available, crVersion, sts, seen, run, up, happened, job>>
      BY Zenon, <1>3 DEF Ensured, Versioned, ensurePXCVersion, cluster, version
    <2>2. o.spec["pxc"] \in Nat
      BY Zenon, <1>0, ObjectFields
    <2>3. /\ LoopShape' /\ VersionKnown' /\ StatusTells' /\ o'.spec = o.spec /\ o'.gen = o.gen
          /\ "lag" \notin happened' => recorded'.version >= recorded.version
      BY Zenon, <1>0, <1>3, <2>1, <2>2, VersionStored DEF Inside
    <2>6. Rising'
      BY Zenon, <1>0, <1>3, <2>1, <2>3 DEF LoopInv, Rising, Inside, Deployed
    <2>9. EndsDeployed'
      BY Zenon, <1>0, <1>3, <2>1 DEF LoopInv, EndsDeployed
    <2> QED BY Zenon, <2>3, <2>6, <2>9 DEF LoopInv
  <1> QED BY Zenon, <1>1, <1>2, <1>3 DEF ensurePXCVersion, cluster, version

\* deploy puts the images the pass has read in the StatefulSets.
LEMMA DeployKeeps ==
    ASSUME LoopInv, LockInv', deploy
    PROVE  LoopInv'
  <1>0. /\ Apps' = Apps /\ Object' = Object /\ o \in Object /\ jpc = "idle" /\ jpc' = "idle"
        /\ crVersion /\ lpc = "deploy" /\ job' = job
        /\ UNCHANGED <<setup, spec, gen, available, recorded, crVersion, seen, run, up, o, happened>>
    BY Zenon DEF Apps, Object, LoopInv, LoopShape, LockInv, EndsDeployed,
         deploy,
         store, version
  <1>1. o.spec \in [Apps -> Nat] /\ o.gen \in Nat /\ o.status.gen \in Nat /\ gen \in Nat
        /\ recorded.gen \in Nat /\ sts \in [Apps -> Nat] /\ seen \in [Apps -> Nat]
    BY Zenon, <1>0, ObjectFields DEF LoopInv, LoopShape, StatusRecord
  <1>2. PICK done \in {{}, {"pxc"}, Apps} :
          /\ sts' = [a \in Apps |-> IF a \in done /\ ~marked THEN o.spec[a] ELSE sts[a]]
          /\ \/ done = Apps /\ lpc' = "updatePXC"
             \/ lpc' = "status" /\ failed' = TRUE
    BY Zenon DEF deploy, Updates, store, version
  <1>a. marked' = marked
    BY Zenon DEF deploy
  <1>3. /\ sts' \in [Apps -> Nat]
        /\ \A a \in Apps : sts'[a] = sts[a] \/ sts'[a] = o.spec[a]
        /\ lpc' = "updatePXC" => sts' = o.spec \/ marked'
        /\ lpc' \in {"updatePXC", "status"} /\ (lpc' = "status" => failed')
    BY Zenon, <1>1, <1>2, <1>a
  <1>4. /\ \A a \in Apps : sts[a] <= o.spec[a] /\ o.spec[a] <= spec[a] /\ seen[a] <= sts[a]
        /\ o.gen <= gen /\ (o.gen = gen => o.spec = spec)
        /\ o.status.gen <= o.gen /\ recorded.gen <= o.gen
    BY Zenon, <1>0 DEF LoopInv, Rising, StatusTells, Inside
  <1>5. LoopShape'
    BY Zenon, <1>0, <1>3 DEF LoopInv, LoopShape
  <1>6. Rising'
    <2>1. \A a \in Apps : seen[a] <= sts'[a] /\ sts'[a] <= o.spec[a]
                          /\ sts'[a] <= spec[a]
      <3>1. \A a \in Apps : sts[a] \in Nat /\ o.spec[a] \in Nat /\ seen[a] \in Nat /\ spec[a] \in Nat
        BY Zenon, <1>1 DEF LoopInv, LoopShape
      <3> QED BY <1>3, <1>4, <3>1
    <2> QED BY Zenon, <1>0, <1>3, <1>4, <2>1 DEF LoopInv, Rising, Inside,
         Deployed
  <1>7. VersionKnown'
    BY Zenon, <1>0, <1>3 DEF LoopInv, VersionKnown, Inside
  <1>8. StatusTells'
    <2>1. o.gen = gen /\ sts = spec => sts' = sts
      BY <1>1, <1>3, <1>4
    <2>2. Rolled(recorded)' /\ Rolled(o.status)'
      BY <1>0, <1>1, <1>4, <2>1 DEF LoopInv, StatusTells, Rolled,
           Inside
    <2> QED BY Zenon, <1>0, <1>3, <1>4, <2>2 DEF LoopInv, StatusTells, Rolled,
         Inside
  <1>9. EndsDeployed'
    BY Zenon, <1>0, <1>3 DEF LoopInv, EndsDeployed
  <1> QED BY Zenon, <1>5, <1>6, <1>7, <1>8, <1>9 DEF LoopInv

\* The updates after it find nothing to change any more.
LEMMA UpdatesKeep ==
    ASSUME LoopInv, LockInv', updatePXC \/ updateProxy
    PROVE  LoopInv'
  <1>0. /\ lpc \in {"updatePXC", "proxy"} /\ (sts = o.spec \/ marked) /\ crVersion
        /\ sts \in [Apps -> Nat]
    BY Zenon DEF updatePXC, updateProxy, LoopInv, LoopShape, Rising,
         EndsDeployed, Deployed
  <1>1. sts' = sts
    BY <1>0 DEF updatePXC, updateProxy, Updates, Abandon, cluster
  <1>2. /\ lpc' \in {"proxy", "backups", "status"}
        /\ UNCHANGED <<setup, store, seen, run, up, o, marked, version, happened>>
    BY Zenon DEF updatePXC, updateProxy, Abandon, cluster
  <1> QED BY Zenon, <1>0, <1>1, <1>2, OnlyMoves DEF store, version, Inside,
       Deployed

\* fetchVersionFromPXC asks the database when the StatefulSet is rolled out,
\* or believes so because its status is behind.
LEMMA FetchKeeps ==
    ASSUME LoopInv, LockInv', fetchVersionFromPXC
    PROVE  /\ LoopInv'
           /\ "lag" \notin happened' => recorded'.version >= recorded.version
  <1>0. /\ Apps' = Apps /\ Object' = Object /\ o \in Object /\ jpc = "idle" /\ jpc' = "idle"
        /\ crVersion /\ lpc = "fetch" /\ marked' = marked
    BY Zenon DEF Apps, Object, LoopInv, LoopShape, LockInv, EndsDeployed,
         Rising, Deployed, fetchVersionFromPXC, cluster, version
  <1>1. CASE UNCHANGED <<recorded, o, failed, left, happened>>
    <2>1. LoopInv'
      BY Zenon, <1>0, <1>1, OnlyMoves DEF Inside, Deployed, fetchVersionFromPXC,
           cluster, version
    <2>2. recorded.version \in Nat
      BY Zenon DEF LoopInv, LoopShape, StatusRecord
    <2> QED BY <1>1, <2>1, <2>2
  <1>2. CASE MustFetch /\ up["pxc"] /\ o' = Fetched
    <2>1. /\ o' = Versioned(o, run["pxc"], o.spec["pxc"])
          /\ recorded' = o'.status \/ recorded' = recorded
          /\ lpc' \in {"schedule", "status"}
          /\ NoteLag(Lagging \/ sts["pxc"] # o.spec["pxc"])
          /\ UNCHANGED <<setup, spec, gen, crVersion, available, sts, seen, run, up, job>>
      BY Zenon, <1>2 DEF Fetched, Versioned, MustFetch, fetchVersionFromPXC,
           cluster,
           version
    <2>2. o.spec["pxc"] \in Nat /\ "pxc" \in Apps /\ run["pxc"] \in Nat
      BY Zenon, <1>0, ObjectFields DEF LoopInv, LoopShape
    <2>3. /\ happened \subseteq happened'
          /\ "lag" \notin happened' => ~Lagging /\ sts["pxc"] = o.spec["pxc"]
      BY Zenon, <2>1 DEF NoteLag
    <2>4. "lag" \notin happened' => run["pxc"] = o.spec["pxc"]
      <3> SUFFICES ASSUME "lag" \notin happened' PROVE run["pxc"] = o.spec["pxc"]
        OBVIOUS
      <3>1. seen["pxc"] = sts["pxc"]
        BY Zenon, <2>2, <2>3 DEF Lagging
      <3>2. run["pxc"] # 0
        BY Zenon, <1>2, <2>2 DEF LoopInv, EndsDeployed
      <3>3. run["pxc"] = seen["pxc"]
        BY Zenon, <1>2, <3>2 DEF MustFetch, upgradeInProgress
      <3> QED BY Zenon, <2>3, <3>1, <3>3
    <2>5. /\ LoopShape' /\ VersionKnown' /\ StatusTells' /\ o'.spec = o.spec /\ o'.gen = o.gen
          /\ "lag" \notin happened' => recorded'.version >= recorded.version
      BY Zenon, <1>0, <2>1, <2>2, <2>3, <2>4, VersionStored DEF Inside
    <2>a. marked => marked'
      BY <1>0
    <2>6. Rising'
      BY Zenon, <1>0, <2>1, <2>5, <2>a DEF LoopInv, Rising, Inside, Deployed
    <2>7. EndsDeployed'
      BY Zenon, <1>0, <2>1, <2>5, <2>6, <2>a DEF LoopInv, Rising, EndsDeployed, Deployed
    <2> QED BY Zenon, <2>5, <2>6, <2>7 DEF LoopInv
  <1> QED BY Zenon, <1>1, <1>2 DEF fetchVersionFromPXC, cluster, version

\* The deferred updateStatus: "ready" only when all that was deployed runs.
LEMMA StatusKeeps ==
    ASSUME LoopInv, LockInv', updateStatus
    PROVE  /\ LoopInv'
           /\ "lag" \notin happened' => recorded'.version >= recorded.version
  <1>0. /\ Apps' = Apps /\ Object' = Object /\ o \in Object /\ jpc = "idle" /\ jpc' = "idle"
        /\ lpc = "status" /\ lpc' = "idle"
        /\ UNCHANGED <<setup, spec, gen, crVersion, available, sts, seen, run, up, job>>
    BY Zenon DEF Apps, Object, LoopInv, LoopShape, LockInv, updateStatus,
         cluster
  <1>1. /\ o.gen \in Nat /\ o.status \in StatusRecord /\ o.status.gen \in Nat
        /\ o.status.version \in Nat /\ "pxc" \in Apps /\ recorded.version \in Nat
        /\ gen \in Nat /\ recorded.gen \in Nat /\ o.spec \in [Apps -> Nat]
        /\ spec["pxc"] \in Nat /\ o.spec["pxc"] \in Nat
    BY Zenon, <1>0, ObjectFields DEF LoopInv, LoopShape, StatusRecord
  <1>2. /\ o.gen <= gen /\ (o.gen = gen => o.spec = spec)
        /\ o.status.gen <= o.gen /\ recorded.gen <= gen
        /\ o.spec["pxc"] <= spec["pxc"]
    BY Zenon, <1>0, <1>1 DEF LoopInv, Rising, StatusTells, Inside
  <1>3. happened \subseteq happened' /\ ("lag" \notin happened' => ~Lagging)
    BY Zenon DEF NoteLag, updateStatus, cluster
  <1>4. recorded' = NewStatus \/ recorded' = recorded
    BY Zenon DEF updateStatus, cluster
  <1>5. /\ NewStatus \in StatusRecord
        /\ NewStatus.version = o.status.version /\ NewStatus.image = o.status.image
        /\ NewStatus.gen \in {o.status.gen, o.gen}
        /\ NewStatus.state = "ready" =>
             ~failed /\ ~marked /\ ClusterStatus = "ready" /\ NewStatus.gen = o.gen
    <2>1. ClusterStatus \in {"initializing", "ready"} /\ appReady("pxc") \in BOOLEAN
      BY Zenon DEF ClusterStatus, appReady
    <2>2. CASE failed
      BY Zenon, <1>1, <2>2 DEF NewStatus, StatusRecord
    <2>3. CASE ~failed /\ marked
      BY Zenon, <1>1, <2>3 DEF NewStatus, StatusRecord
    <2>4. CASE ~failed /\ ~marked
      BY Zenon, <1>1, <2>1, <2>4 DEF NewStatus, StatusRecord
    <2> QED BY Zenon, <2>2, <2>3, <2>4
  <1>6. ASSUME NewStatus.state = "ready", NewStatus.gen = gen, happened' = {}
        PROVE  run = spec /\ seen = spec /\ sts = spec
    <2>1. ~failed /\ ~marked /\ ClusterStatus = "ready" /\ o.gen = gen
      BY Zenon, <1>5, <1>6
    <2>2. o.spec = spec /\ ~Lagging /\ happened = {}
      BY Zenon, <1>2, <1>3, <1>6, <2>1
    <2>3. \A a \in Apps : up[a] /\ (run[a] # 0 => run[a] = seen[a])
      BY Zenon, <2>1 DEF ClusterStatus, upgradeInProgress, appReady
    <2>4. \A a \in Apps : run[a] # 0 /\ run[a] = seen[a] /\ seen[a] = sts[a]
      BY Zenon, <2>2, <2>3 DEF Lagging, LoopInv, EndsDeployed
    <2>5. sts = o.spec
      <3>1. sts = o.spec \/ \A a \in Apps : sts[a] = 0
        BY Zenon, <1>0, <2>1, <2>2 DEF LoopInv, EndsDeployed
      <3>2. sts["pxc"] # 0
        BY Zenon, <1>1, <2>4
      <3> QED BY Zenon, <1>1, <3>1, <3>2
    <2>6. run = sts /\ seen = sts
      BY <2>4 DEF LoopInv, LoopShape
    <2> QED BY Zenon, <2>2, <2>5, <2>6
  <1>7. LoopShape'
    <2>1. o' \in Object
      BY Zenon, NoneIsAnObject DEF updateStatus, cluster
    <2>2. recorded' \in StatusRecord
      BY Zenon, <1>4, <1>5 DEF LoopInv, LoopShape
    <2> QED BY Zenon, <1>0, <2>1, <2>2 DEF LoopInv, LoopShape
  <1>8. Rising'
    BY Zenon, <1>0 DEF LoopInv, Rising, Inside, Deployed
  <1>9. VersionKnown' /\ ("lag" \notin happened' => recorded'.version >= recorded.version)
    <2>1. "lag" \notin happened' =>
            /\ recorded.version <= o.status.version /\ o.status.version <= spec["pxc"]
            /\ o.status.image = o.status.version /\ recorded.image = recorded.version
      BY <1>0, <1>1, <1>2, <1>3 DEF LoopInv, VersionKnown, Inside
    <2>2. CASE recorded' = NewStatus
      BY Zenon, <1>0, <1>1, <1>5, <2>1, <2>2 DEF VersionKnown, Inside
    <2>3. CASE recorded' = recorded
      BY <1>0, <1>1, <2>1, <2>3 DEF VersionKnown, Inside
    <2> QED BY Zenon, <1>4, <2>2, <2>3
  <1>10. StatusTells'
    <2>1. CASE recorded' = NewStatus
      BY <1>0, <1>1, <1>2, <1>5, <1>6, <2>1 DEF StatusTells, Rolled, Inside
    <2>2. CASE recorded' = recorded
      BY Zenon, <1>0, <1>1, <1>2, <1>3, <2>2 DEF LoopInv, StatusTells, Rolled,
           Inside
    <2> QED BY Zenon, <1>4, <2>1, <2>2
  <1>11. EndsDeployed'
    <2> USE ONLY LoopInv, <1>0
    <2> QED BY Zenon DEF LoopInv, EndsDeployed
  <1> QED BY Zenon, <1>7, <1>8, <1>9, <1>10, <1>11 DEF LoopInv

\* The job reads the stored object, patches the images and stores the versions;
\* no pass runs meanwhile.
LEMMA VersionJobKeeps ==
    ASSUME LoopInv, LockInv', Clean', Job
    PROVE  /\ LoopInv'
           /\ "lag" \notin happened' => recorded'.version >= recorded.version
  <1>0. /\ Apps' = Apps /\ Object' = Object /\ lpc = "idle" /\ lpc' = "idle" /\ o' = o
        /\ UNCHANGED <<setup, crVersion, available, sts, seen, run, up, happened>>
    <2>1. happened' = happened
      BY Zenon DEF Job, JobBegin, JobPatch, JobStatus, Clean
    <2> QED BY Zenon, <2>1 DEF Apps, Object, LoopInv, LockInv, Job, JobBegin, JobPatch,
         JobStatus, pass, store, cluster
  <1>1. /\ available \in Nat /\ gen \in Nat /\ recorded \in StatusRecord
        /\ recorded.version \in Nat /\ recorded.gen \in Nat /\ spec \in [Apps -> Nat]
        /\ job \in Object /\ "pxc" \in Apps /\ o \in Object
    BY Zenon DEF LoopInv, LoopShape, StatusRecord, Apps
  <1>2. /\ job.spec \in [Apps -> Nat] /\ job.gen \in Nat /\ job.status \in StatusRecord
        /\ job.status.gen \in Nat
    BY Zenon, <1>1, ObjectFields
  <1>3. CASE JobBegin
    <2>1. /\ jpc = "idle" /\ UNCHANGED <<spec, gen, recorded>>
          /\ \/ UNCHANGED <<jpc, job>>
             \/ /\ jpc' = "patch" /\ setup.apply
                /\ job' = [spec |-> spec, gen |-> gen, status |-> recorded]
      BY Zenon, <1>3 DEF LoopInv, LockInv, JobBegin, JobApplies, EnsureApplies, store
    <2>2. job' \in Object /\ (jpc' = "patch" => job'.status = recorded /\ job'.spec = spec)
      BY <1>1, <2>1 DEF Object
    <2>3. LoopShape'
      BY Zenon, <1>0, <1>1, <2>1, <2>2 DEF LoopInv, LoopShape
    <2>4. Rising'
      <3>1. \A a \in Apps : spec[a] <= spec[a]
        BY <1>1
      <3> QED BY Zenon, <1>0, <2>1, <2>2, <3>1 DEF LoopInv, Rising, Inside, Deployed
    <2>5. VersionKnown'
      BY Zenon, <1>0, <2>1 DEF LoopInv, VersionKnown, Inside
    <2>6. StatusTells'
      BY Zenon, <1>0, <2>1, <2>2 DEF LoopInv, StatusTells, Rolled, Inside
    <2>7. EndsDeployed'
      BY Zenon, <1>0 DEF LoopInv, EndsDeployed
    <2> QED BY <1>1, <2>1, <2>3, <2>4, <2>5, <2>6, <2>7 DEF LoopInv
  <1>4. CASE JobPatch /\ jpc' = "idle"
    <2>1. /\ jpc' = "idle" /\ job' = NoObject /\ UNCHANGED <<spec, gen, recorded>>
      BY Zenon, <1>4 DEF JobPatch, JobEnds
    <2>3. LoopShape'
      BY Zenon, <1>0, <1>1, <2>1, NoneIsAnObject DEF LoopInv, LoopShape
    <2>4. Rising'
      BY Zenon, <1>0, <2>1 DEF LoopInv, Rising, Inside, Deployed
    <2>5. VersionKnown'
      BY Zenon, <1>0, <2>1 DEF LoopInv, VersionKnown, Inside
    <2>6. StatusTells'
      BY Zenon, <1>0, <2>1 DEF LoopInv, StatusTells, Rolled, Inside
    <2>7. EndsDeployed'
      BY Zenon, <1>0 DEF LoopInv, EndsDeployed
    <2> QED BY <1>1, <2>1, <2>3, <2>4, <2>5, <2>6, <2>7 DEF LoopInv
  <1>5. CASE JobPatch /\ jpc' # "idle"
    <2> DEFINE f == [a \in Apps |-> available]
    <2>1. /\ jpc = "patch" /\ jpc' = "status" /\ recorded' = recorded
          /\ spec' = f /\ gen' = (IF f = spec THEN gen ELSE gen + 1)
          /\ job' = [job EXCEPT !.spec = f]
      <3>1. /\ jpc = "patch" /\ jpc' = "status" /\ recorded' = recorded
            /\ EnsurePatch(job) /\ job' = EnsureImages(job) /\ ~Mute
        BY Zenon, <1>5 DEF JobPatch, JobEnds, Clean
      <3>2. setup.apply /\ \A a \in Apps : job.spec[a] <= spec[a]
        BY Zenon, <3>1 DEF LoopInv, Rising
      <3>3. spec' = f /\ EnsureImages(job) = [job EXCEPT !.spec = f]
        BY Zenon, <1>1, <3>1, <3>2, PatchesAll
      <3> QED BY Zenon, <3>1, <3>3 DEF EnsurePatch
    <2>2. f \in [Apps -> Nat] /\ \A a \in Apps : f[a] = available
      BY Zenon, <1>1
    <2> HIDE DEF f
    <2>3. job' \in Object /\ job'.spec = f /\ job'.status = job.status
      BY Zenon, <1>1, <2>1, <2>2, ObjectImages
    <2>4. gen' \in Nat /\ gen <= gen' /\ (gen' = gen => f = spec)
      BY <1>1, <2>1
    <2>5. setup.apply /\ \A a \in Apps : spec[a] <= f[a]
      BY Zenon, <2>1, <2>2 DEF LoopInv, Rising
    <2>6. LoopShape'
      BY Zenon, <1>0, <1>1, <2>1, <2>2, <2>3, <2>4 DEF LoopInv, LoopShape
    <2>7. Rising'
      <3>1. \A a \in Apps : run[a] <= seen[a] /\ seen[a] <= sts[a] /\ sts[a] <= f[a]
        <4>1. \A a \in Apps : sts[a] \in Nat /\ spec[a] \in Nat /\ f[a] \in Nat
          BY Zenon, <1>1, <2>2 DEF LoopInv, LoopShape
        <4> QED BY <2>5, <4>1 DEF LoopInv, Rising
      <3> QED BY <1>0, <1>1, <2>1, <2>2, <2>3, <2>5, <3>1 DEF Rising,
           Inside, Deployed
    <2>8. VersionKnown'
      <3>1. "lag" \notin happened => recorded.version <= f["pxc"]
        <4>1. spec["pxc"] \in Nat /\ f["pxc"] \in Nat
          BY Zenon, <1>1, <2>2
        <4> QED BY <1>1, <2>5, <4>1 DEF LoopInv, VersionKnown
      <3> QED BY <1>0, <1>1, <2>1, <2>2, <2>3, <3>1 DEF LoopInv, VersionKnown,
           Inside
    <2>9. StatusTells'
      <3>1. job.status.gen <= gen /\ recorded.gen <= gen /\ Rolled(job.status) /\ Rolled(recorded)
        BY Zenon, <2>1 DEF LoopInv, StatusTells
      <3> QED BY <1>0, <1>1, <1>2, <2>1, <2>3, <2>4, <3>1 DEF StatusTells,
           Rolled, Inside
    <2>10. EndsDeployed'
      BY Zenon, <1>0 DEF LoopInv, EndsDeployed
    <2> QED BY <1>1, <2>1, <2>6, <2>7, <2>8, <2>9, <2>10 DEF LoopInv
  <1>6. CASE JobStatus
    <2>2. PICK x \in Nat : x = job.spec["pxc"]
      BY Zenon, <1>1, <1>2
    <2>0. PICK d : d = Versioned(job, x, x)
      OBVIOUS
    <2> DEFINE v == d.status
    <2>1. /\ jpc = "status" /\ jpc' = "idle" /\ job' = NoObject /\ UNCHANGED <<spec, gen>>
          /\ recorded' = recorded \/ recorded' = v
      BY Zenon, <1>6, <2>0, <2>2 DEF JobStatus, JobEnds, Ensured, Versioned
    <2>3. /\ v \in StatusRecord /\ v.version = job.spec["pxc"] /\ v.image = v.version
          /\ v.gen = job.status.gen /\ v.state = job.status.state
      <3>1. /\ d \in Object /\ v.version = x /\ v.image = x
            /\ v.gen = job.status.gen /\ v.state = job.status.state
        <4>1. job \in Object /\ x \in Nat
          BY Zenon, <1>1
        <4> HIDE DEF v
        <4>2. LET e == Versioned(job, x, x)
              IN  /\ e \in Object /\ e.status.version = x /\ e.status.image = x
                  /\ e.status.gen = job.status.gen /\ e.status.state = job.status.state
          BY ONLY SMTT(30), <4>1, ObjectVersions
        <4> QED BY ONLY <2>0, <4>2 DEF v
      <3> QED BY Zenon, <2>2, <3>1, ObjectFields
    <2> HIDE DEF v
    <2>4. /\ "lag" \notin happened => recorded.version <= job.spec["pxc"]
                                     /\ job.spec["pxc"] <= spec["pxc"]
          /\ job.status.gen <= gen /\ Rolled(job.status)
      BY Zenon, <2>1 DEF LoopInv, VersionKnown, StatusTells
    <2>5. LoopShape'
      <3>1. recorded' \in StatusRecord /\ job' \in Object
        BY Zenon, <1>1, <2>1, <2>3, NoneIsAnObject
      <3> QED BY Zenon, <1>0, <1>1, <2>1, <3>1 DEF LoopInv, LoopShape
    <2>6. Rising'
      BY Zenon, <1>0, <2>1 DEF LoopInv, Rising, Inside, Deployed
    <2>7. VersionKnown'
      BY Zenon, <1>0, <2>1, <2>3, <2>4 DEF LoopInv, VersionKnown, Inside
    <2>8. StatusTells'
      BY Zenon, <1>0, <2>1, <2>3, <2>4 DEF LoopInv, StatusTells, Rolled,
           Inside
    <2>9. EndsDeployed'
      BY Zenon, <1>0 DEF LoopInv, EndsDeployed
    <2>10. "lag" \notin happened' => recorded'.version >= recorded.version
      BY <1>0, <1>1, <2>1, <2>2, <2>3, <2>4
    <2> QED BY Zenon, <2>5, <2>6, <2>7, <2>8, <2>9, <2>10 DEF LoopInv
  <1> QED BY Zenon, <1>3, <1>4, <1>5, <1>6 DEF Job

\* An edit of an image makes a new generation, of which nothing is said yet.
LEMMA EditKeeps ==
    ASSUME LoopInv, LockInv', NEW a \in Apps, EditImage(a)
    PROVE  LoopInv'
  <1>0. /\ Apps' = Apps /\ Object' = Object /\ jpc = "idle"
        /\ UNCHANGED <<setup, crVersion, available, recorded, sts, seen, run, up, happened,
                       lpc, o, failed, marked, jpc, job>>
        /\ spec' = [spec EXCEPT ![a] = @ + 1] /\ gen' = gen + 1 /\ ~setup.apply
    BY Zenon DEF Apps, Object, LoopInv, Rising, EditImage, pass, version,
         cluster
  <1>1. spec \in [Apps -> Nat] /\ gen \in Nat /\ "pxc" \in Apps /\ o \in Object
        /\ recorded.gen \in Nat /\ recorded.version \in Nat
    BY Zenon DEF LoopInv, LoopShape, Apps, StatusRecord
  <1>2. o.gen \in Nat /\ o.status.gen \in Nat /\ o.status.version \in Nat
        /\ o.spec \in [Apps -> Nat]
    BY Zenon, <1>1, ObjectFields
  <1>3. spec' \in [Apps -> Nat] /\ \A b \in Apps : spec[b] <= spec'[b]
    BY <1>0, <1>1
  <1>4. LoopShape'
    BY <1>0, <1>1, <1>3 DEF LoopInv, LoopShape
  <1>5. Rising'
    <2>1. \A b \in Apps : sts[b] <= spec[b] /\ (Inside => o.spec[b] <= spec[b])
      BY Zenon DEF LoopInv, Rising
    <2>2. \A b \in Apps : sts[b] \in Nat /\ spec[b] \in Nat /\ spec'[b] \in Nat /\ o.spec[b] \in Nat
      BY Zenon, <1>1, <1>2, <1>3 DEF LoopInv, LoopShape
    <2>3. \A b \in Apps : sts[b] <= spec'[b] /\ (Inside => o.spec[b] <= spec'[b])
      BY <1>3, <2>1, <2>2
    <2>4. Inside => o.gen <= gen' /\ o.gen # gen'
      BY <1>0, <1>1, <1>2 DEF LoopInv, Rising
    <2> QED BY Zenon, <1>0, <2>3, <2>4 DEF LoopInv, Rising, Inside
  <1>6. VersionKnown'
    <2>1. "lag" \notin happened => recorded.version <= spec["pxc"]
      BY Zenon DEF LoopInv, VersionKnown
    <2>2. spec["pxc"] \in Nat /\ spec'["pxc"] \in Nat /\ spec["pxc"] <= spec'["pxc"]
      BY Zenon, <1>1, <1>3
    <2> QED BY <1>0, <1>1, <2>1, <2>2 DEF LoopInv, VersionKnown, Inside
  <1>7. StatusTells'
    <2>1. recorded.gen <= gen /\ (Inside => o.status.gen <= o.gen /\ o.gen <= gen
                                             /\ recorded.gen <= o.gen)
      BY Zenon DEF LoopInv, Rising, StatusTells
    <2> QED BY <1>0, <1>1, <1>2, <2>1 DEF StatusTells, Rolled, Inside
  <1>8. EndsDeployed'
    BY Zenon, <1>0 DEF LoopInv, EndsDeployed
  <1> QED BY Zenon, <1>4, <1>5, <1>6, <1>7, <1>8 DEF LoopInv

\* Kubernetes follows the templates, and has nothing to do when all is rolled out.
LEMMA KubernetesKeeps ==
    ASSUME LoopInv, LockInv', NEW a \in Apps, Kubernetes(a) \/ PodFails(a)
    PROVE  LoopInv'
  <1>0. /\ Apps' = Apps /\ Object' = Object
        /\ UNCHANGED <<setup, spec, gen, crVersion, available, recorded, sts, happened,
                       lpc, o, failed, marked, jpc, job>>
    BY Zenon DEF Apps, Object, Kubernetes, Observe, Roll, PodUp, PodFails,
         store, pass, version
  <1>1. /\ seen \in [Apps -> Nat] /\ sts \in [Apps -> Nat] /\ run \in [Apps -> Nat]
        /\ up \in [Apps -> BOOLEAN]
    BY Zenon DEF LoopInv, LoopShape
  <1>2. \A b \in Apps : run[b] <= seen[b] /\ seen[b] <= sts[b]
    BY Zenon DEF LoopInv, Rising
  <1>3. /\ seen' \in [Apps -> Nat] /\ run' \in [Apps -> Nat] /\ up' \in [Apps -> BOOLEAN]
        /\ \A b \in Apps : run'[b] <= seen'[b] /\ seen'[b] <= sts[b]
        /\ \A b \in Apps : up'[b] => run'[b] # 0
        /\ run = seen /\ seen = sts => UNCHANGED <<seen, run>>
    <2>0. \A b \in Apps : up[b] => run[b] # 0
      BY Zenon DEF LoopInv, EndsDeployed
    <2>1. CASE Observe(a)
      BY <1>1, <1>2, <2>0, <2>1 DEF Observe
    <2>2. CASE Roll(a)
      BY <1>1, <1>2, <2>0, <2>2 DEF Roll
    <2>3. CASE PodUp(a)
      BY Zenon, <1>1, <1>2, <2>0, <2>3 DEF PodUp
    <2>4. CASE PodFails(a)
      BY Zenon, <1>1, <1>2, <2>0, <2>4 DEF PodFails
    <2> QED BY Zenon, <2>1, <2>2, <2>3, <2>4 DEF Kubernetes
  <1>4. LoopShape'
    BY Zenon, <1>0, <1>3 DEF LoopInv, LoopShape
  <1>5. Rising'
    BY Zenon, <1>0, <1>3 DEF LoopInv, Rising, Inside
  <1>6. VersionKnown'
    BY Zenon, <1>0 DEF LoopInv, VersionKnown, Inside
  <1>7. StatusTells'
    BY Zenon, <1>0, <1>3 DEF LoopInv, StatusTells, Rolled, Inside
  <1>8. EndsDeployed'
    BY Zenon, <1>0, <1>3 DEF LoopInv, EndsDeployed
  <1> QED BY Zenon, <1>4, <1>5, <1>6, <1>7, <1>8 DEF LoopInv

\* A pass that cannot read the object, a newer version on offer, the annotations
\* and a restart of the operator.
LEMMA OthersKeep ==
    ASSUME LoopInv, LockInv',
           \/ BeginFails \/ Offer \/ SetToken \/ IssueToken \/ ClaimsGrow
           \/ RestartOperator \/ UNCHANGED loopVars
    PROVE  LoopInv'
  <1>0. /\ Apps' = Apps /\ Object' = Object
        /\ UNCHANGED <<setup, spec, gen, crVersion, recorded, sts, seen, run, up, happened>>
        /\ \/ UNCHANGED <<lpc, o, failed, marked, jpc, job>>
           \/ lpc' = "idle" /\ o' = NoObject /\ jpc' = "idle" /\ job' = NoObject
    BY Zenon DEF Apps, Object, BeginFails, Offer, SetToken, IssueToken, ClaimsGrow,
         RestartOperator,
         loopVars, store, cluster,
       pass, version
  <1>1. available \in Nat /\ available' \in Nat /\ available <= available'
    <2>1. available \in Nat
      BY Zenon DEF LoopInv, LoopShape
    <2> QED BY <2>1 DEF BeginFails, Offer, SetToken, IssueToken, ClaimsGrow,
         RestartOperator, loopVars, store
  <1>2. o' \in Object /\ job' \in Object
    BY Zenon, <1>0, NoneIsAnObject DEF LoopInv, LoopShape
  <1>4. LoopShape'
    BY Zenon, <1>0, <1>1, <1>2 DEF LoopInv, LoopShape
  <1>5. Rising'
    <2>1. \A a \in Apps : spec[a] \in Nat
      BY Zenon DEF LoopInv, LoopShape
    <2>2. setup.apply => \A a \in Apps : spec[a] <= available'
      BY <1>1, <2>1 DEF LoopInv, Rising
    <2> QED BY Zenon, <1>0, <2>2 DEF LoopInv, Rising, Inside, Deployed
  <1>6. VersionKnown'
    BY Zenon, <1>0 DEF LoopInv, VersionKnown, Inside
  <1>7. StatusTells'
    BY Zenon, <1>0 DEF LoopInv, StatusTells, Rolled, Inside
  <1>8. EndsDeployed'
    BY Zenon, <1>0 DEF LoopInv, EndsDeployed
  <1> QED BY Zenon, <1>4, <1>5, <1>6, <1>7, <1>8 DEF LoopInv

\* What has happened is never forgotten.
LEMMA HappenedStays ==
    ASSUME [LoopNext]_loopVars
    PROVE  happened \subseteq happened'
  <1>1. CASE Pass
    BY Zenon, <1>1 DEF Pass, Begin, BeginFails, setCRVersion, CheckFails, WaitForToken,
       CheckNSetDefaults, reconcileUsers, reconcileVolumes, reconcileBackups, Pure,
       Abandon, ensurePXCVersion, NoteImages, deploy, updatePXC, updateProxy,
       fetchVersionFromPXC, NoteLag, scheduleEnsurePXCVersion, updateStatus
  <1>2. CASE Job
    BY Zenon, <1>2 DEF Job, JobBegin, JobPatch, JobStatus
  <1>3. CASE Offer \/ SetToken \/ IssueToken \/ ClaimsGrow \/ RestartOperator
             \/ UNCHANGED loopVars
    BY Zenon, <1>3 DEF Offer, SetToken, IssueToken, ClaimsGrow, RestartOperator,
       loopVars
  <1>4. ASSUME NEW a \in Apps, EditImage(a) \/ Kubernetes(a) \/ PodFails(a)
        PROVE  happened \subseteq happened'
    BY Zenon, <1>4 DEF EditImage, Kubernetes, Observe, Roll, PodUp, PodFails
  <1> QED BY Zenon, <1>1, <1>2, <1>3, <1>4 DEF LoopNext

\* What the steps keep: the locks always, the rest while nothing of that happened.
CleanInv == LockInv /\ (Clean => LoopInv)

\* Every step keeps it, and stores no older version than before.
LEMMA LoopInvNext ==
    ASSUME CleanInv, [LoopNext]_loopVars
    PROVE  CleanInv' /\ VersionStep
  <1>l. LockInv'
    BY Zenon, LockInvNext DEF CleanInv
  <1>c. happened' \subseteq {"token"} => Clean'
    BY Zenon DEF Clean
  <1> SUFFICES ASSUME Clean' PROVE LoopInv' /\ VersionStep
    BY Zenon, <1>l, <1>c DEF CleanInv, VersionStep
  <1>d. LoopInv
    BY Zenon, HappenedStays DEF CleanInv, Clean
  <1>a. recorded.version \in Nat
    BY Zenon, <1>d DEF LoopInv, LoopShape, StatusRecord
  <1>1. CASE Begin \/ setCRVersion
    <2>1. LoopInv'
      BY Zenon, <1>l, <1>d, <1>1, BeginKeeps, CRVersionKeeps
    <2>2. recorded' = recorded
      BY Zenon, <1>1 DEF Begin, setCRVersion, Abandon, store
    <2> QED BY <1>a, <2>1, <2>2 DEF VersionStep
  <1>2. CASE \/ CheckFails \/ WaitForToken \/ CheckNSetDefaults \/ reconcileUsers \/ reconcileVolumes
             \/ reconcileBackups \/ scheduleEnsurePXCVersion
    <2>1. LoopInv'
      BY Zenon, <1>l, <1>d, <1>2, PureKeeps
    <2>2. recorded' = recorded
      BY Zenon, <1>2 DEF CheckFails, ResizeStarts, ResizeEnds, WaitForToken, CheckNSetDefaults, reconcileUsers,
           reconcileVolumes,
         reconcileBackups, scheduleEnsurePXCVersion, Pure, Abandon, store
    <2> QED BY <1>a, <2>1, <2>2 DEF VersionStep
  <1>3. CASE deploy \/ updatePXC \/ updateProxy
    <2>1. LoopInv'
      BY Zenon, <1>l, <1>d, <1>3, DeployKeeps, UpdatesKeep
    <2>2. recorded' = recorded
      BY Zenon, <1>3 DEF deploy, updatePXC, updateProxy, Abandon, store
    <2> QED BY <1>a, <2>1, <2>2 DEF VersionStep
  <1>4. CASE ensurePXCVersion \/ fetchVersionFromPXC \/ updateStatus
    BY Zenon, <1>l, <1>d, <1>4, EnsureKeeps, FetchKeeps, StatusKeeps DEF VersionStep
  <1>5. CASE Job
    BY Zenon, <1>l, <1>d, <1>5, VersionJobKeeps DEF VersionStep
  <1>6. CASE \/ BeginFails \/ Offer \/ SetToken \/ IssueToken \/ ClaimsGrow
             \/ RestartOperator \/ UNCHANGED loopVars
    <2>1. LoopInv'
      BY Zenon, <1>l, <1>d, <1>6, OthersKeep
    <2>2. recorded' = recorded
      BY Zenon, <1>6 DEF BeginFails, Offer, SetToken, IssueToken, ClaimsGrow,
           RestartOperator, loopVars, store
    <2> QED BY <1>a, <2>1, <2>2 DEF VersionStep
  <1>7. ASSUME NEW a \in Apps, EditImage(a) \/ Kubernetes(a) \/ PodFails(a)
        PROVE  LoopInv' /\ VersionStep
    <2>1. LoopInv'
      BY Zenon, <1>l, <1>d, <1>7, EditKeeps, KubernetesKeeps
    <2>2. recorded' = recorded
      BY Zenon, <1>7 DEF EditImage, Kubernetes, Observe, Roll, PodUp, PodFails,
           store
    <2> QED BY <1>a, <2>1, <2>2 DEF VersionStep
  <1> QED BY Zenon, <1>1, <1>2, <1>3, <1>4, <1>5, <1>6, <1>7 DEF LoopNext, Pass

\* Whatever the versions, edits, failed calls and restarts, the version in the
\* status never goes back (ensurePXCVersion, fetchVersionFromPXC and updateStatus
\* store the whole status from copies, under statusMutex), but for a fetch while
\* the StatefulSet is behind, and for images that ensurePXCVersion emptied or
\* could not store.
THEOREM VersionsRise == LoopSpec => VersionNeverGoesBack
  <1>1. CleanInv /\ [LoopNext]_loopVars => [VersionStep]_loopVars
    BY Zenon, LoopInvNext
  <1>2. CleanInv /\ [LoopNext]_loopVars => CleanInv'
    BY Zenon, LoopInvNext
  <1>3. LoopInit => CleanInv
    BY Zenon, LoopStart DEF CleanInv, LoopInv
  <1> QED BY <1>1, <1>2, <1>3, PTL DEF LoopSpec, VersionNeverGoesBack

\* A status "ready" of the current generation tells the truth: every application
\* runs the image of the spec (updateStatus, appStatus), but for the deviations.
THEOREM ReadyTellsTheTruth == LoopSpec => []ReadyIsCurrent
  <1>1. CleanInv => ReadyIsCurrent
    BY Zenon DEF CleanInv, Clean, LoopInv, StatusTells, Rolled, VersionKnown,
       ReadyIsCurrent
  <1>2. CleanInv /\ [LoopNext]_loopVars => CleanInv'
    BY Zenon, LoopInvNext
  <1>3. LoopInit => CleanInv
    BY Zenon, LoopStart DEF CleanInv, LoopInv
  <1> QED BY <1>1, <1>2, <1>3, PTL DEF LoopSpec
=============================================================================
