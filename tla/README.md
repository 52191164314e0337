# Percona XtraDB Cluster operator: verification project

TLA+ specifications of the Kubernetes operator for Percona XtraDB Cluster, kept
beside its Go source under `src/`. Every definition is translated from the code;
`PROJECT.json` gives, under `map`, the lines each one stands for.

Contents: [the system](#the-system), [conventions](#conventions-of-the-modules),
[modules](#modules), [runs](#runs), [fairness](#fairness), [proofs](#proofs), [only
model-checked](#only-model-checked), [deviations](#where-the-code-does-something-else),
[what is not modelled](#what-is-not-modelled), [open ends](#open-ends).

## The system

The operator is one process (leader election makes it one) with three reconcilers
and some background jobs, all working against the Kubernetes API server.
Reconciles of one object never overlap; those of different objects do, as do the
finalizer goroutines, the cron jobs and the programs in other pods.

| part | source | module | what makes it hard |
|---|---|---|---|
| backup controller | `pkg/controller/pxcbackup`, `pkg/k8s/lease.go` | `BackupController`, `BackupQueue`, `BackupRefinement` | several backups, crashes between writes, check-then-delete of the lease |
| restore controller | `pkg/controller/pxcrestore`, `pkg/k8s/cluster.go` | `RestoreController` | several restores of one cluster, steps repeated after a crash |
| smart update | `pkg/controller/pxc/upgrade.go` | `SmartUpdate` | failover, timeouts, backups at the same time |
| main loop, status, version jobs | `controller.go`, `status.go`, `version.go` | `MainLoop` | a lock and a flag across goroutines, whole statuses stored from copies |
| deletion, finalizers | `controller.go` | `ClusterDeletion` | work cut anywhere and judged by the error of the step before |
| volume expansion | `volumes.go` | `VolumeExpansion` | four separate writes, user edits, partial failure |
| system users | `users.go`, `users_without_dp.go`, `secrets.go` | `SystemUsers` | a rotation repeated half done over five places |
| custom users | `users_custom.go` | `CustomUsers` | statement by statement, remembered by a hash |
| full crash recovery | `full_crash_recovery.go` | `CrashRecovery` | only the most advanced pod may go on |
| TLS | `tls.go`, `controller.go` | `TLSToggle` | the cluster must stop in between |
| cross-site replication | `replication.go`, `pkg/pxc/queries` | `Replication` | a moving primary, a label, servers that keep their state |
| Services | `controller.go`, `replication.go` | `ExposedServices` | others write to the same object |
| configuration | `config.go`, `upgrade.go` | `Configuration` | a pod reads what is there when it starts |
| defaults, validation, webhook | `pkg/apis/pxc/v1`, `pkg/webhook` | `Defaults` | the same resource judged anew by each version |
| schedules, retention, collector's Deployment | `backup.go`, `pitr.go` | `ScheduledBackups` | a registered job goes on with what it was given |
| xtrabackup sidecar, run-backup | `pkg/xtrabackup/server`, `cmd/xtrabackup` | `Sidecar` | a request of a lost pod runs on |
| binlog collector | `cmd/pitr/collector` | `BinlogCollector` | moving between nodes, crashes, purged logs |
| binlog recoverer | `cmd/pitr/recoverer` | `Recoverer` | where to start and stop, gaps, retries |
| peer-list, state monitor | `cmd/peer-list`, `cmd/mysql-state-monitor` | `PeerList`, `StateMonitor` | updates ignored, writes into a truncated file |

They interact through a few objects. A restore pauses the cluster and changes its
size, which the cluster controller carries out (both are in `RestoreController`). A
backup starts only when the status of the cluster allows it (`CanBackup`), is
suspended when that status is lost, and holds up a smart update while it runs (the
status is an input of `BackupController`, backups are abstract in `SmartUpdate`). A
successful backup removes the collector's reports, and the operator marks backups by
them (both in `BinlogCollector`).

## Conventions of the modules

* A reconcile is split where it writes to the API server, or where what it has
  read can be outdated at the next write. `pc` (`lpc`, `dpc`, ...) names the call it
  makes next; what it holds in memory is a variable of its own (`mem`, `view`, `o`,
  `cr`, `rp`), because the code often decides by the copy in memory.
* `Events` names the kinds of fault and outside event a run lets happen; guards
  test it. Every constant `Max...` is a bound: how often something happens that the
  program does not control, or the largest value of a counter.
* A call that fails without effect, and one that fails after its effect, are the two
  ways to end a pass before or after a step.
* Reads are of the present state. The client of controller-runtime reads from a
  cache that may lag behind; that lag is not modelled.
* Names, images, wording and log lines are left out. A version, a configuration, a
  password is a number or one of a few words, and its hash is itself; a transaction
  is its number.
* History variables (`happened`, `strange`, `unusual`, `spoiled`, `cutIn`, `acked`,
  `rejoined` among what has happened, ...) record what a property makes an exception
  for. No action reads them but to record.
* A definition whose comment begins "A mutant" is a wrong variant of the one after
  it, used to see that a property notices the difference. No specification uses it.
* Each module has one type invariant (`TypeOK`, `LoopTypeOK`, ...). Those of the
  modules with proofs are part of the inductive invariants or proved on their own;
  the others hold on the instances of the runs.

## Modules

**Backups.** `BackupController` has `Reconcile` step by step (`Get` to
`ReleaseLeaseDelete`), the finalizer goroutines (`Workers` of them at most, `chLimit`
in the code), and as environment users, time, the Job controller, the garbage
collector, loss of readiness and crashes. `state` is the recorded status, `mem` the
one in memory; `job` the phase, finalizer and suspension of each Job; `lease` the
holder; `view` what a reconcile has read of the cluster; `purged` the backups on volumes
(`OnVolume`) whose claim a finalizer has deleted. `BackupQueue` says what
`allowParallel: false` promises: a backup runs and succeeds only in its turn, and the
turn passes on when it has ended or was withdrawn. `BackupRefinement` maps the lease
to the turn and the recorded states to the phases.

**Restores.** `RestoreController` has the state machine from New and Starting over
StopCluster, Restore, PITR, PrepareCluster and StartCluster to Succeeded or Failed,
with every write to the cluster and its Jobs; the status is written by the deferred
`setStatus`. Beside it the cluster controller (`ControllerReads`,
`ControllerApplies`, `ControllerObserves`) applies sizes in steps, so that it may act
on a spec read before. All kinds of storage are one.

**Upgrades.** `SmartUpdate` has `updatePod`, `smartUpdate` and `applyNWait` with its
three waits, the status, and backups admitted by that status. `OnePodDown` speaks of
behaviours in which no reconcile was cut short (`failures = 0`). `MainLoop` has a pass
of `Reconcile` from the lock to the deferred `updateStatus` with every early return
(`lpc`, `o`), the version job (`jpc`) under the same `statusMutex` with `updateSync`,
and the StatefulSets and pods that Kubernetes moves on in between. A resize of the
volumes is its annotation there (`resize`, and `marked` for the copy of the pass),
because it keeps `updatePod` from working; telemetry with a version service of one's own
empties the images (`Mute`). The steps that other modules model only succeed or fail in
it.

**Deletion.** `ClusterDeletion` has the branch for a deleted cluster: `Finalize` does
the work of the next finalizer, possibly cut after some of its calls; `err` is one
variable of the whole pass, so a finalizer the switch does not know is judged by what
the one before left in it. A pass gets there only when the spec is valid (`valid`);
`unread` are the certificates whose read failed in `deleteCerts`, which passes over them.

**Volumes.** `VolumeExpansion` has `reconcilePersistentVolumes` split at its writes
(annotation, each claim, deletion of the StatefulSet, removal of the annotation,
revert) and what `updatePod` then does. The lists of claims, pods and events and the
StatefulSet are read in one step. Sizes are in half gibibytes in the run, so that the
rounding up matters.

**Users.** `SystemUsers` visits the users in their order; the handler of each decides,
from the two secrets and from what MySQL says, which calls to make, and they are made
one by one: MySQL's current and retained password, ProxySQL's pods, the init file, the
internal secret, the restarts. Every MySQL call logs in as `operator` with the
password of the internal secret. `CustomUsers` has the pass over `spec.users`.

**Cluster.** `CrashRecovery`: nodes with their sequence numbers, the banner a waiting
node prints, the scan of the logs pod by pod, the 30 seconds of sleep, the signal.
`TLSToggle`: the condition in the status, the pause of the operator's own, the two
secrets made by cert-manager or by the operator. `Replication`: one channel, the label
of the replicating pod, the sources, the threads of each server, the error an SQL thread
leaves behind. `ExposedServices`: `createOrUpdateService` with its merge of annotations
in the map the custom resource shares, which the two headless Services fill before those
of the pods, and with what the API server refuses. `Configuration`: which hash reaches
the template, which volume a pod reads. `Defaults`: `Validate` and `CheckNSetDefaults`
with the order of the defaults and the pointers they follow, and the webhook.

**Beside the controller.** `ScheduledBackups`: the cron registry, both forms of
retention, the deletion of a backup from the mark (`Mark`, by a pass or by hand) to its
finalizers (`Finalize`), the collector's Deployment and Service, all of it with and
without `spec.backup` (`given`). `Sidecar`: `CreateBackup` with its
flag and three commands, `GetLogs`, and the client of the Job's pod, several attempts
of several Jobs. `BinlogCollector`: `Run` on nodes that cut their logs differently,
the cache, gap and timeline files, and the operator's side; a hole before the first
upload cannot be noticed and is none in `NoSilentGap`. `Recoverer`: the choice of
logs for the four recovery types, from the newest to the oldest, and the replay,
compared with a reference (`Expected`); the logs in the store come from several hosts, so
they overlap and one may contain another. `PeerList`: the polling loop and the 30
seconds in which updates are ignored. `StateMonitor`: the notifications, and the file
that is truncated without being rewound.

**Hubs.** Components that do not share state are checked in one run by a module that
starts as any one of its parts and stays with it, the state space being the sum of
theirs: `MCSmartUpdate` (the update and the loop), `MCCluster` and `MCServices`. A part
with theorems is EXTENDed, so that the run and the theorem speak of the same
definition; the others are INSTANCEs. A behaviour of `RestoreController` chooses the
kinds of its events (`events`) once, from `EventSets`: in the run `Faults` (crashes,
failing calls and status writes, a wait that is over) or `Turns` (restores that overlap,
invalid ones, a Job that cannot be created).

## Runs

| run | cfg | what it asks | bounds |
|---|---|---|---|
| `backup_lease` | `BackupLease` | the lease always has an owner who can give it back; Jobs one at a time; the queue is implemented | 2 backups, 1 worker, 5 kinds of event, 2 disturbances |
| `backup_results` | `BackupResults` | results are final, a Job stays until its result is recorded | 2 backups, both deadlines, 7 kinds of event, 1 disturbance |
| `backup_progress` | `BackupProgress` | every backup ends, every deletion completes | 2 backups with `delete-backup`, one of them on a volume, deletions, suspended deadline, 1 disturbance (a failing finalizer, a loss of readiness) |
| `backup_next_job` | `BackupNextJob` | a finding, see below | 2 backups, 1 failing read |
| `restore` | `Restore` | data is touched only when the cluster is down, one restore at a time, success means what it says, each ends | 2 restores, one with PITR, 2 pods, 1 proxy |
| `update` | `Update` | one pod down, the primary last, completeness; status and version jobs | 3 pods, 2 revisions, 1 failure; 2 versions and 1 each of edits, calls, crashes, flaps, faults |
| `volumes` | `Volumes` | the StatefulSet goes only when the claims have grown; resizes end | 2 pods, 2 half gibibytes each, 6 kinds of event, 2 of them, 2 edits |
| `volumes_leftover` | `VolumesLeftover` | a finding, see below | 1 claim left over |
| `binlog_hosts` | `BinlogHosts` | no gap goes unnoticed across nodes, crashes and purges | 2 nodes, 3 transactions |
| `users` | `Users` | the operator, the pods and a starting node are always let in; a rotation ends | 9 configurations, 4 passwords, 2 edits, 2 cut passes, 2 proxy pods |
| `cluster` | `Cluster` | 7 parts: crash, TLS, replication, deletion, Services, configuration, defaults | 3 pods (2 for TLS and replication), 1 to 3 changes, 1 slip each |
| `services` | `Services` | 7 parts: schedules, sidecar, custom users, recoverer, collector, peers, monitor | 3 scheduled backups, 2 Jobs, 2 users, 4 transactions, 2 peers, 1 to 3 changes and mishaps |

`PROJECT.json` lists the properties of each run and the wrong variant each of them
notices; the comment before a property says what it means. Deep ones to begin with:
`ImplementsBackupQueue`, `QuietData`, `NoSilentGap`, `OperatorConnects`, `NothingLost`,
`NeverMixed`, `SucceededIsWhole`, `RecoversExactly`.

Why these bounds. Two backups or restores are enough for one to act between two steps of
another; the properties compare two. The disturbances allowed in one run cover the pairs
that the code treats separately (a crash before and a failure after a write). Three pods
give a replica done, one in the middle and the primary, and after a full crash one most
advanced pod, one behind and one that rejoins; two revisions give a change in the middle
of an update. Three transactions are the least with one between two others; with a
fourth a recovery may stop before the end. Of three logs in the store the first begins
with the first transaction and only the middle one may lack its gtid-set object
(`FewStorages`). Two edits let a change be taken back or overtaken. Two claims give a
partial success. Symmetry is used only in runs without liveness properties. Deadlock is
not checked in the backup and restore runs, where everything may be over, nor in
`cluster` and `services`, some parts of which end (a deleted cluster, a finished Job);
it is in all others.

Larger instances were explored once, all without an error: the users with 3 edits (3.1M
states), volumes with 3 disturbances and 3 edits (7.4M) and with 3 pods (4.1M), the
smart update with 3 revisions and 2 failures (8.4M), parts of the hubs with their bounds
raised (defaults 6.5M, configuration 3.9M, TLS 2.2M, crash 1.6M, sidecar 0.8M, custom
users 0.7M, monitor 0.2M, peers 0.16M), and for safety alone replication with 3 pods and
2 moves (15M), schedules with 4 backups and 2 mishaps (7.6M), MainLoop with 3 versions
and 2 faults (6.6M), deletion with 2 cuts (0.5M).

Two runs show a disagreement with what the repository itself says:

* `backup_next_job`: a failing call in `createBackupJob`, through which every
  reconcile of a running backup goes, fails the backup and gives the lease away while
  its Job runs; the next Job starts beside it (`controller.go:294`, against
  `e2e-tests/demand-backup/run:115-117`).
* `volumes_leftover`: the smallest claim decides whether to resize, also when it was
  left behind by a larger cluster and is never resized; the StatefulSet is then
  deleted again and again (`volumes.go:101`, against the comment at 99-100).

## Fairness

* Weak fairness of a reconcile: each handler requeues itself or returns an error, and
  controller-runtime calls it again; the steps of one pass follow each other. The same
  for cron jobs and for `Run` of the collector, which is started again when it exits.
* The finalizer goroutine, once started, runs to its end.
* The version job gets the lock (strong fairness of `JobBegin`): a Go mutex hands
  itself to a waiter that has waited long enough.
* In the smart update a wait has a limit (`retry`), so `WaitLimit` is fair, and the
  proxy is not unready in every reconcile (strong fairness of getting past that check).
* Jobs start and end, pods stop and start, a resizer ends, cert-manager issues, the
  garbage collector collects, a vault token appears, a cluster becomes ready again:
  promises of Kubernetes and Galera that the operator waits for without a limit of its
  own.
* Nothing is assumed of users, faults and crashes; they are bounded instead. The peer
  list, the state monitor and the defaults have no liveness property and no fairness.

## Proofs

TLAPS checks these for every value of the constants, from the named assumptions below.

| theorem | establishes | inductive invariant |
|---|---|---|
| `BackupProofs!TypeCorrect`, `LeaseAccountable`, `HolderReleases` | `TypeOK`, `LeaseHolderAccountable`, `OnlyHolderReleases` | `LeaseInv` |
| `BackupProofs!ResultsAreFinal`, `JobsOutliveTheirResults` | `ResultIsFinal`, `JobOutlivesItsResult` | `ResultInv` |
| `BackupProofs!JobsApartFromEachOther` | `JobsDoNotOverlap`, given `Steady` | `ExclInv` |
| `BackupProofs!RunsBackupsInTurn` | `ImplementsBackupQueue`, given `Undisturbed` | `TurnInv` |
| `RestoreProofs!RestoreTypeCorrect`, `OneAtATime` | `TypeOK`, `OneRestoreWorks` | `ClaimInv` |
| `RestoreProofs!DataIsQuiet` | `QuietData` | `GeneralInv`, `CalmInv` |
| `RestoreProofs!SuccessAsPromised` | `SucceedsAsPromised`, given `Size > 1` or `ProxySize > 0` | `GeneralInv`, `CalmInv` |
| `RetentionProofs!PrunesByThePlan` | `RetentionKeepsToThePlan` | `RetentionInv` |
| `MainLoopProofs!JobsApart` | `VersionJobsApart` | `LockInv` |
| `MainLoopProofs!VersionsRise`, `ReadyTellsTheTruth` | `VersionNeverGoesBack`, `ReadyIsCurrent` | `LoopInv` |
| `ClusterProofs!OneDownAtATime`, `PrimaryComesLast` | `OnePodDown`, `PrimaryLast` | `UpdateInv` |
| `ClusterProofs!OneComponent`, `RecoveryLosesNothing` | `NoSplitBrain`, `NothingLost` | `CrashInv` |
| `ClusterProofs!TLSNeverMixed` | `NeverMixed` | `ToggleInv` |
| `DeletionProofs!ReplicaIsAlone` | `OneReplica` | `ReplicaInv` |
| `DeletionProofs!FinalizersAreTrue` | `FinalizersKeepTheirWord` | `DeletionInv` |
| `DeletionProofs!ResizedBeforeDeletion` | `DeletedWhenResized`, given `Leftovers = 0` | `ExpansionInv` |
| `SystemUsersProofs!LoginNeverLost`, `MountsStayValid`, `StartingNodeAccepts` | `OperatorConnects`, `MountedPasswordAccepted`, `NodeStartAccepts` | `UsersInv` |
| `PodProofs!BackupsAreWhole` | `SucceededIsWhole` | `SidecarInv` |
| `PodProofs!ScriptsGetThePeers` | `PeersReachTheScript` | `PeersInv` |
| `PodProofs!ProbeIsTold` | `ProbeReadsLastState` | `MonitorInv` |

Each invariant was model-checked before it was proved (`ExclInv` on 26M states,
`TurnInv` 17M, `ReplicaInv` 15M, `RetentionInv` 7.6M, `LoopInv` 6.6M, `CrashInv` 2.6M).

*Assumptions.* `BackupAssumption`, `RestoreAssumption`: finite sets, sizes that are
natural numbers, known kinds of event. `SmartUpdateAssumption`, `ExpansionAssumption`,
`UsersAssumption`: the types of the constants, at least one pod, no password that is the
mark of none. `RecoveryBounds`, `SomePod`, `DeletionBounds`, `PeerListBounds`,
`ScheduleBounds`, `SidecarBounds`: the types of the constants. The main loop, TLS and
the state monitor need none. Three theorems leave out events under which the property
really fails: `Leftovers = 0` says that no claim of a larger cluster is left behind,
which would be counted among the resized ones (`volumes_leftover` shows it at work);
`Steady` has no deadline, no edit of `allowParallel` and no failing read in
`createBackupJob` (each lets a Job run on after its backup has failed); `Undisturbed` is
`Steady` without failing status writes and side effects of a success.
`SuccessAsPromised` asks for more than one node or a proxy, because a cluster of one
node alone really keeps an unsafe flag of the recovery (below, *Restores*; with `Size =
1` and `ProxySize = 0` TLC shows it).

*The lease.* That the holder has the finalizer is not inductive: a reconcile takes the
lease many steps after it has read its finalizers, and the goroutine writes back a
copy. `LeaseInv` adds that only existing objects have finalizers, that a reconcile on
its way to the lease has secured the finalizer, that the goroutine's copy is the
present set and no reconcile of the same backup gets past the deletion check
meanwhile, and that whoever is about to delete the lease still holds it. The last
conjunct gives `HolderReleases`. Steps that touch only the backup's own `pc` and memory
are covered by one frame lemma.

*Exclusion and turns.* The state that decides is spread over the Job, the recorded and
the remembered status. `ExclInv` says of each backup that its memory agrees with the
record until it writes (`InMemory`), that the Job of an active backup exists and is kept
(`Guarded`), that who has an unfinished Job or is about to create one holds the lease
(`Holds`), and that who is going to release it has none (`Releases`). `TurnInv` adds what
is recorded while the lease is taken and given back, so that every step is a step of
`BackupQueue` or a stutter.

*Results.* A result is recorded at the end of a reconcile that began many steps before.
`ResultInv` says of each backup that a reconcile which still may write the result has
found none, that one which removes the keep-job finalizer has recorded it, and that until
then the Job has the finalizer. It needs neither `Steady` nor `Undisturbed`.

*Restores.* `OneRestoreWorks` is about recorded states, but a restore that has passed the
check of the others records nothing until its reconcile ends. `ClaimInv` gives such a
restore a claim, shows that a claim implies being in progress for the others, and that
two claims are one.

`QuietData` and `SucceedsAsPromised` relate the Jobs of a restore to pods that a second
reconciler starts and stops, by specifications it has read before. `GeneralInv` holds in
every behaviour. It says which writes the memory of a reconcile can lead to (`MemInv`);
what the cluster's reconciler has applied, and what a status of the current generation
tells (`CtlInv`); that a specification which a restore has read is still the current one
where it relies on it (`ViewInv`); that there are only two sizes of cluster, the original
and that of a recovery, of which a restore saves the second only from a cluster that has it
(`ShapeInv`); and that a recovery Job runs in a cluster of one node which nobody is about
to change (`AloneInv`). `CalmInv` is about behaviours in which no Job outlives its restore
(`JobsMayOutlive`): the state of a restore says which of its Jobs are complete (`JobsInv`),
a cluster paused and without pods stays so although a pass of its reconciler may be under
way (`PauseInv`), it is that from the end of the wait for the pods to the end of the Job
(`StopInv`), and the data is what the Jobs have made of it (`DataInv`). Steps that
touch only one restore's `pc`, memory and view are covered by frame lemmas.

*Retention.* A cron job prunes by the plan it was registered with. `RetentionInv` ties
that plan to the one the last pass saw, as far as `shouldRecreateBackupJob` compares
them (`CronFollows`). A deleted backup has kept its data or not as its finalizer says,
and the finalizer says what the plan said (`Sound`). After every backup marked by a pass
as many younger ones stay as the smallest count a pass has pruned by (`EnoughStay`, with
the history variable `least`), as long as none is deleted by hand; the lemmas
`NewestAreEnough` and `LaterAreNewer` are about one pass, which counts what it lists,
the backups already being deleted included.

*Main loop.* `LockInv`: a registered job that finds `updateSync` done between two passes
has a pass behind it. `LoopInv` orders the versions (what runs, what the StatefulSets'
status says, the templates, the copy of the pass, the spec: `Rising`), and says of every
copy of the status, stored or held by a pass or job, that its version was deployed
(`VersionKnown`) and that a "ready" of the current generation is of what was rolled out
(`StatusTells`).

*Cluster.* The smart update: every pod of the list but the primary is still to come or
has been updated, and what is waited for is the pod that comes next (`OrderInv`);
undisturbed, no other pod is down (`AloneInv`). The list is the set `todo` of pods still
to come, of which the next is the one with the largest name, the primary last of all
(`IsNext`), which is the order `smartUpdate` sorts them in. After a full crash: the
banner of a waiting node tells its last transaction (`BannerIsTrue`), the pods already
read stand still and `best` is the largest number of them (`ScanKnows`), and a scan that
goes on after a component has come up will meet a node that ends it (`ScanWillEnd`).
TLS: a pass that is not about to stop the cluster finds the pods in the mode of its
object (`PassAgrees`), and past the check for pods none runs (`StoppedInBetween`).
Replication: before a pass has stopped the others, every pod that replicates is among
those it saw with the label; afterwards none but the primary does (`PassKnows`).
Deletion: the work is done of the finalizers that are gone and of those the pass is
about to take away (`WorkIsDone`), and a StatefulSet goes with its claims
(`SetsGoWhole`). Volumes: a reconcile on its way to the deletion of the StatefulSet has
counted as many resized claims as there are pods, which without leftovers are those of
the pods, and claims only grow (`ExpansionInv`).

*Users.* The password of a user is in five places that a rotation changes one by one, and a
pass may be cut between any two of them. `UsersInv` says in which order the remaining
calls of a handler stand (`CallsFit`), so that "MySQL has been told and the internal secret
not" (`Mid`) is known from the next call alone; how far MySQL is ahead of the internal
secret by the number of passes cut there (`LoginKept`); that without a cut MySQL, the init
file and ProxySQL hold the password of the internal secret or retain it (`Retained`,
`Admitted`); and that a pod which mounts an older password mounts the retained one, which
is discarded only after the mounts have been looked at (`Mounted`). Most steps end the
pass or move it on without touching any of this (`Ends`, `Moves`), and two lemmas cover
them; the others have a lemma each.

*In the pods.* `SidecarInv`: one request holds the flag (`Exclusive`), where it is says
what its commands have done (`Stage`), and after a good answer to the current attempt
the destination holds its whole backup and no other request of the Job works (`Kept`).
`PeersInv`: while the records stay the same without having been handed over, the time
since the last change runs with them. `MonitorInv`: what is still to be read ends with
the last notification, and the file holds at most one word.

## Only model-checked

* All liveness properties: fairness and ENABLED are outside the prover's reach. Mixed
  ones (`ClusterConverges`, `ServicesConverge`, `LoopSettles`) say of each part that what
  it works towards comes about once the disturbances have ended.
* `NoSilentGap`: a state machine of many steps for which no inductive invariant is written
  yet.
* `RecoversExactly`, `CollectedAsSaid`, `NotesKept`, `AppliedIsSound`: they compare the code
  with a reference over small inputs, by recursion or by enumeration of configurations.
* The type invariants of the modules without theorems.

## Where the code does something else

Behaviours met while modelling that keep a stronger property from holding. The runs
leave the event in question out, or the property says so.

Backups
* A crash or failed release after the result was written leaves the lease with a
  finished backup, which returns early ever after: others wait until it is deleted.
  Editing `allowParallel` while the lease is held does the same.
* A side effect of a success that fails releases the lease by the state in memory
  while Running is recorded (`controller.go:748`).
* The Job of a backup deleted before its result keeps its keep-job finalizer for
  good, although the comment at `controller.go:129` expects it to be collected.
* A backup on a volume whose claim has been deleted, but not the finalizer (the write
  failed, or the operator stopped in between), keeps `delete-backup` for ever: a claim that
  is not found is an error (`controller.go:1019`). Its retries take a finalizer worker each
  time, so that others may find none free; `DeletionCompletes` says so.
* Without `spec.backup` in the cluster an unfinished backup cannot go on: the reconcile
  follows the nil pointer (`controller.go:165`).
* The running deadline counts from the Job's creation also after a suspension
  (`deadline.go:95`). A starting deadline after a crash between the creation of the
  Job and the first status write leaves the Job running.

Restores
* A restore that already works fails itself when it sees that another was created,
  while its Job runs on and the next restore may start (`controller.go:129`); the
  properties about data are therefore about behaviours without such events
  (`JobsMayOutlive`).
* A cluster of one node without a proxy keeps the unsafe flag for the proxy's size that a
  point-in-time recovery has set: `reconcileStateStartCluster` compares pause and sizes,
  which are the saved ones, and not the flags, and does not write (`controller.go:198`).
* `CompletedAt` is never set: `setStatus` tests the state recorded before instead of
  the one it writes, and a succeeded restore returns early (`util.go:58`).

Smart update, main loop
* After a crash, an error or a wait that reached its limit, the next reconcile does
  not wait for the pod that is down before it deletes another one. Backups are looked
  for once, before the first pod (`upgrade.go:238`).
* "ready" may be computed from a StatefulSet status older than its template, or while a
  vault token is awaited; a version fetched then is never fetched again.
* Errors of `setCRVersion`, `reconcileHAProxy` and `fetchVersionFromPXC` are shadowed. A
  custom version service with telemetry on returns empty versions, and empties the images
  and the recorded version (`vs.go`). When the Patch of `ensurePXCVersion` fails, the pass
  goes on with the new images in memory and deploys them.
* During a resize of the volumes the templates stay behind the spec; a version fetched then
  is that of the old image.

Deletion
* A finalizer the switch does not know is judged by the error of the one before.
* `delete-pxc-pvc` deletes the StatefulSet also while `delete-pxc-pods-in-order` waits, and
  a retry after the StatefulSet is gone leaves claims and secrets. The wait is
  over with one pod left (`controller.go:287-288`).
* A deleted cluster whose spec fails validation keeps its finalizers: the check
  comes before the branch for deletion (`controller.go:267`).
* `deleteCerts` takes every failing read for an object that is not there, returns nil, and
  the finalizer goes with the object still there.

Volumes
* Cut short between the deletion of the StatefulSet and the removal of the
  annotation, neither `reconcilePersistentVolumes` nor `updatePod` acts again.
* A size taken back or expansion switched off in the middle of a resize can leave the
  annotation for good. A change below the rounding is no resize, but the API server
  refuses the new template.
* After a partial failure, a size below that of the grown claims makes the operator
  ask for a smaller claim in every reconcile. A late success of a failed resize makes
  every reconcile end with an error.
* The revert patches the size without a precondition: an edit made since is lost.

Users
* Two passes in a row cut between ALTER USER and the patch of the internal secret (one,
  on 5.7), or one and a second edit, lock the operator out.
* A rotation of `proxyadmin` cut after a ProxySQL pod took the password is stuck, and its
  error ends every later reconcile.
* A password set back to the old one after a pass was cut past its ALTER is not applied
  again; a quick second edit of `monitor` drops a password that is still mounted.
* Restarts are forgotten when the pass fails later (the TODO at `controller.go:333-334`);
  keys added for PMM restart nothing.
* Custom users: a password changed while the account is missing fails every pass; a cut
  between CREATE USER and the global GRANT goes unnoticed; removed hosts and grants stay.

Full crash, TLS, replication
* A cluster scaled down during the crash ignores pods with newer data; a pod read early
  in a scan may rejoin and commit before its end; a restart in the 30 seconds of sleep.
* A TLS change taken back before the pods have stopped leaves the operator's own pause;
  one before the condition is recorded, or after it was pruned, rolls the pods mixed; a
  StatefulSet without pods counts as stopped; a change while the user has paused
  unpauses; the secrets, cut in between, are never completed (`tls.go:55`).
* A pod that is unready and still replicates is not seen; labels go with the channel
  while another pod replicates. `maxWeight` is never updated (`replication.go:417-418`).
* A replica whose SQL thread has failed is in error also when it has been stopped, and is
  not started again on that pod.

Services, configuration, defaults
* The Services of the pods share the annotation map of the resource, so an annotation of
  one leaks into the next (`replication.go:56-59`); an empty map forgets the old ones
  from the second Service on; an annotation taken out of the resource stays; a note
  written between the read and the write is lost. An old annotation comes back into the
  map through the two headless Services.
* A Service that was made without an address cannot become a LoadBalancer or NodePort: the
  API server refuses it, the pass fails there in every reconcile, and the Services after it
  are not written. The other way round the Service keeps its address.
* A pod that starts while configuration and hash differ keeps the wrong one when the
  change is taken back. A deleted secret of variables leaves its hash (`upgrade.go:147`). A
  user's own ConfigMap of that name is overwritten.
* A resource from before 1.15 whose size had been corrected is refused at the next
  crVersion. The scale subresource is not seen by the webhook.

Schedules, sidecar, pods
* Retention switched between its two forms does not register the job again; only
  registered jobs prune. A pass counts the backups that are being deleted among those it
  keeps: after a deletion by hand, or a raised count while one is being deleted, fewer than
  the count stay.
* Without `spec.backup` nothing looks at the binlog collector, which runs on.
* A failing `GetLogs` makes a successful backup a failed attempt that is deleted and
  made again. The FailedPrecondition branch (`cmd/xtrabackup/run-backup/main.go:51`) is
  never taken.
* A DNS error counts as an empty list: with `-on-start` alone the process ends without
  its script, with `-on-change` the list is handed over and updates are ignored for 30 s.
* A probe between truncation and write reads nothing; notifications sent before the
  monitor listens are lost.

Point-in-time recovery
* Two nodes that cut logs differently can look like a gap (`collector.go:602`).
* A dropped query error caches the empty set of a log, which is left out from then on
  (`collector.go:451`).
* A gap report is lost with the container (360), removed by a backup that ends later
  (`pxcbackup/controller.go:761`), and marks only the latest backup (`pitr.go:35`).
* The recoverer blocks when the mysql client dies in mid-stream (297-379), passes over a
  log without its gtid set, does not notice that no log reaches the backup, replays past a
  target that is in two overlapping logs, and stops its choice at the first log, from the
  newest, that has a transaction of the backup, although an overlapping older one may hold
  transactions of its own (456-463).

## What is not modelled

The construction of objects (`pkg/pxc/app`), generated clients, logging, the content of
certificates, the webhook's own set-up, defaults of probes, security contexts and images,
and the storage clients beyond a set of objects: no state or order of steps for a
property to be about. The cache of the client, the collector's HTTP handler that
invalidates its cache, and a change of the source UUID after a restore are left out.

## Open ends

Backups and the smart update composed through the status, in place of the abstract
backup inside `SmartUpdate`. A theorem for `NoSilentGap`.
