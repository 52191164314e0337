-------------------------- MODULE ScheduledBackups --------------------------
(***************************************************************************)
(* Scheduled backups, their retention and the binlog collector:            *)
(* reconcileBackups (pkg/controller/pxc/backup.go, pitr.go), a step of the *)
(* pass of the cluster controller, and the cron jobs it registers, which   *)
(* run on their own and create backup objects.                             *)
(*                                                                         *)
(* One schedule of the CR is modelled, as the plan in force; a plan says   *)
(* whether its storage is known (a bucket, "s3", of S3 or Azure, or a      *)
(* volume), whether its cron expression parses, and its retention, in the  *)
(* old form (keep) or the new one.                                         *)
(*                                                                         *)
(* A backup that is deleted is only marked: it is listed, and counted by   *)
(* retention, until the backup controller has run its finalizers.          *)
(***************************************************************************)
EXTENDS Naturals, FiniteSets

CONSTANTS Plans,        \* the plans the schedule may have
          MaxBackups,   \* backups the cron job creates
          MaxChanges,   \* edits, restores, changes of health, deletions by hand
          MaxMishaps    \* failed calls and restarts of the operator

ASSUME ScheduleBounds ==
    /\ MaxBackups \in Nat
    /\ Plans \subseteq [storage : {"s3", "volume", "unknown"}, parses : BOOLEAN,
                       legacy : BOOLEAN, count : Nat, delete : BOOLEAN]

VARIABLES given,      \* has the CR a spec.backup?  If not, plan and pitr
                      \* are what it will have when it comes back
          plan,       \* the schedule in the spec, or NoPlan
          cron,       \* the registered job: the plan and its finalizers
          backup,     \* the backups, numbered by their creation
          made,       \* how many have been created
          pitr,       \* spec.backup.pitr.enabled
          halted,     \* is spec.pause set, or a restore running?
          healthy,    \* status.state = ready
          deployment, \* the collector's Deployment
          service,    \* the collector's Service
          lastPlan,   \* history: the plan the last complete pass saw
          least,      \* history: the smallest count a pass has deleted under
          changes, mishaps

crbVars == <<given, plan, pitr, halted, healthy>>
pitrVars == <<deployment, service>>
bvars == <<crbVars, cron, backup, made, pitrVars, lastPlan, least, changes,
           mishaps>>

NoPlan == [storage |-> "none", parses |-> FALSE, legacy |-> FALSE,
           count |-> 0, delete |-> FALSE]
NoCron == [registered |-> FALSE, plan |-> NoPlan, finalizer |-> FALSE]

\* marked: who has deleted the backup, retention or a person; volume: is its
\* data on a PVC?  asked, switched: history.
NoBackup == [state |-> "none", marked |-> "no", volume |-> FALSE,
             finalizer |-> FALSE, data |-> FALSE, asked |-> FALSE,
             switched |-> FALSE]
Known(p) == p.storage \in {"s3", "volume"}

ScheduleTypeOK ==
    /\ plan \in Plans \union {NoPlan} /\ lastPlan \in Plans \union {NoPlan}
    /\ cron.plan \in Plans \union {NoPlan}
    /\ backup \in [1..MaxBackups ->
         [state : {"none", "running", "succeeded", "failed", "deleted"},
          marked : {"no", "plan", "hand"}, volume : BOOLEAN,
          finalizer : BOOLEAN, data : BOOLEAN, asked : BOOLEAN,
          switched : BOOLEAN]]
    /\ made \in 0..MaxBackups /\ least \in Nat
    /\ {given, pitr, halted, healthy, deployment, service} \subseteq BOOLEAN

ScheduleInit ==
    /\ given = TRUE /\ plan \in Plans /\ cron = NoCron
    /\ backup = [b \in 1..MaxBackups |-> NoBackup] /\ made = 0
    /\ pitr \in BOOLEAN /\ halted = FALSE
    /\ healthy = TRUE /\ deployment = FALSE /\ service = FALSE
    /\ lastPlan = NoPlan /\ least = MaxBackups
    /\ changes = MaxChanges /\ mishaps = MaxMishaps

-----------------------------------------------------------------------------
\* GetRetention: the old form always deletes from the storage.
DeletesData(p) == p.legacy \/ p.delete

\* backupFinalizers, for a CR of this operator's version: S3, Azure and
\* Filesystem alike.
backupFinalizers(p) == Known(p) /\ DeletesData(p)

\* Two retentions are only compared when both have the new form.  A schedule
\* that differs is one whose string parses where the other's does not.
shouldRecreateBackupJob(expected, existing) ==
    \/ existing.storage # expected.storage
    \/ existing.parses # expected.parses
    \/ ~existing.legacy /\ ~expected.legacy /\ existing.delete # expected.delete

\* The registry after the loop over spec.backup.schedule and the Range.
NewCron ==
    CASE ~given \/ plan = NoPlan -> NoCron
      [] given /\ plan # NoPlan /\ ~Known(plan) -> cron
      [] OTHER ->
           IF cron.registered /\ ~shouldRecreateBackupJob(plan, cron.plan)
           THEN cron
           ELSE IF plan.parses
                THEN [registered |-> TRUE, plan |-> plan,
                      finalizer |-> backupFinalizers(plan)]
                ELSE NoCron

\* minHeap pops the backups from the oldest on: how many come after b?
minHeap(done, b) == Cardinality({c \in done : c > b})

Succeeded(bs) == {b \in DOMAIN bs : bs[b].state = "succeeded"}

\* A mutant: the ones that run or have failed count as well.
OldestCountAll(keep) ==
    LET all  == {b \in 1..made : backup[b].state \notin {"none", "deleted"}}
        done == Succeeded(backup)
    IN  {b \in done : Cardinality({c \in all : c > b}) >= keep}

\* oldScheduledBackups: of the backups that succeeded, all but the newest, the
\* ones that are being deleted among them.
oldScheduledBackups(keep) ==
    LET done == Succeeded(backup)
    IN  {b \in done : minHeap(done, b) >= keep}

\* IsValidCountRetention, asked for a job that is registered.
Outdated ==
    IF NewCron.registered /\ plan.count > 0
    THEN oldScheduledBackups(plan.count) ELSE {}

\* client.Delete sets the deletion timestamp, once.  Without a finalizer the
\* backup is gone with it: runBackupFinalizers follows at once.
Mark(b, who) == IF b.marked = "no" THEN [b EXCEPT !.marked = who] ELSE b

KeepsCollector == pitr /\ ~halted

\* A mutant: a collector that is not found is not created.
CollectorUpdated ==
    /\ deployment' = (deployment /\ KeepsCollector)
    /\ service' = (service /\ pitr)

\* The collector's part, in a CR with a spec.backup: created while the cluster is ready, deleted when it
\* must not run; the Service only goes with PITR itself.
Collector ==
    /\ deployment' = CASE given /\ KeepsCollector /\ healthy -> TRUE
                       [] given /\ ~KeepsCollector -> FALSE
                       [] OTHER -> deployment
    /\ service' = CASE given /\ KeepsCollector /\ healthy -> TRUE
                    [] given /\ ~pitr -> FALSE
                    [] OTHER -> service

\* A complete reconcileBackups; a deletion that fails is only logged.
reconcileBackups ==
    /\ Collector
    /\ cron' = NewCron
    /\ \E gone \in SUBSET Outdated :
         /\ gone = Outdated \/ mishaps > 0
         /\ mishaps' = IF gone = Outdated THEN mishaps ELSE mishaps - 1
         /\ backup' = [b \in DOMAIN backup |->
                         IF b \in gone THEN Mark(backup[b], "plan") ELSE backup[b]]
         /\ least' = IF /\ plan.count < least
                       /\ \E b \in gone : backup[b].marked = "no"
                    THEN plan.count ELSE least
    /\ lastPlan' = IF given THEN plan ELSE NoPlan
    /\ UNCHANGED <<crbVars, made, changes>>

\* The first of its two calls only: the Service is written before the
\* Deployment, and deleted after it.
CollectorBegun ==
    \/ given /\ KeepsCollector /\ healthy /\ service' = TRUE /\ UNCHANGED deployment
    \/ given /\ ~KeepsCollector /\ deployment' = FALSE /\ UNCHANGED service

\* A call before the schedules fails, and nothing else of the pass is done.
reconcileBackupsFails ==
    /\ given /\ mishaps > 0 /\ mishaps' = mishaps - 1
    /\ CollectorBegun \/ UNCHANGED pitrVars
    /\ UNCHANGED <<crbVars, cron, backup, made, lastPlan, least, changes>>

\* CanBackup, without unsafeFlags.backupIfUnhealthy.
CanBackup == healthy

\* createBackupJob's function, at the time the cron expression says.  CanBackup
\* is asked of the cluster as it is now; the rest is as it was when the job
\* was registered.
Fire ==
    /\ cron.registered /\ CanBackup /\ made < MaxBackups
    /\ made' = made + 1
    /\ backup' = [backup EXCEPT ![made + 1] =
         [state |-> "running", marked |-> "no",
          volume |-> cron.plan.storage = "volume",
          finalizer |-> cron.finalizer, data |-> FALSE,
          asked |-> DeletesData(lastPlan),
          switched |-> lastPlan.legacy # cron.plan.legacy \/ ~Known(lastPlan)]]
    /\ UNCHANGED <<crbVars, cron, pitrVars, lastPlan, least, changes, mishaps>>

\* The backup controller brings a backup to its end.  It needs spec.backup.
Finish(b) ==
    /\ given /\ backup[b].state = "running"
    /\ \E ok \in BOOLEAN :
         backup' = [backup EXCEPT ![b].state = IF ok THEN "succeeded" ELSE "failed",
                                  ![b].data = ok]
    /\ UNCHANGED <<crbVars, cron, made, pitrVars, lastPlan, least, changes,
                   mishaps>>

\* deleteBackupPVC fails when the claim is not found.
ClaimMissing(b) == b.finalizer /\ b.volume /\ ~b.data

\* runBackupFinalizers of a backup that has been deleted: the data first, when
\* it has the finalizer delete-backup, then the object.  The write that ends it
\* may fail when the data is gone already.
Finalize(b) ==
    /\ backup[b].state = "succeeded" /\ backup[b].marked # "no"
    /\ ~ClaimMissing(backup[b])
    /\ \/ /\ backup' = [backup EXCEPT ![b].data = @ /\ ~backup[b].finalizer,
                                     ![b].state = "deleted"]
          /\ UNCHANGED mishaps
       \/ /\ mishaps > 0 /\ mishaps' = mishaps - 1
          /\ backup' = [backup EXCEPT ![b].data = @ /\ ~backup[b].finalizer]
    /\ UNCHANGED <<crbVars, cron, made, pitrVars, lastPlan, least, changes>>

\* The user deletes a good backup; edits the schedule; removes or restores
\* spec.backup, switches PITR or the pause.  A restore begins or ends.
DeleteByHand(b) ==
    /\ changes > 0 /\ changes' = changes - 1
    /\ backup[b].state = "succeeded" /\ backup[b].marked = "no"
    /\ backup' = [backup EXCEPT ![b] = Mark(@, "hand")]
    /\ UNCHANGED <<crbVars, cron, made, pitrVars, lastPlan, least, mishaps>>

EditPlan ==
    /\ changes > 0 /\ changes' = changes - 1
    /\ plan' \in (Plans \union {NoPlan}) \ {plan}
    /\ UNCHANGED <<given, pitr, halted, healthy, cron, backup, made,
                   pitrVars, lastPlan, least, mishaps>>

Toggle ==
    /\ changes > 0 /\ changes' = changes - 1
    /\ \/ given' = ~given /\ UNCHANGED <<pitr, halted>>
       \/ pitr' = ~pitr /\ UNCHANGED <<given, halted>>
       \/ halted' = ~halted /\ UNCHANGED <<given, pitr>>
    /\ UNCHANGED <<plan, healthy, cron, backup, made, pitrVars, lastPlan, least,
                   mishaps>>

\* The cluster stops being ready, and is ready again.
Weaken ==
    /\ changes > 0 /\ healthy
    /\ healthy' = FALSE /\ changes' = changes - 1
    /\ UNCHANGED <<given, plan, pitr, halted, cron, backup, made,
                   pitrVars, lastPlan, least, mishaps>>

Heal ==
    /\ ~healthy /\ healthy' = TRUE
    /\ UNCHANGED <<given, plan, pitr, halted, cron, backup, made,
                   pitrVars, lastPlan, least, changes, mishaps>>

\* The operator restarts: the registry is empty until the next pass.
RestartSchedules ==
    /\ mishaps > 0 /\ mishaps' = mishaps - 1
    /\ cron' = NoCron
    /\ UNCHANGED <<crbVars, backup, made, pitrVars, lastPlan, least, changes>>

ScheduleNext ==
    \/ reconcileBackups \/ reconcileBackupsFails \/ Fire \/ EditPlan
    \/ Toggle \/ Weaken \/ Heal \/ RestartSchedules
    \/ \E b \in 1..MaxBackups : Finish(b) \/ Finalize(b) \/ DeleteByHand(b)
ScheduleSpec == ScheduleInit /\ [][ScheduleNext]_bvars

-----------------------------------------------------------------------------
Staying(bs) == {b \in Succeeded(bs) : bs[b].marked = "no"}
ByHand(bs)  == {b \in DOMAIN bs : bs[b].marked = "hand"}

\* Retention never takes one of the newest good backups: it deletes a backup
\* only when as many younger ones as the plan keeps have succeeded and are
\* listed, whatever runs or has failed in between and whichever deletions fail.
\* Those that are being deleted are listed, so this alone would not keep a
\* backup from going after the next: but as long as nobody has deleted one by
\* hand, as many younger ones stay as the smallest count that was ever applied.
NewestStayStep ==
    \A b \in DOMAIN backup :
      backup[b].marked # "plan" /\ backup'[b].marked = "plan"
      => /\ Cardinality({c \in Succeeded(backup') : c > b}) >= plan.count
         /\ ByHand(backup') = {} =>
              Cardinality({c \in Staying(backup') : c > b}) >= least'

\* Data leaves the storage exactly when the plan the last complete pass saw, at
\* the time the backup was created, asks for it, and only with a backup that
\* has been deleted: a job goes on with the finalizers of its registration, so
\* every change of deleteFromStorage must have registered it again.  It has not
\* when the retention changed between the old form and the new one, or when
\* the storage had become unknown.
DataDeletedAsAsked ==
    \A b \in DOMAIN backup :
        LET r == backup[b]
        IN  /\ r.state = "deleted" /\ ~r.switched => r.data = ~r.asked
            /\ r.state = "succeeded" /\ ~r.data
               => r.marked # "no" /\ r.finalizer

\* Retention takes away only what the plan lets it, backups as well as data
\* (oldScheduledBackups, shouldRecreateBackupJob, backupFinalizers).
RetentionKeepsToThePlan == [][NewestStayStep /\ DataDeletedAsAsked']_bvars

\* When edits and mishaps end no more good backups stay than the plan keeps, for
\* a schedule whose job is registered, and those that were deleted are gone:
\* except one whose claim was removed and the write after it failed, which
\* keeps its finalizer for ever.
RetentionHolds ==
    /\ given /\ cron.registered /\ plan.count > 0 =>
         Cardinality(Staying(backup)) <= plan.count
    /\ \A b \in DOMAIN backup :
         backup[b].state = "succeeded" /\ backup[b].marked # "no"
         => ClaimMissing(backup[b])

\* The collector runs in the end exactly when it should: not beside a restore
\* or in a paused cluster, and again once those are over.  Without a
\* spec.backup nothing looks after it: it stays as it was.
CollectorSettled ==
    given => deployment = KeepsCollector /\ (service => pitr)
=============================================================================
