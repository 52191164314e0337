----------------------------- MODULE MCServices -----------------------------
(***************************************************************************)
(* Instances for TLC of parts that share no state: the schedules of        *)
(* backups, the xtrabackup sidecar, the custom users, the binlog collector *)
(* and the point-in-time recoverer, peer-list and the state monitor.  A    *)
(* behaviour is a behaviour of one of them, chosen in the initial state;   *)
(* the others stay as they began, or are Off.                              *)
(***************************************************************************)
EXTENDS Naturals, Sequences, ScheduledBackups, Sidecar, PeerList,
        StateMonitor

VARIABLE part   \* the part this behaviour is of
VARIABLES ask, secret, own, note, account, upc, who, um, changesC, trouble,
          spoiled
VARIABLES logs, base, goal, ppc, at, chosen, gtidSet, executed, reader,
          again
VARIABLES committed, nodeLogs, first, last, objects, described, lastSet,
          cache, backups, pc, host, list, sets, todo, key, gapFile,
          timeline, running, gapSeen, acked

Retention(storage, parses, legacy, count, delete) ==
    [storage |-> storage, parses |-> parses, legacy |-> legacy, count |-> count,
     delete |-> delete]
SomePlans ==
    {Retention("s3", TRUE, TRUE, 1, FALSE), Retention("s3", TRUE, FALSE, 1, TRUE),
     Retention("s3", TRUE, FALSE, 2, FALSE), Retention("s3", FALSE, FALSE, 1, TRUE),
     Retention("volume", TRUE, FALSE, 1, TRUE),
     Retention("unknown", TRUE, FALSE, 1, TRUE)}
AllErrors ==
    {"crash", "purge", "purgeInUse", "hosts", "queryError", "invalid", "slow"}

Custom == INSTANCE CustomUsers WITH
    Customers <- {1, 2}, HostCount <- 2, MaxPassword <- 2,
    MaxChangesC <- 2, MaxTrouble <- 1
Recovery == INSTANCE Recoverer WITH
    MaxTxn <- 4, MaxLogs <- 3, MaxAgain <- 1
CollectErrors == INSTANCE BinlogCollector WITH
    Hosts <- {"h1"}, PerSecond <- 2, Events <- AllErrors,
    Collectors <- {"c1"}, NoHost <- "none", MaxTxn <- 3, MaxBackups <- 1,
    logs <- nodeLogs
Collect == INSTANCE BinlogCollector WITH
    Hosts <- {"h1", "h2"}, PerSecond <- 1, Events <- {"hosts"},
    Collectors <- {"c1"}, NoHost <- "none", MaxTxn <- 3, MaxBackups <- 1,
    logs <- nodeLogs

uvars ==
    <<ask, secret, own, note, account, upc, who, um, changesC, trouble,
      spoiled>>
pvars ==
    <<logs, base, goal, ppc, at, chosen, gtidSet, executed, reader, again>>
gvars ==
    <<committed, nodeLogs, first, last, objects, described, lastSet, cache,
      backups, pc, host, list, sets, todo, key, gapFile, timeline, running,
      gapSeen, acked>>
vars ==
    <<part, bvars, svars, uvars, pvars, lvars, mvars, gvars>>

Off == ""
CustomOff ==
    /\ ask = Off /\ secret = Off /\ own = Off /\ note = Off
    /\ account = Off /\ upc = Off /\ who = Off /\ um = Off
    /\ changesC = Off /\ trouble = Off /\ spoiled = Off
RecoveryOff ==
    /\ logs = Off /\ base = Off /\ goal = Off /\ ppc = Off /\ at = Off
    /\ chosen = Off /\ gtidSet = Off /\ executed = Off /\ reader = Off
    /\ again = Off
CollectErrorsOff ==
    /\ committed = Off /\ nodeLogs = Off /\ first = Off /\ last = Off
    /\ objects = Off /\ described = Off /\ lastSet = Off /\ cache = Off
    /\ backups = Off /\ pc = Off /\ host = Off /\ list = Off /\ sets = Off
    /\ todo = Off /\ key = Off /\ gapFile = Off /\ timeline = Off
    /\ running = Off /\ gapSeen = Off /\ acked = Off

\* A bound.  Three logs begin at 1, only the one in the middle may lack its
\* gtid-set, and no transaction is skipped (the choice does not look at that);
\* fewer logs begin at 1 or 2.
FewStorages ==
    IF Len(logs) < 3 THEN logs[1].lo <= 2
    ELSE logs[1].lo = 1 /\ logs[1].set /\ logs[3].set /\ goal.type # "skip"

Init ==
    /\ part \in {"schedules", "sidecar", "custom", "recoverer", "peers",
                 "monitor", "collectorErrors", "collector"}
    /\ ScheduleInit
    /\ pitr = (part = "schedules")
    /\ part # "schedules" => plan.storage = "volume"
    /\ SidecarInit
    /\ PeerListInit
    /\ part # "peers" => mode = "start" /\ records = {}
    /\ StateMonitorInit
    /\ part # "monitor" => stage = "real" /\ file = <<>>
    /\ IF part = "custom" THEN Custom!CustomUsersInit ELSE CustomOff
    /\ IF part = "recoverer" THEN Recovery!RecovererInit /\ FewStorages
       ELSE RecoveryOff
    /\ IF part = "collectorErrors" THEN CollectErrors!Init
       ELSE IF part = "collector" THEN Collect!Init ELSE CollectErrorsOff

InSchedules ==
    /\ part = "schedules" /\ ScheduleNext
    /\ UNCHANGED <<part, svars, uvars, pvars, lvars, mvars, gvars>>
InSidecars ==
    /\ part = "sidecar" /\ SidecarNext
    /\ UNCHANGED <<part, bvars, uvars, pvars, lvars, mvars, gvars>>
InCustom ==
    /\ part = "custom" /\ Custom!CustomUsersNext
    /\ UNCHANGED <<part, bvars, svars, pvars, lvars, mvars, gvars>>
InRecovery ==
    /\ part = "recoverer" /\ Recovery!RecovererNext
    /\ UNCHANGED <<part, bvars, svars, uvars, lvars, mvars, gvars>>
InEndpoints ==
    /\ part = "peers" /\ PeerListNext
    /\ UNCHANGED <<part, bvars, svars, uvars, pvars, mvars, gvars>>
InMonitor ==
    /\ part = "monitor" /\ StateMonitorNext
    /\ UNCHANGED <<part, bvars, svars, uvars, pvars, lvars, gvars>>
InCollectErrors ==
    /\ part = "collectorErrors" /\ CollectErrors!Next
    /\ UNCHANGED <<part, bvars, svars, uvars, pvars, lvars, mvars>>
InCollect ==
    /\ part = "collector" /\ Collect!Next
    /\ UNCHANGED <<part, bvars, svars, uvars, pvars, lvars, mvars>>

Next ==
    \/ InSchedules \/ InSidecars \/ InCustom \/ InRecovery \/ InEndpoints
    \/ InMonitor \/ InCollectErrors \/ InCollect

\* The work queue repeats the pass; the cluster becomes ready again; the backup
\* controller ends every backup and runs the finalizers of a deleted one.
SchedulesFair ==
    /\ WF_bvars(part = "schedules" /\ reconcileBackups)
    /\ WF_bvars(part = "schedules" /\ Heal)
    /\ \A b \in 1..3 : WF_bvars(part = "schedules" /\ Finish(b))
    /\ \A b \in 1..3 : WF_bvars(part = "schedules" /\ Finalize(b))
\* Clients, handlers and the Job controller go on.
SidecarsFair ==
    /\ \A a \in Attempts : WF_svars(part = "sidecar" /\ ClientStep(a))
    /\ \A a \in Attempts : WF_svars(part = "sidecar" /\ HandlerStep(a))
    /\ \A j \in {"b1", "b2"} : WF_svars(part = "sidecar" /\ JobStep(j))
\* The work queue repeats the pass.
CustomFair ==
    /\ WF_uvars(part = "custom" /\ Custom!CustomUsersPass)
\* The recoverer runs.
RecoveryFair ==
    /\ WF_pvars(part = "recoverer" /\ Recovery!RecovererStep)
\* runCollector loops; a container that exits is started again.
CollectFair ==
    /\ WF_gvars(part = "collector" /\ Collect!Run("c1"))

Spec ==
    /\ Init /\ [][Next]_vars
    /\ SchedulesFair /\ SidecarsFair /\ CustomFair /\ RecoveryFair
    /\ CollectFair

-----------------------------------------------------------------------------
\* The state of the parts is well formed.
TypeOK ==
    /\ ScheduleTypeOK
    /\ SidecarTypeOK
    /\ part = "custom" => Custom!CustomUsersTypeOK
    /\ part = "recoverer" => Recovery!RecovererTypeOK
    /\ PeerListTypeOK
    /\ StateMonitorTypeOK
    /\ part = "collectorErrors" => CollectErrors!TypeOK
    /\ part = "collector" => Collect!TypeOK

\* A recovery that reports success has produced exactly what its goal asks for,
\* however the logs overlap and whatever the attempts before, except in the three
\* cases Recoverer names (a gtid-set object is missing, two logs hold the target,
\* a log within an older one ends the choice); and at no moment does the database
\* hold a transaction from beyond the target (setBinlogs, recover).
RecoversExactly ==
    part = "recoverer" =>
         /\ Recovery!RecoversExactly
         /\ Recovery!NeverBeyond

\* What the storage and the backup say has been collected has been: the GTID set
\* stored with a log is that of the log, the last set never claims what was not
\* uploaded, and LatestRestorableTime only advertises transactions that were
\* collected (manageBinlog, updateTimelineFile, UpdatePITRTimeline).
CollectedAsSaid ==
    /\ part = "collectorErrors" =>
         /\ CollectErrors!DescribedExactly
         /\ CollectErrors!LastSetCollected
    /\ part = "collector" => Collect!AdvertisedCollected

\* When edits and faults end, each part gets done: no more good backups are left
\* than the plan keeps and the binlog collector runs exactly when it should
\* (reconcileBackups); the sidecar is free and every Job has ended (CreateBackup);
\* every custom user has its accounts, password and grants (reconcileCustomUsers);
\* a recovery has ended (Run of the recoverer); every transaction is collected as
\* long as no log is purged (CollectBinLogs).  The deviations are named in the
\* parts.
ServicesConverge ==
    <>[](/\ part = "schedules" => RetentionHolds /\ CollectorSettled
         /\ part = "sidecar" => SidecarFree
         /\ part = "custom" => Custom!CustomUsersSettled
         /\ part = "recoverer" => Recovery!RecoveryEnded
         /\ part = "collector" => Collect!CommittedCollected)
=============================================================================
