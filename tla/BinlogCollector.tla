-------------------------- MODULE BinlogCollector --------------------------
(***************************************************************************)
(* The binlog collector of point-in-time recovery (src/cmd/pitr), the      *)
(* nodes it reads binary logs from, the object storage it writes to, and   *)
(* what the operator does with its reports (src/pkg/pxc/backup/pitr.go).   *)
(*                                                                         *)
(* A transaction is its number in the one GTID sequence of the cluster.    *)
(* Every node logs every transaction, but cuts its logs where it likes. A  *)
(* log is the set of its transactions; a closed log without transactions   *)
(* is left out of the model, as the collector leaves it out.               *)
(***************************************************************************)
EXTENDS Naturals, FiniteSets, FiniteSetsExt, Sequences

CONSTANTS
    Hosts,          \* the nodes
    Collectors,     \* pods of the collector; two while a Deployment rolls over
    NoHost,
    MaxTxn,         \* bound: transactions
    PerSecond,      \* transactions within a second, the unit of timestamps
    MaxBackups,     \* bound: backups
    Events          \* the environment events that happen

EventKinds ==
    {"crash", "purge", "purgeInUse", "hosts", "queryError", "invalid", "slow"}

ASSUME CollectorAssumption ==
    /\ IsFiniteSet(Hosts) /\ Hosts # {} /\ NoHost \notin Hosts
    /\ IsFiniteSet(Collectors) /\ Collectors # {}
    /\ MaxTxn \in Nat /\ MaxBackups \in Nat /\ PerSecond \in Nat \ {0}
    /\ Events \subseteq EventKinds

-----------------------------------------------------------------------------
VARIABLES
    committed,  \* number of transactions of the cluster
    logs,       \* binary logs of every node, by number
    first,      \* number of the oldest log of a node
    last,       \* number of the log that is being written
    objects,    \* storage: the binlog_ objects
    described,  \* storage: the names that have a -gtid-set object
    lastSet,    \* storage: the last-binlog-set_ object
    cache,      \* storage: gtid-binlog-cache.json
    backups     \* the successful backups of the cluster, oldest first

VARIABLES
    pc,         \* next call of a collector
    host,       \* c.db: the node it is connected to
    list,       \* numbers of the logs listed
    sets,       \* GTID sets of the logs listed
    todo,       \* numbers of the logs to upload
    key,        \* name of the object being uploaded
    gapFile,    \* /tmp/gap-detected in its container
    timeline,   \* lines of /tmp/pitr-timeline, none without the file
    running,    \* the backup that is being taken: its last transaction, or 0
    gapSeen,    \* history: a gap has ever been detected
    acked       \* history: all that the last set has ever had

nodeVars      == <<committed, logs, first, last>>
storageVars   == <<objects, described, lastSet, cache, acked>>
memVars       == <<host, list, sets, todo, key>>
fileVars      == <<gapFile, timeline>>
backupVars    == <<backups, running>>
vars == <<committed, logs, first, last, objects, described, lastSet, cache,
          backups, pc, host, list, sets, todo, key, gapFile, timeline,
          running, gapSeen, acked>>

Txns  == 1 .. MaxTxn
Time(t) == (t + PerSecond - 1) \div PerSecond
Names == 1 .. MaxTxn + 1    \* a log is only closed when it has a transaction
PCs   == {"idle", "show", "flush", "sets", "find", "timeline", "putBinlog",
          "putSet", "putLast", "update"}

Keys    == [ts : Txns, num : Names, set : SUBSET Txns]
NoKey   == [ts |-> 0, num |-> 0, set |-> {}]
Objects == [key : Keys, content : SUBSET Txns]
Caches  == [on : BOOLEAN, names : SUBSET Names, sets : [Names -> SUBSET Txns]]
Backups == [at : Txns, ready : BOOLEAN, until : 0 .. MaxTxn]

TypeOK ==
    /\ committed \in 0 .. MaxTxn
    /\ logs \in [Hosts -> [Names -> SUBSET Txns]]
    /\ first \in [Hosts -> Names]
    /\ last \in [Hosts -> Names]
    /\ objects \subseteq Objects
    /\ described \subseteq Keys
    /\ lastSet \subseteq Txns
    /\ cache \in [Hosts -> Caches]
    /\ backups \in Seq(Backups) /\ Len(backups) <= MaxBackups
    /\ pc \in [Collectors -> PCs]
    /\ host \in [Collectors -> Hosts \cup {NoHost}]
    /\ list \in [Collectors -> SUBSET Names]
    /\ sets \in [Collectors -> [Names -> SUBSET Txns]]
    /\ todo \in [Collectors -> SUBSET Names]
    /\ key \in [Collectors -> Keys \cup {NoKey}]
    /\ gapFile \in [Collectors -> BOOLEAN]
    /\ timeline \in [Collectors -> Seq(Txns)]
    /\ \A c \in Collectors : Len(timeline[c]) <= 2
    /\ running \in 0 .. MaxTxn
    /\ gapSeen \in BOOLEAN
    /\ acked \subseteq Txns

NoSets == [n \in Names |-> {}]

Init ==
    /\ committed = 0
    /\ logs = [h \in Hosts |-> NoSets]
    /\ first = [h \in Hosts |-> 1]
    /\ last = [h \in Hosts |-> 1]
    /\ objects = {}
    /\ described = {}
    /\ lastSet = {}
    /\ cache = [h \in Hosts |-> [on |-> FALSE, names |-> {}, sets |-> NoSets]]
    /\ backups = << >>
    /\ pc = [c \in Collectors |-> "idle"]
    /\ host = [c \in Collectors |-> NoHost]
    /\ list = [c \in Collectors |-> {}]
    /\ sets = [c \in Collectors |-> NoSets]
    /\ todo = [c \in Collectors |-> {}]
    /\ key = [c \in Collectors |-> NoKey]
    /\ gapFile = [c \in Collectors |-> FALSE]
    /\ timeline = [c \in Collectors |-> << >>]
    /\ running = 0
    /\ gapSeen = FALSE
    /\ acked = {}

-----------------------------------------------------------------------------
Goto(c, label) == pc' = [pc EXCEPT ![c] = label]

Log(c, n) == logs[host[c]][n]

\* The Run is over: the next one starts with nothing in memory.
Forget(c) ==
    /\ Goto(c, "idle")
    /\ host' = [host EXCEPT ![c] = NoHost]
    /\ list' = [list EXCEPT ![c] = {}]
    /\ sets' = [sets EXCEPT ![c] = NoSets]
    /\ todo' = [todo EXCEPT ![c] = {}]
    /\ key' = [key EXCEPT ![c] = NoKey]

\* log.Fatalln: the container is started anew, without the files under /tmp.
Exit(c) ==
    /\ Forget(c)
    /\ gapFile' = [gapFile EXCEPT ![c] = FALSE]
    /\ timeline' = [timeline EXCEPT ![c] = << >>]

\* The transactions that the logs of a node still have.
AllIn(h) == UNION {logs[h][n] : n \in Names}

\* getBinlogTime: of the first record of the oldest log. Also a log without
\* transactions has one; it counts as written just before the next transaction.
BinlogTime(h) == Time(Min(AllIn(h) \cup {committed + 1}))

\* GetPXCOldestBinlogHost, among the nodes that are synced at the moment.
OldestBinlogHosts(synced) ==
    {h \in synced : \A o \in synced : BinlogTime(h) <= BinlogTime(o)}

NewDB(c) ==
    /\ pc[c] = "idle"
    /\ \E synced \in SUBSET Hosts :
          /\ synced = Hosts \/ "hosts" \in Events
          /\ \/ /\ synced = {}
                /\ Exit(c)
             \/ /\ \E h \in OldestBinlogHosts(synced) :
                      host' = [host EXCEPT ![c] = h]
                /\ Goto(c, "show")
                /\ UNCHANGED <<list, sets, todo, key, fileVars>>
    /\ UNCHANGED <<nodeVars, storageVars, backupVars, gapSeen>>

\* GetBinLogList: SHOW BINARY LOGS, then FLUSH BINARY LOGS closes the last one.
ShowBinaryLogs(c) ==
    /\ pc[c] = "show"
    /\ list' = [list EXCEPT ![c] = first[host[c]] .. last[host[c]]]
    /\ Goto(c, "flush")
    /\ UNCHANGED <<nodeVars, storageVars, backupVars, host, sets, todo, key,
                   fileVars, gapSeen>>

CloseLog(h) ==
    last' = IF logs[h][last[h]] = {} THEN last
            ELSE [last EXCEPT ![h] = last[h] + 1]

FlushBinaryLogs(c) ==
    /\ pc[c] = "flush"
    /\ CloseLog(host[c])
    /\ list' = [list EXCEPT ![c] =
           {n \in list[c] : n < last[host[c]] \/ Log(c, n) # {}}]
    /\ Goto(c, "sets")
    /\ UNCHANGED <<committed, logs, first, storageVars, backupVars, host, sets,
                   todo, key, fileVars, gapSeen>>

(***************************************************************************)
(* addGTIDSets: sets not in the cache are asked of the node. Of a log that *)
(* has been purged the answer is the empty set. A log the node finds       *)
(* invalid is skipped. Any other error ends the Run if the node is not in  *)
(* the cache; if it is, the error is dropped and the empty set is cached.  *)
(***************************************************************************)
AddGTIDSets(c) ==
    LET h == host[c]
        missing == list[c] \ cache[h].names
    IN  /\ pc[c] = "sets"
        /\ \E invalid \in SUBSET missing : \E failed \in SUBSET missing :
              /\ invalid # {} => "invalid" \in Events
              /\ failed # {} => "queryError" \in Events
              /\ IF failed # {} /\ ~cache[h].on
                 THEN Exit(c) /\ UNCHANGED cache
                 ELSE LET answer == [n \in Names |->
                              IF n \in missing \ (invalid \cup failed)
                              THEN Log(c, n) ELSE {}]
                          names == missing \ invalid
                      IN  /\ sets' = [sets EXCEPT ![c] = [n \in Names |->
                                 IF n \in list[c] \ missing
                                 THEN cache[h].sets[n] ELSE answer[n]]]
                          /\ cache' = [cache EXCEPT ![h] =
                                 [on |-> TRUE,
                                  names |-> cache[h].names \cup names,
                                  sets |-> [n \in Names |->
                                      IF n \in names THEN answer[n]
                                      ELSE cache[h].sets[n]]]]
                          /\ list' = [list EXCEPT ![c] = {}]
                          /\ Goto(c, "find")
                          /\ UNCHANGED <<host, todo, key, fileVars>>
        /\ UNCHANGED <<nodeVars, objects, described, lastSet, acked, backupVars,
                       gapSeen>>

\* CollectBinLogs compares with the last uploaded set by inclusion either way.
Related(a, b) == a \subseteq b \/ b \subseteq a

\* removeEmptyBinlogs, and the logs that may be the last uploaded one, of which
\* the latest is taken for it.
NonEmpty(c) == {n \in Names : sets[c][n] # {}}

Candidates(c) == {n \in NonEmpty(c) : Related(sets[c][n], lastSet)}

\* A mutant: the last uploaded log is taken to be complete.
FilterBinLogsAfter(c, name) == {n \in NonEmpty(c) : n > name}

\* filterBinLogs: from the last uploaded log on, without it if its set is that
\* set still.
FilterBinLogs(c, name) ==
    {n \in NonEmpty(c) : n > name \/ (n = name /\ Log(c, n) # lastSet)}

\* The rest of CollectBinLogs before the uploads.
FindLastUploaded(c) ==
    LET gap == lastSet # {} /\ Candidates(c) = {}
        new == IF lastSet = {} \/ gap THEN NonEmpty(c)
               ELSE FilterBinLogs(c, Max(Candidates(c)))
    IN  /\ pc[c] = "find"
        /\ IF NonEmpty(c) = {}
           THEN Forget(c) /\ UNCHANGED <<fileVars, gapSeen>>
           ELSE /\ gapFile' = [gapFile EXCEPT ![c] = gapFile[c] \/ gap]
                /\ gapSeen' = (gapSeen \/ gap)
                /\ IF new = {} THEN Forget(c) /\ UNCHANGED timeline
                   ELSE /\ todo' = [todo EXCEPT ![c] = new]
                        /\ Goto(c, "timeline")
                        /\ UNCHANGED <<host, list, sets, key, timeline>>
        /\ UNCHANGED <<nodeVars, storageVars, backupVars>>

\* createTimelineFile, with the first timestamp of the first log to upload.
CreateTimelineFile(c) ==
    LET log == Log(c, Min(todo[c]))
    IN  /\ pc[c] = "timeline"
        /\ IF timeline[c] = << >> /\ log = {} THEN Exit(c)
           ELSE /\ timeline' = [timeline EXCEPT ![c] =
                       IF @ = << >> THEN <<Time(Min(log))>> ELSE @]
                /\ Goto(c, "putBinlog")
                /\ UNCHANGED <<memVars, gapFile>>
        /\ UNCHANGED <<nodeVars, storageVars, backupVars, gapSeen>>

\* manageBinlog: the log, then its GTID set, then the last set. The name of the
\* object is made of the first timestamp, the number and the GTID set.
PutBinlog(c) ==
    LET n == Min(todo[c])
        k == [ts |-> Time(Min(Log(c, n))), num |-> n, set |-> sets[c][n]]
    IN  /\ pc[c] = "putBinlog"
        /\ IF Log(c, n) = {} THEN Exit(c) /\ UNCHANGED objects
           ELSE /\ objects' = {o \in objects : o.key # k}
                                 \cup {[key |-> k, content |-> Log(c, n)]}
                /\ key' = [key EXCEPT ![c] = k]
                /\ Goto(c, "putSet")
                /\ UNCHANGED <<host, list, sets, todo, fileVars>>
        /\ UNCHANGED <<nodeVars, described, lastSet, acked, cache, backupVars,
                       gapSeen>>

\* A mutant: the last set is written before the GTID set.
PutGTIDSetAfterLast(c) ==
    /\ pc[c] = "putSet"
    /\ \/ /\ lastSet # sets[c][Min(todo[c])]
          /\ lastSet' = sets[c][Min(todo[c])]
          /\ UNCHANGED <<described, pc>>
       \/ /\ lastSet = sets[c][Min(todo[c])]
          /\ described' = described \cup {key[c]}
          /\ Goto(c, "putLast")
          /\ UNCHANGED lastSet
    /\ UNCHANGED <<nodeVars, objects, acked, cache, backupVars, memVars, fileVars,
                   gapSeen>>

PutGTIDSet(c) ==
    /\ pc[c] = "putSet"
    /\ described' = described \cup {key[c]}
    /\ Goto(c, "putLast")
    /\ UNCHANGED <<nodeVars, objects, lastSet, acked, cache, backupVars, memVars,
                   fileVars, gapSeen>>

PutLastSet(c) ==
    /\ pc[c] = "putLast"
    /\ lastSet' = sets[c][Min(todo[c])]
    /\ acked' = acked \cup lastSet'
    /\ Goto(c, "update")
    /\ UNCHANGED <<nodeVars, objects, described, cache, backupVars, memVars,
                   fileVars, gapSeen>>

\* updateTimelineFile with the last timestamp of the log: the node must have the
\* log still, and the file must be there still.
UpdateTimelineFile(c) ==
    LET n == Min(todo[c])
    IN  /\ pc[c] = "update"
        /\ IF Log(c, n) = {} \/ timeline[c] = << >> THEN Exit(c)
           ELSE /\ timeline' = [timeline EXCEPT ![c] =
                       <<@[1], Time(Max(Log(c, n)))>>]
                /\ IF todo[c] = {n} THEN Forget(c)
                   ELSE /\ todo' = [todo EXCEPT ![c] = @ \ {n}]
                        /\ key' = [key EXCEPT ![c] = NoKey]
                        /\ Goto(c, "putBinlog")
                        /\ UNCHANGED <<host, list, sets>>
                /\ UNCHANGED gapFile
        /\ UNCHANGED <<nodeVars, storageVars, backupVars, gapSeen>>

\* Any call fails, the time limit of a Run passes, or the pod is replaced.
Crash(c) ==
    /\ "crash" \in Events
    /\ Exit(c)
    /\ UNCHANGED <<nodeVars, storageVars, backupVars, gapSeen>>

Run(c) ==
    \/ NewDB(c) \/ ShowBinaryLogs(c) \/ FlushBinaryLogs(c) \/ AddGTIDSets(c)
    \/ FindLastUploaded(c) \/ CreateTimelineFile(c) \/ PutBinlog(c)
    \/ PutGTIDSet(c) \/ PutLastSet(c) \/ UpdateTimelineFile(c)

-----------------------------------------------------------------------------
(***************************************************************************)
(* The nodes.                                                              *)
(***************************************************************************)
Commit ==
    /\ committed < MaxTxn
    /\ committed' = committed + 1
    /\ logs' = [h \in Hosts |->
           [logs[h] EXCEPT ![last[h]] = @ \cup {committed + 1}]]
    /\ UNCHANGED <<first, last, storageVars, backupVars, pc, memVars, fileVars,
                   gapSeen>>

Rotate(h) ==
    /\ logs[h][last[h]] # {}
    /\ CloseLog(h)
    /\ UNCHANGED <<committed, logs, first, storageVars, backupVars, pc, memVars,
                   fileVars, gapSeen>>

\* A collector is between listing a log and being done with it.
InUse(h, n) ==
    \E c \in Collectors :
        host[c] = h /\ (n \in list[c] \cup todo[c] \/ sets[c][n] # {})

Purge(h) ==
    /\ "purge" \in Events
    /\ InUse(h, first[h]) => "purgeInUse" \in Events
    /\ first[h] < last[h]
    /\ first' = [first EXCEPT ![h] = first[h] + 1]
    /\ logs' = [logs EXCEPT ![h] = [logs[h] EXCEPT ![first[h]] = {}]]
    /\ UNCHANGED <<committed, last, storageVars, backupVars, pc, memVars,
                   fileVars, gapSeen>>

(***************************************************************************)
(* The operator.                                                           *)
(***************************************************************************)

\* A backup has the transactions committed when it was taken.
TakeBackup ==
    /\ "slow" \in Events
    /\ running = 0 /\ committed > 0
    /\ Len(backups) < MaxBackups
    /\ running' = committed
    /\ UNCHANGED <<nodeVars, storageVars, backups, pc, memVars, fileVars, gapSeen>>

\* updateJobStatus of a success: the files of the collector are removed.
BackupSucceeds ==
    LET at == IF running # 0 THEN running ELSE committed
    IN  /\ committed > 0
        /\ running # 0 \/ "slow" \notin Events
        /\ Len(backups) < MaxBackups
        /\ \E c \in Collectors :
              /\ gapFile' = [gapFile EXCEPT ![c] = FALSE]
              /\ timeline' = [timeline EXCEPT ![c] = << >>]
        /\ backups' = Append(backups, [at |-> at, ready |-> TRUE, until |-> 0])
        /\ running' = 0
        /\ UNCHANGED <<nodeVars, storageVars, pc, memVars, gapSeen>>

Latest == Len(backups)

\* CheckPITRErrors: a gap file marks the latest backup and is removed.
CheckPITRErrors(c) ==
    /\ Latest > 0 /\ backups[Latest].ready
    /\ gapFile[c]
    /\ backups' = [backups EXCEPT ![Latest].ready = FALSE]
    /\ gapFile' = [gapFile EXCEPT ![c] = FALSE]
    /\ UNCHANGED <<nodeVars, storageVars, running, pc, memVars, timeline, gapSeen>>

\* UpdatePITRTimeline: LatestRestorableTime of the latest backup.
UpdatePITRTimeline(c) ==
    /\ Latest > 0
    /\ Len(timeline[c]) = 2 /\ timeline[c][2] # backups[Latest].until
    /\ backups' = [backups EXCEPT ![Latest].until = timeline[c][2]]
    /\ UNCHANGED <<nodeVars, storageVars, running, pc, memVars, fileVars, gapSeen>>

Next ==
    \/ \E c \in Collectors :
           Run(c) \/ Crash(c) \/ CheckPITRErrors(c) \/ UpdatePITRTimeline(c)
    \/ \E h \in Hosts : Rotate(h) \/ Purge(h)
    \/ Commit \/ TakeBackup \/ BackupSucceeds

Spec == Init /\ [][Next]_vars

\* runCollector loops; a container that exits is started again.
Fairness == \A c \in Collectors : WF_vars(Run(c))

FairSpec == Spec /\ Fairness

-----------------------------------------------------------------------------
(***************************************************************************)
(* Properties.                                                             *)
(***************************************************************************)

\* What a recovery can use: objects without a -gtid-set object are skipped.
Usable    == {o \in objects : o.key \in described}
Collected == UNION {o.content : o \in Usable}

\* The transactions missing from the collected ones, between those that the
\* last set has had.
Holes ==
    {t \in Txns : t \notin Collected /\ \E a, b \in acked : a < t /\ t < b}

\* No transaction is left out without a gap having been detected, although the
\* collector remembers nothing but the set of the last log uploaded, moves
\* between nodes that cut and purge their logs differently and stops at any
\* point.
NoSilentGap == Holes # {} => gapSeen

\* The GTID set stored with a log is that of the log, also when it was the one
\* being written when the collector listed it, and when it came from the cache.
DescribedExactly == \A o \in objects : o.content = o.key.set

\* The last set never claims what has not been uploaded.
LastSetCollected == lastSet \subseteq Collected

\* LatestRestorableTime only advertises transactions that have been collected.
AdvertisedCollected ==
    \A i \in 1 .. Latest :
        ~gapSeen => \A t \in Txns :
            backups[i].at < t /\ Time(t) < backups[i].until
            /\ (\E a \in acked : a < t) => t \in Collected

\* As long as no node purges a log, every transaction gets collected, and stays
\* so.
CommittedCollected == \A t \in Txns : committed >= t => t \in Collected
EveryTransactionCollected == <>[]CommittedCollected
=============================================================================
