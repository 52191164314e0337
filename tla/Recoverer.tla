------------------------------ MODULE Recoverer ------------------------------
(***************************************************************************)
(* Point-in-time recovery (cmd/pitr/recoverer/recoverer.go): the choice of *)
(* the binary logs to replay, made from the newest to the oldest, and the  *)
(* replay, a pipe from mysqlbinlog to one mysql client.  The Job's pod may *)
(* fail anywhere and start again on the database as it is by then.         *)
(*                                                                         *)
(* Transactions are numbered in the order of the cluster (one source id,   *)
(* one interval per log); the number is also the time it was committed.  A *)
(* log is an interval with the time of its first transaction in its name,  *)
(* and may lack its gtid-set object.  The server skips a transaction it    *)
(* has executed already.                                                   *)
(***************************************************************************)
EXTENDS Naturals, Sequences, FiniteSets, SequencesExt

CONSTANTS MaxTxn,    \* transactions are 1..MaxTxn
          MaxLogs,   \* logs in the storage
          MaxAgain   \* failures of the pod

VARIABLES logs,      \* the storage, as ListObjects has it, oldest first
          base,      \* the backup holds the transactions 1..base
          goal,      \* recoverType and its argument
          ppc,       \* scan, replay, done, refused, hung
          at,        \* scan: the log it is at; replay: the place in chosen
          chosen,    \* binlogs, newest first while scanning
          gtidSet,   \* the interval to exclude, <<0, 0>> while it is empty
          executed,  \* the transactions the database has
          reader,    \* does the mysql client still read?
          again      \* failures of the pod left

pvars == <<logs, base, goal, ppc, at, chosen, gtidSet, executed, reader, again>>
fixed == <<logs, base, goal>>

Txns   == 1..MaxTxn
Log(i) == logs[i].lo..logs[i].hi
Goals  == [type : {"latest"}, arg : {0}] \union
          [type : {"date", "transaction", "skip"}, arg : Txns]
Empty  == <<0, 0>>

\* What the collector leaves, by name: in the order of the first transactions
\* and without a gap.  Logs of two hosts may overlap, and after a change of host
\* one may lie within another that has the earlier time: 1-4 before 2-3.
Storages ==
    {l \in UNION {[1..n -> [lo : Txns, hi : Txns, set : BOOLEAN]] : n \in 1..MaxLogs} :
       /\ \A i \in DOMAIN l : l[i].lo <= l[i].hi
       /\ \A i \in 2..Len(l) :
            /\ l[i - 1].lo <= l[i].lo
            /\ \E j \in 1..i - 1 : l[i].lo <= l[j].hi + 1
            /\ \A j \in 1..i - 1 : <<l[j].lo, l[j].hi>> # <<l[i].lo, l[i].hi>>}

RecovererTypeOK ==
    /\ base \in Txns /\ goal \in Goals
    /\ ppc \in {"scan", "replay", "done", "refused", "hung"}
    /\ at \in 0..MaxLogs + 1 /\ ToSet(chosen) \subseteq DOMAIN logs
    /\ gtidSet \in {Empty} \union (Txns \X Txns)
    /\ executed \subseteq Txns /\ reader \in BOOLEAN /\ again \in 0..MaxAgain

-----------------------------------------------------------------------------
\* New.

\* getDecompressedContent and the parsers: a file of the backup is missing,
\* cannot be read, or holds what is looked for.
Contents == {"missing", "broken", "good"}
Files    == [{"sst_info", "xtrabackup_binlog_info", "xtrabackup_info"} -> Contents]

\* getGTID: the source id; the second file is only read when there is no first.
getGTID(files) ==
    IF files["sst_info"] # "missing" THEN files["sst_info"] = "good"
    ELSE files["xtrabackup_binlog_info"] = "good"

\* getStartGTIDSet: and the interval that goes with it.  Is 1..base known?
getStartGTIDSet(files) == getGTID(files) /\ files["xtrabackup_info"] = "good"

\* A target from before the backup is refused.
BeforeBackup == goal.type = "transaction" /\ goal.arg < base

\* The restored database, and a pod that has read the list and the backup.
RecovererInit ==
    /\ logs \in Storages /\ base \in Txns /\ goal \in Goals
    /\ base >= logs[1].lo - 1
    /\ \E files \in Files :
         ppc = IF getStartGTIDSet(files) /\ ~BeforeBackup THEN "scan" ELSE "refused"
    /\ at = Len(logs) /\ chosen = <<>> /\ gtidSet = Empty
    /\ executed = 1..base /\ reader = TRUE /\ again = MaxAgain

-----------------------------------------------------------------------------
\* setBinlogs: one round of its loop.

\* getExtendGTIDSet: from the target to the end of this log.
getExtendGTIDSet(i) == <<goal.arg, logs[i].hi>>

\* A mutant: every log down to the backup's is taken.
WantedAlways(set) == TRUE

\* Logs newer than the one with the target are passed over.
Wanted(set) == goal.type = "transaction" => set # Empty

Taken(i) == Append(chosen, i)

PassOver(i) == i - 1

setBinlogs ==
    /\ ppc = "scan" /\ at > 0
    /\ LET set == IF goal.type = "transaction" /\ goal.arg \in Log(at)
                  THEN getExtendGTIDSet(at) ELSE gtidSet
       IN  IF ~logs[at].set
           THEN at' = PassOver(at) /\ UNCHANGED <<chosen, gtidSet>>
           ELSE /\ gtidSet' = set
                /\ chosen' = IF Wanted(set) THEN Taken(at) ELSE chosen
                /\ at' = IF Wanted(set) /\ Log(at) \intersect (1..base) # {}
                         THEN 0 ELSE at - 1
    /\ UNCHANGED <<fixed, ppc, executed, reader, again>>

\* The end of the loop: an empty list is an error, otherwise it is reversed.
ScanEnds ==
    /\ ppc = "scan" /\ at = 0
    /\ ppc' = IF chosen = <<>> THEN "refused" ELSE "replay"
    /\ chosen' = Reverse(chosen) /\ at' = 1 /\ reader' = TRUE
    /\ UNCHANGED <<fixed, gtidSet, executed, again>>

-----------------------------------------------------------------------------
\* recover.

\* mysqlbinlog with recoverFlag.
Excluded(t) ==
    CASE goal.type = "skip"        -> t = goal.arg
      [] goal.type = "transaction" -> gtidSet[1] <= t /\ t <= gtidSet[2]
      [] goal.type = "date"        -> t >= goal.arg
      [] OTHER                     -> FALSE

\* A log that begins after the date ends the replay.
PastDate == goal.type = "date" /\ logs[chosen[at]].lo > goal.arg
ToDo     == {t \in Log(chosen[at]) \ executed : ~Excluded(t)}

\* The client executes the next transaction,
Execute ==
    /\ ppc = "replay" /\ at <= Len(chosen) /\ reader /\ ~PastDate /\ ToDo # {}
    /\ executed' = executed \union {CHOOSE t \in ToDo : \A u \in ToDo : t <= u}
    /\ UNCHANGED <<fixed, ppc, at, chosen, gtidSet, reader, again>>

\* cmd.Run returns and the loop goes to the next log.
NextLog ==
    /\ ppc = "replay" /\ at <= Len(chosen) /\ reader /\ ~PastDate /\ ToDo = {}
    /\ at' = at + 1
    /\ UNCHANGED <<fixed, ppc, chosen, gtidSet, executed, reader, again>>

\* mysqlCmd.Wait, after the last log.
Finish ==
    /\ ppc = "replay" /\ reader /\ (IF at <= Len(chosen) THEN PastDate ELSE TRUE)
    /\ ppc' = "done"
    /\ UNCHANGED <<fixed, at, chosen, gtidSet, executed, reader, again>>

\* The client ends before its input does (a statement failed).  Nobody reads
\* the pipe any more: what mysqlbinlog writes next blocks, cmd.Run does not
\* return, mysqlCmd.Wait is not reached.
ClientDies ==
    /\ ppc = "replay" /\ reader /\ again > 0
    /\ reader' = FALSE /\ again' = again - 1
    /\ ppc' = IF at <= Len(chosen) /\ ~PastDate /\ ToDo # {} THEN "hung" ELSE "refused"
    /\ UNCHANGED <<fixed, at, chosen, gtidSet, executed>>

\* The pod fails; the Job starts another, which begins from nothing.
PodAgain ==
    /\ ppc \in {"scan", "replay"} /\ again > 0 /\ again' = again - 1
    /\ ppc' = "scan" /\ at' = Len(logs) /\ chosen' = <<>> /\ gtidSet' = Empty
    /\ reader' = TRUE
    /\ UNCHANGED <<fixed, executed>>

RecovererStep == setBinlogs \/ ScanEnds \/ Execute \/ NextLog \/ Finish
RecovererNext == RecovererStep \/ ClientDies \/ PodAgain
RecovererSpec == RecovererInit /\ [][RecovererNext]_pvars

-----------------------------------------------------------------------------
\* The reference: the backup, and of the stored transactions those that the
\* goal asks for.
Stored == UNION {Log(i) : i \in DOMAIN logs}
Expected ==
    (1..base) \union
    {t \in Stored : CASE goal.type = "latest"      -> TRUE
                      [] goal.type = "skip"        -> t # goal.arg
                      [] goal.type = "date"        -> t < goal.arg
                      [] OTHER                     -> t < goal.arg}

\* Two logs hold the target: the older one, met later, resets the interval to
\* its own shorter end.
TargetTwice ==
    goal.type = "transaction" /\ Cardinality({i \in DOMAIN logs : logs[i].set /\ goal.arg \in Log(i)}) > 1
SetsComplete == \A i \in DOMAIN logs : logs[i].set

\* The choice ends at the first log, from the newest on, that has a transaction
\* of the backup.  One that lies within an older log ends it too early: what
\* only the older one holds is left out.
CutShort ==
    \E i \in DOMAIN logs :
      /\ Log(i) \intersect (1..base) # {}
      /\ \E t \in Stored \ (1..base) : \A j \in i..Len(logs) : t \notin Log(j)

\* A recovery that reports success has produced exactly the reference, however
\* the logs overlap and whatever the attempts before, when every log has its
\* gtid-set object, the target lies in one log only and the choice is not cut
\* short.
RecoversExactly ==
    ppc = "done" /\ SetsComplete /\ ~TargetTwice /\ ~CutShort => executed = Expected

\* At no moment, failed attempts and missing gtid-set objects included, does
\* the database hold a transaction from beyond the target.
NeverBeyond ==
    ~TargetTwice => executed \subseteq Expected

\* A recovery ends, in success or in an error, unless the mysql client ended
\* while there was more to write.
RecoveryEnded ==
    ppc \in {"done", "refused"} \/ ~reader
=============================================================================
