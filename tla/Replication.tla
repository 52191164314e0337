----------------------------- MODULE Replication -----------------------------
(***************************************************************************)
(* A cluster that replicates from another one: reconcileReplication        *)
(* (pkg/controller/pxc/replication.go), a step of every pass whose errors  *)
(* are only logged, and the statements it sends (pkg/pxc/queries).         *)
(*                                                                         *)
(* One channel is modelled.  Its list of sources and its configuration are *)
(* numbers; 0 is an empty list, Part a list that is neither the old nor    *)
(* the new one.  Servers start with skip_replica_start and without         *)
(* read_only (build/pxc-entrypoint.sh).  Whether the table of the sources  *)
(* is a server's own or the cluster's is left open.                        *)
(***************************************************************************)
EXTENDS Naturals

CONSTANTS RPods,       \* the PXC pods
          MaxOrders,   \* edits of the channel, changes of the password
          MaxMoves,    \* changes of the primary, pods that fail
          MaxSlips     \* failed calls, restarts of the operator, broken links

ASSUME SomePod == RPods # {}

VARIABLES shared,    \* is the table of the sources the cluster's?
          channel,   \* spec.pxc.replicationChannels: role, list, configuration
          applied,   \* the configuration in the CR's status
          primary,   \* the pod the proxy writes to
          ready,     \* per pod
          label,     \* per pod: percona.com/replicationPod
          readonly,  \* per pod: read_only
          replica,   \* per pod: off, on, connecting, half (only the IO thread)
          failed,    \* the pods whose server has an error of its SQL thread noted
          setting,   \* per pod: the list and configuration its channel has
          sources,   \* per pod: what the table of the sources holds
          rpc,       \* the pass
          rp,        \* what it has read: channel, pods, labels, primary, flag
          newPass,   \* has the replication password changed?
          orders, moves, slips,
          strange    \* what has happened that the pass does not repair

cvars == <<shared, channel, applied, primary, ready, label, readonly, replica,
           failed, setting, sources, rpc, rp, newPass, orders, moves, slips,
           strange>>
rworld   == <<shared, primary, ready, failed>>
rbudget  == <<orders, moves, slips>>

Part     == 3
Lists    == 1..2
Configs  == 1..2
\* A list of channels whose first one is a source is treated like none.
Channels == [role : {"none", "replica"}, list : Lists, config : Configs]
NoSetting == [list |-> 0, config |-> 0]
NoChannel == [role |-> "none", list |-> 1, config |-> 1]
NoPass   == [channel |-> NoChannel, listed |-> {}, labelled |-> {},
             primary |-> CHOOSE p \in RPods : TRUE, flag |-> FALSE]

ReplicationTypeOK ==
    /\ channel \in Channels /\ applied \in 0..2 /\ primary \in RPods
    /\ ready \in [RPods -> BOOLEAN] /\ label \in [RPods -> BOOLEAN]
    /\ readonly \in [RPods -> BOOLEAN]
    /\ replica \in [RPods -> {"off", "on", "connecting", "half"}]
    /\ failed \subseteq RPods
    /\ setting \in [RPods -> [list : 0..Part, config : 0..2]]
    /\ sources \in [RPods -> 0..Part]
    /\ rpc \in {"idle", "outdated", "drop", "readonly", "labels", "others", "label",
                "password", "manage", "stop", "delete", "add", "start", "status"}
    /\ rp \in [channel : Channels, listed : SUBSET RPods, labelled : SUBSET RPods,
               primary : RPods, flag : BOOLEAN]
    /\ newPass \in BOOLEAN
    /\ strange \subseteq {"unready", "orphaned", "swallowed", "half", "busy", "failed"}

ReplicationInit ==
    /\ shared \in BOOLEAN
    /\ channel = NoChannel /\ applied = 0
    /\ primary = NoPass.primary
    /\ ready = [p \in RPods |-> TRUE] /\ label = [p \in RPods |-> FALSE]
    /\ readonly = label /\ replica = [p \in RPods |-> "off"]
    /\ failed = {}
    /\ setting = [p \in RPods |-> NoSetting] /\ sources = [p \in RPods |-> 0]
    /\ rpc = "idle" /\ rp = NoPass /\ newPass = FALSE
    /\ orders = MaxOrders /\ moves = MaxMoves /\ slips = MaxSlips
    /\ strange = {}

\* A write to the table of the sources.
Table(p, list) == [q \in RPods |-> IF shared \/ q = p THEN list ELSE sources[q]]
Note(what, when) == strange' = IF when THEN strange \union {what} ELSE strange
P == rp.primary
\* Is there a channel in the pod's table?
CurrentReplicationChannels(p) == sources[p] # 0
\* The host behind the proxy's connection.
GetPrimaryPod == primary
Replica == rp.channel.role = "replica"

-----------------------------------------------------------------------------
\* The pass.

\* The ready pods with their labels, then the primary; without a ready primary
\* there is nothing to do.  A pod that replicates although it is not ready is
\* not seen ("unready").  The flag is the result of reconcileUsers in the
\* same pass: a pass that ends here, or earlier, has lost it.
BeginReplication ==
    /\ rpc = "idle"
    /\ LET listed == {p \in RPods : ready[p]}
       IN  IF GetPrimaryPod \in listed
           THEN /\ rpc' = "outdated"
                /\ rp' = [channel |-> channel, listed |-> listed,
                          labelled |-> {p \in listed : label[p]},
                          primary |-> GetPrimaryPod, flag |-> newPass]
                /\ Note("unready", \E p \in RPods \ listed : replica[p] # "off")
           ELSE UNCHANGED <<rpc, rp, strange>>
    /\ newPass' = FALSE
    /\ UNCHANGED <<channel, applied, rworld, label, readonly, replica, setting,
                   sources, rbudget>>

\* removeOutdatedChannels, on the primary: stop the channel (one that does not
\* exist is no error), then delete its sources.
removeOutdatedChannels ==
    /\ \/ /\ rpc = "outdated"
          /\ IF ~CurrentReplicationChannels(P) \/ Replica
             THEN rpc' = "readonly" /\ UNCHANGED replica
             ELSE /\ ready[P] /\ rpc' = "drop"
                  /\ replica' = [replica EXCEPT ![P] = "off"]
          /\ UNCHANGED sources
       \/ /\ rpc = "drop" /\ ready[P]
          /\ rpc' = "readonly" /\ sources' = Table(P, 0) /\ UNCHANGED replica
    /\ UNCHANGED <<channel, applied, rworld, label, readonly, setting, rp,
                   newPass, rbudget, strange>>

\* checkReadonlyStatus, one pod after the other.
checkReadonlyStatus ==
    /\ rpc = "readonly" /\ \A p \in rp.listed : ready[p]
    /\ readonly' = [p \in RPods |-> IF p \in rp.listed THEN Replica ELSE readonly[p]]
    /\ rpc' = IF Replica THEN "others" ELSE "labels"
    /\ UNCHANGED <<channel, applied, rworld, label, replica, setting, sources,
                   rp, newPass, rbudget, strange>>

\* deleteReplicaLabels; that is all for a cluster that is no replica.  A pod
\* other than the primary that still replicates is not stopped.
deleteReplicaLabels ==
    /\ rpc = "labels" /\ rpc' = "idle" /\ rp' = NoPass
    /\ label' = [p \in RPods |-> label[p] /\ p \notin rp.labelled]
    /\ Note("orphaned", \E p \in RPods : replica[p] # "off")
    /\ UNCHANGED <<channel, applied, rworld, readonly, replica, setting,
                   sources, newPass, rbudget>>

\* A mutant: only the label goes.
StoppedNot(p) == replica

\* StopAllReplication on a pod.
Stopped(p) == [replica EXCEPT ![p] = "off"]

\* The other pods that carry the label: stop, then take the label away.
StopOthers ==
    /\ rpc = "others"
    /\ IF rp.labelled \ {P} = {}
       THEN rpc' = "label" /\ UNCHANGED <<replica, label, rp>>
       ELSE \E p \in rp.labelled \ {P} :
              /\ ready[p] /\ replica' = Stopped(p)
              /\ label' = [label EXCEPT ![p] = FALSE]
              /\ rp' = [rp EXCEPT !.labelled = @ \ {p}] /\ UNCHANGED rpc
    /\ UNCHANGED <<channel, applied, rworld, readonly, setting, sources,
                   newPass, rbudget, strange>>

LabelPrimary ==
    /\ rpc = "label"
    /\ label' = [label EXCEPT ![P] = TRUE]
    /\ rpc' = IF rp.flag THEN "password" ELSE "manage"
    /\ UNCHANGED <<channel, applied, rworld, readonly, replica, setting,
                   sources, rp, newPass, rbudget, strange>>

\* ChangeChannelPassword: the IO thread is stopped, and started with the new
\* password.  A channel that was off is then half running.
ChangeChannelPassword(p) == [replica EXCEPT ![p] = IF @ = "off" THEN "half" ELSE @]

\* handleReplicaPasswordChange, for each channel in the table; one that the
\* server does not know is an error.
handleReplicaPasswordChange ==
    /\ rpc = "password" /\ ready[P]
    /\ \/ /\ ~CurrentReplicationChannels(P)
          /\ rpc' = "manage" /\ UNCHANGED <<replica, rp>>
       \/ /\ CurrentReplicationChannels(P) /\ setting[P] = NoSetting
          /\ rpc' = "idle" /\ rp' = NoPass /\ UNCHANGED replica
       \/ /\ CurrentReplicationChannels(P) /\ setting[P] # NoSetting
          /\ rpc' = "manage" /\ replica' = ChangeChannelPassword(P) /\ UNCHANGED rp
    /\ Note("half", replica[P] = "off" /\ replica'[P] = "half")
    /\ UNCHANGED <<channel, applied, rworld, label, readonly, setting, sources,
                   newPass, rbudget>>

\* ReplicationStatus: a channel that is off but has an error noted is in error.
Status(p) == IF replica[p] = "on" THEN "active"
             ELSE IF replica[p] = "off" /\ p \notin failed THEN "notInitiated"
             ELSE "error"

\* manageReplicationChannel: nothing to do?
UpToDate ==
    /\ sources[P] = rp.channel.list
    /\ Status(P) = "active" /\ rp.channel.config = applied

\* manageReplicationChannel: what it reads and decides.  A channel in error
\* whose sources are as they should be is left alone, and its configuration
\* recorded as applied ("swallowed"); one whose sources have changed gets them,
\* but it is not stopped first, and StartReplication will fail ("busy").
manageReplicationChannel ==
    /\ rpc = "manage" /\ ready[P]
    /\ LET swallow == sources[P] = rp.channel.list /\ Status(P) = "error"
       IN  /\ IF swallow \/ UpToDate
              THEN rpc' = "status"
              ELSE rpc' = IF Status(P) = "active" THEN "stop" ELSE "delete"
           /\ Note(IF swallow THEN "swallowed" ELSE "busy",
                   /\ Status(P) = "error"
                   /\ setting[P] # [list |-> rp.channel.list, config |-> rp.channel.config])
    /\ UNCHANGED <<channel, applied, rworld, label, readonly, replica, setting,
                   sources, rp, newPass, rbudget>>

StopChannel ==
    /\ rpc = "stop" /\ ready[P]
    /\ replica' = Stopped(P) /\ rpc' = "delete"
    /\ UNCHANGED <<channel, applied, rworld, label, readonly, setting, sources,
                   rp, newPass, rbudget, strange>>

\* The sources: the old ones are deleted one by one, the new ones added.
SetSources ==
    /\ rpc \in {"delete", "add"} /\ ready[P]
    /\ IF rpc = "delete" THEN rpc' = "add" /\ sources' = Table(P, 0)
                         ELSE rpc' = "start" /\ sources' = Table(P, rp.channel.list)
    /\ UNCHANGED <<channel, applied, rworld, label, readonly, replica, setting,
                   rp, newPass, rbudget, strange>>

\* StartReplication.  CHANGE REPLICATION SOURCE is refused while a thread runs;
\* START REPLICA clears the error.
StartReplication ==
    /\ rpc = "start" /\ ready[P]
    /\ IF replica[P] = "off"
       THEN /\ setting' = [setting EXCEPT ![P] = [list |-> rp.channel.list,
                                                  config |-> rp.channel.config]]
            /\ replica' = [replica EXCEPT ![P] = "on"] /\ failed' = failed \ {P}
            /\ rpc' = "status" /\ UNCHANGED rp
       ELSE /\ rpc' = "idle" /\ rp' = NoPass
            /\ UNCHANGED <<setting, replica, failed>>
    /\ UNCHANGED <<channel, applied, shared, primary, ready, label, readonly,
                   sources, newPass, rbudget, strange>>

\* setReplicationChannelStatus and updateStatus.
setReplicationChannelStatus ==
    /\ rpc = "status" /\ rpc' = "idle" /\ rp' = NoPass
    /\ applied' = rp.channel.config
    /\ UNCHANGED <<channel, rworld, label, readonly, replica, setting, sources,
                   newPass, rbudget, strange>>

\* A call fails, or the operator restarts; the pods of the loops that were
\* done before stay done, a list of sources may be left in part.
FailReplication ==
    /\ rpc # "idle" /\ slips > 0 /\ slips' = slips - 1
    /\ rpc' = "idle" /\ rp' = NoPass
    /\ \/ UNCHANGED <<sources, readonly, label, replica>>
       \/ /\ rpc \in {"delete", "add"} /\ sources' = Table(P, Part)
          /\ UNCHANGED <<readonly, label, replica>>
       \/ /\ rpc = "readonly" /\ \E p \in rp.listed : readonly' = [readonly EXCEPT ![p] = Replica]
          /\ UNCHANGED <<sources, label, replica>>
       \/ /\ rpc = "others" /\ \E p \in rp.labelled \ {P} : ready[p] /\ replica' = Stopped(p)
          /\ UNCHANGED <<sources, readonly, label>>
    /\ UNCHANGED <<channel, applied, rworld, setting, newPass, orders, moves,
                   strange>>

\* A step that needs a pod that is gone fails as well.
PodGone ==
    /\ rpc \notin {"idle", "labels", "label", "status"}
    /\ ~ready[P] \/ (rpc \in {"readonly", "others"} /\ \E p \in rp.listed : ~ready[p])
    /\ rpc' = "idle" /\ rp' = NoPass
    /\ UNCHANGED <<channel, applied, rworld, label, readonly, replica, setting,
                   sources, newPass, rbudget, strange>>

-----------------------------------------------------------------------------
\* The pods.

MovePrimary ==
    /\ \E p \in RPods \ {primary} : ready[p] /\ primary' = p
    /\ IF ready[primary] THEN moves > 0 /\ moves' = moves - 1 ELSE UNCHANGED moves
    /\ UNCHANGED <<shared, channel, applied, ready, label, readonly, replica,
                   failed, setting, sources, rpc, rp, newPass, orders, slips, strange>>

\* A pod stops being ready with its server running, or restarts, or is created
\* anew without its label.
PodFails(p) ==
    /\ ready[p] /\ moves > 0 /\ moves' = moves - 1
    /\ ready' = [ready EXCEPT ![p] = FALSE]
    /\ \/ UNCHANGED <<replica, readonly, label, failed>>
       \/ /\ replica' = Stopped(p) /\ failed' = failed \ {p}
          /\ readonly' = [readonly EXCEPT ![p] = FALSE]
          /\ label' \in {label, [label EXCEPT ![p] = FALSE]}
    /\ UNCHANGED <<shared, channel, applied, primary, setting, sources, rpc, rp,
                   newPass, orders, slips, strange>>

\* A pass is over before a pod it has talked to is back.
PodReturns(p) ==
    /\ ~ready[p] /\ p \notin rp.listed /\ ready' = [ready EXCEPT ![p] = TRUE]
    /\ UNCHANGED <<shared, channel, applied, primary, label, readonly, replica,
                   failed, setting, sources, rpc, rp, newPass, rbudget, strange>>

\* The source cannot be reached for a while.
LinkBreaks(p) ==
    /\ replica[p] = "on" /\ slips > 0 /\ slips' = slips - 1
    /\ replica' = [replica EXCEPT ![p] = "connecting"]
    /\ UNCHANGED <<channel, applied, rworld, label, readonly, setting, sources,
                   rpc, rp, newPass, orders, moves, strange>>

\* The SQL thread cannot apply an event, and stops with an error; the IO thread
\* runs on.  Nothing the pass does repairs that.
ApplyFails(p) ==
    /\ replica[p] = "on" /\ slips > 0 /\ slips' = slips - 1
    /\ replica' = [replica EXCEPT ![p] = "half"]
    /\ failed' = failed \union {p} /\ Note("failed", TRUE)
    /\ UNCHANGED <<channel, applied, shared, primary, ready, label, readonly,
                   setting, sources, rpc, rp, newPass, orders, moves>>

LinkReturns(p) ==
    /\ replica[p] = "connecting" /\ replica' = [replica EXCEPT ![p] = "on"]
    /\ UNCHANGED <<channel, applied, rworld, label, readonly, setting, sources,
                   rpc, rp, newPass, rbudget, strange>>

\* The user.
EditChannel ==
    /\ orders > 0 /\ orders' = orders - 1
    /\ \E f \in {"role", "list", "config"} : \E c \in Channels \ {channel} :
         /\ \A g \in DOMAIN c \ {f} : c[g] = channel[g]
         /\ f = "role" \/ channel.role = "replica"
         /\ channel' = c
    /\ UNCHANGED <<applied, rworld, label, readonly, replica, setting, sources,
                   rpc, rp, newPass, moves, slips, strange>>

ChangePassword ==
    /\ orders > 0 /\ orders' = orders - 1
    /\ ~newPass /\ newPass' = TRUE
    /\ UNCHANGED <<channel, applied, rworld, label, readonly, replica, setting,
                   sources, rpc, rp, moves, slips, strange>>

ReplicationPass ==
    \/ BeginReplication \/ removeOutdatedChannels \/ checkReadonlyStatus
    \/ deleteReplicaLabels \/ StopOthers \/ LabelPrimary
    \/ handleReplicaPasswordChange \/ manageReplicationChannel \/ StopChannel
    \/ SetSources \/ StartReplication \/ setReplicationChannelStatus \/ PodGone
ReplicaPod(p) == PodReturns(p) \/ LinkReturns(p)
ReplicationNext ==
    \/ ReplicationPass \/ FailReplication \/ MovePrimary \/ EditChannel \/ ChangePassword
    \/ \E p \in RPods : ReplicaPod(p) \/ PodFails(p) \/ LinkBreaks(p) \/ ApplyFails(p)
ReplicationSpec == ReplicationInit /\ [][ReplicationNext]_cvars

-----------------------------------------------------------------------------
\* Two nodes of the cluster never replicate the channel at the same time,
\* however often the primary moves and wherever a pass ends: the label is set
\* before a pod starts and leaves it after the pod has stopped.  The exceptions
\* are a pod that replicates while it is not ready, which a pass does not see,
\* and one whose label was deleted with the channel; and the change of a
\* password may start the IO thread of a channel that was off.
OneReplica ==
    strange \intersect {"unready", "orphaned", "half"} = {} =>
        \A p, q \in RPods : replica[p] # "off" /\ replica[q] # "off" => p = q

\* In the end the cluster is what its channel says: no replica and writable,
\* or read-only with the primary, and nobody else, replicating from the
\* sources and with the configuration of the spec.  The exceptions: the two
\* above; a channel that was in error when its sources or configuration
\* changed ("swallowed", "busy"); one that only half started ("half"); and one
\* whose SQL thread has failed ("failed"): its error stays noted when the thread
\* is stopped, and a pod with such a note is never started again.
ChannelSettled ==
    strange = {} =>
      /\ \A p \in RPods : readonly[p] = (channel.role = "replica")
      /\ \A p \in RPods : replica[p] # "off" <=> (channel.role = "replica" /\ p = primary)
      /\ channel.role = "replica" =>
           setting[primary] = [list |-> channel.list, config |-> channel.config]
ChannelSettles == <>[]ChannelSettled
=============================================================================
