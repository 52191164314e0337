--------------------------- MODULE DeletionProofs ----------------------------
(***************************************************************************)
(* Safety of three more parts of the cluster controller, for any number of *)
(* pods and of faults: the choice of the node that replicates from another *)
(* site, the finalizers of a deleted cluster, and the StatefulSet that is  *)
(* deleted when its volumes have been resized.                             *)
(***************************************************************************)
EXTENDS Replication, ClusterDeletion, VolumeExpansion, FiniteSetTheorems, TLAPS

-----------------------------------------------------------------------------
(***************************************************************************)
(* Replication between sites.                                              *)
(***************************************************************************)

Replicates(p) == replica[p] # "off"
Expected == strange \intersect {"unready", "orphaned", "half"} = {}

\* What the pass knows at each of its places: before it has stopped the others
\* every pod that replicates is among those it has seen with the label, and
\* from then on no pod but its primary replicates.
PassKnows ==
    /\ rpc \in {"outdated", "drop", "readonly", "labels", "others"} =>
         \A q \in RPods : q # P /\ Replicates(q) => q \in rp.labelled
    /\ rpc \in {"label", "password", "manage", "stop", "delete", "add", "start", "status"} =>
         \A q \in RPods : q # P => ~Replicates(q)
    /\ rpc \in {"password", "manage", "stop", "delete", "add", "start", "status"} =>
         (ready[P] => label[P])
    /\ rpc # "idle" => P \in rp.listed

ReplicaInv ==
    /\ ReplicationTypeOK
    /\ Expected => /\ \A p, q \in RPods : Replicates(p) /\ Replicates(q) => p = q
                   /\ \A p \in RPods : Replicates(p) => label[p]
                   /\ PassKnows

\* The record of a pass that is not running has its type.
LEMMA NoPassIsWellFormed ==
    NoPass \in [channel : Channels, listed : SUBSET RPods, labelled : SUBSET RPods,
                primary : RPods, flag : BOOLEAN]
  <1>1. NoChannel \in Channels
    BY DEF NoChannel, Channels, Lists, Configs
  <1>2. (CHOOSE p \in RPods : TRUE) \in RPods
    BY Zenon, SomePod
  <1> QED BY Zenon, <1>1, <1>2 DEF NoPass

\* The invariant holds at first,
LEMMA ReplicaStart == ReplicationInit => ReplicaInv
  <1> SUFFICES ASSUME ReplicationInit PROVE ReplicaInv
    OBVIOUS
  <1>1. NoPass.primary \in RPods
    BY Zenon, NoPassIsWellFormed
  <1>2. ReplicationTypeOK
    <2>1. channel \in Channels
      BY DEF ReplicationInit, NoChannel, Channels, Lists, Configs
    <2>2. setting \in [RPods -> [list : 0..Part, config : 0..2]]
      BY DEF ReplicationInit, NoSetting, Part
    <2>3. applied \in 0..2 /\ primary \in RPods /\ sources \in [RPods -> 0..Part]
      BY <1>1 DEF ReplicationInit, Part
    <2> QED BY Zenon, <2>1, <2>2, <2>3, NoPassIsWellFormed DEF ReplicationInit,
         ReplicationTypeOK
  <1> QED BY Zenon, <1>2 DEF ReplicationInit, ReplicaInv, Replicates, PassKnows

\* every step keeps the types,
LEMMA ReplicaType ==
    ASSUME ReplicationTypeOK, [ReplicationNext]_cvars
    PROVE  ReplicationTypeOK'
  <1> USE DEF ReplicationTypeOK, rworld
  <1> DEFINE Places ==
               {"idle", "outdated", "drop", "readonly", "labels", "others", "label",
                "password", "manage", "stop", "delete", "add", "start", "status"}
             Passes == [channel : Channels, listed : SUBSET RPods,
                        labelled : SUBSET RPods, primary : RPods, flag : BOOLEAN]
             Oddities == {"unready", "orphaned", "swallowed", "half", "busy", "failed"}
  <1>0. P \in RPods /\ rp.labelled \subseteq RPods /\ rp.channel.list \in 1..2
        /\ rp.channel.config \in 1..2
    BY Zenon DEF P, Channels, Lists, Configs
  <1>a. \A l \in 0..Part : Table(P, l) \in [RPods -> 0..Part]
    BY Zenon DEF Table
  <1>1. CASE BeginReplication
    <2> DEFINE listed == {p \in RPods : ready[p]}
               read == [channel |-> channel, listed |-> listed,
                        labelled |-> {p \in listed : label[p]},
                        primary |-> primary, flag |-> newPass]
    <2>0. read \in Passes
      <3>1. listed \in SUBSET RPods /\ {p \in listed : label[p]} \in SUBSET RPods
        OBVIOUS
      <3> HIDE DEF listed
      <3> QED BY Zenon, <3>1
    <2>1. rp' \in Passes
      <3>1. rp' = read \/ rp' = rp
        BY Zenon, <1>1 DEF BeginReplication, GetPrimaryPod
      <3> HIDE DEF read
      <3> QED BY Zenon, <2>0, <3>1
    <2>2. rpc' \in Places /\ newPass' \in BOOLEAN /\ strange' \subseteq Oddities
      BY Zenon, <1>1 DEF BeginReplication, Note
    <2>3. UNCHANGED <<channel, applied, primary, ready, failed, label, readonly, replica,
                      setting, sources>>
      BY Zenon, <1>1 DEF BeginReplication
    <2> QED BY Zenon, <2>1, <2>2, <2>3
  <1>2. CASE removeOutdatedChannels
    <2>1. replica' \in [RPods -> {"off", "on", "connecting", "half"}] /\ rpc' \in Places
      BY Zenon, <1>0, <1>2 DEF removeOutdatedChannels
    <2>2. sources' \in [RPods -> 0..Part]
      BY <1>a, <1>2 DEF removeOutdatedChannels, Part
    <2>3. UNCHANGED <<channel, applied, primary, ready, failed, label, readonly, setting, rp,
                      newPass, strange>>
      BY Zenon, <1>2 DEF removeOutdatedChannels
    <2> QED BY Zenon, <2>1, <2>2, <2>3
  <1>3. CASE checkReadonlyStatus
    <2>1. readonly' \in [RPods -> BOOLEAN]
      BY Zenon, <1>3 DEF checkReadonlyStatus, Replica
    <2>2. rpc' \in Places
      BY Zenon, <1>3 DEF checkReadonlyStatus
    <2>3. UNCHANGED <<channel, applied, primary, ready, failed, label, replica, setting, sources,
                      rp, newPass, strange>>
      BY Zenon, <1>3 DEF checkReadonlyStatus
    <2> QED BY Zenon, <2>1, <2>2, <2>3
  <1>4. CASE deleteReplicaLabels
    <2>1. label' \in [RPods -> BOOLEAN]
      BY Zenon, <1>4 DEF deleteReplicaLabels
    <2>2. rpc' \in Places /\ rp' \in Passes /\ strange' \subseteq Oddities
      BY Zenon, <1>4, NoPassIsWellFormed DEF deleteReplicaLabels, Note
    <2>3. UNCHANGED <<channel, applied, primary, ready, failed, readonly, replica, setting,
                      sources, newPass>>
      BY Zenon, <1>4 DEF deleteReplicaLabels
    <2> QED BY Zenon, <2>1, <2>2, <2>3
  <1>5. CASE StopOthers
    <2>1. replica' \in [RPods -> {"off", "on", "connecting", "half"}]
      BY Zenon, <1>0, <1>5 DEF StopOthers, Stopped
    <2>5. label' \in [RPods -> BOOLEAN]
      BY Zenon, <1>0, <1>5 DEF StopOthers
    <2>2. rp' \in Passes
      BY <1>5 DEF StopOthers
    <2>3. rpc' \in Places
      BY Zenon, <1>5 DEF StopOthers
    <2>4. UNCHANGED <<channel, applied, primary, ready, failed, readonly, setting, sources,
                      newPass, strange>>
      BY Zenon, <1>5 DEF StopOthers
    <2> QED BY Zenon, <2>1, <2>2, <2>3, <2>4, <2>5
  <1>6. CASE LabelPrimary
    <2>1. label' \in [RPods -> BOOLEAN] /\ rpc' \in Places
      BY Zenon, <1>0, <1>6 DEF LabelPrimary
    <2>2. UNCHANGED <<channel, applied, primary, ready, failed, readonly, replica, setting,
                      sources, rp, newPass, strange>>
      BY Zenon, <1>6 DEF LabelPrimary
    <2> QED BY Zenon, <2>1, <2>2
  <1>7. CASE handleReplicaPasswordChange
    <2>1. replica' \in [RPods -> {"off", "on", "connecting", "half"}]
      BY <1>0, <1>7 DEF handleReplicaPasswordChange, ChangeChannelPassword
    <2>2. rpc' \in Places /\ rp' \in Passes /\ strange' \subseteq Oddities
      BY Zenon, <1>7, NoPassIsWellFormed DEF handleReplicaPasswordChange, Note
    <2>3. UNCHANGED <<channel, applied, primary, ready, failed, label, readonly, setting,
                      sources, newPass>>
      BY Zenon, <1>7 DEF handleReplicaPasswordChange
    <2> QED BY Zenon, <2>1, <2>2, <2>3
  <1>8. CASE manageReplicationChannel
    <2>1. rpc' \in Places /\ strange' \subseteq Oddities
      BY Zenon, <1>8 DEF manageReplicationChannel, Note
    <2>2. UNCHANGED <<channel, applied, primary, ready, failed, label, readonly, replica,
                      setting, sources, rp, newPass>>
      BY Zenon, <1>8 DEF manageReplicationChannel
    <2> QED BY Zenon, <2>1, <2>2
  <1>9. CASE StopChannel \/ SetSources
    <2>1. /\ replica' \in [RPods -> {"off", "on", "connecting", "half"}]
          /\ rpc' \in Places
      BY Zenon, <1>0, <1>9 DEF StopChannel, SetSources, Stopped
    <2>2. sources' \in [RPods -> 0..Part]
      BY <1>0, <1>a, <1>9 DEF StopChannel, SetSources, Part
    <2>3. UNCHANGED <<channel, applied, primary, ready, failed, label, readonly, setting, rp,
                      newPass, strange>>
      BY Zenon, <1>9 DEF StopChannel, SetSources
    <2> QED BY Zenon, <2>1, <2>2, <2>3
  <1>10. CASE StartReplication
    <2>0. [list |-> rp.channel.list, config |-> rp.channel.config]
            \in [list : 0..Part, config : 0..2]
      BY <1>0 DEF Part
    <2>1. replica' \in [RPods -> {"off", "on", "connecting", "half"}]
      BY Zenon, <1>0, <1>10 DEF StartReplication
    <2>4. setting' \in [RPods -> [list : 0..Part, config : 0..2]]
      <3> DEFINE new == [list |-> rp.channel.list, config |-> rp.channel.config]
      <3>1. setting' = [setting EXCEPT ![P] = new] \/ setting' = setting
        BY Zenon, <1>10 DEF StartReplication
      <3>2. new \in [list : 0..Part, config : 0..2]
        BY Zenon, <2>0
      <3> HIDE DEF new
      <3> QED BY Zenon, <1>0, <3>1, <3>2
    <2>2. rpc' \in Places /\ rp' \in Passes /\ failed' \subseteq RPods
      BY Zenon, <1>10, NoPassIsWellFormed DEF StartReplication
    <2>3. UNCHANGED <<channel, applied, primary, ready, label, readonly, sources,
                      newPass, strange>>
      BY Zenon, <1>10 DEF StartReplication
    <2> QED BY Zenon, <2>1, <2>2, <2>3, <2>4
  <1>11. CASE setReplicationChannelStatus \/ PodGone
    <2>1. applied' \in 0..2 /\ rpc' \in Places /\ rp' \in Passes
      BY <1>0, <1>11, NoPassIsWellFormed DEF setReplicationChannelStatus,
           PodGone
    <2>2. UNCHANGED <<channel, primary, ready, failed, label, readonly, replica, setting,
                      sources, newPass, strange>>
      BY Zenon, <1>11 DEF setReplicationChannelStatus, PodGone
    <2> QED BY Zenon, <2>1, <2>2
  <1>12. CASE FailReplication
    <2>1. /\ replica' \in [RPods -> {"off", "on", "connecting", "half"}]
          /\ rpc' \in Places /\ rp' \in Passes
      BY <1>12, NoPassIsWellFormed DEF FailReplication, Stopped
    <2>2. sources' \in [RPods -> 0..Part]
      BY <1>a, <1>12 DEF FailReplication, Part
    <2>3. readonly' \in [RPods -> BOOLEAN]
      BY Zenon, <1>12 DEF FailReplication, Replica
    <2>4. UNCHANGED <<channel, applied, primary, ready, failed, setting, label, newPass, strange>>
      BY Zenon, <1>12 DEF FailReplication
    <2> QED BY Zenon, <2>1, <2>2, <2>3, <2>4
  <1>13. CASE MovePrimary
    BY Zenon, <1>13 DEF MovePrimary
  <1>14. CASE EditChannel \/ ChangePassword
    BY Zenon, <1>14 DEF EditChannel, ChangePassword
  <1>15. ASSUME NEW p \in RPods, PodFails(p) PROVE ReplicationTypeOK'
    <2>1. /\ ready' \in [RPods -> BOOLEAN] /\ label' \in [RPods -> BOOLEAN]
          /\ readonly' \in [RPods -> BOOLEAN] /\ failed' \subseteq RPods
      BY Zenon, <1>15 DEF PodFails
    <2>2. replica' \in [RPods -> {"off", "on", "connecting", "half"}]
      BY Zenon, <1>15 DEF PodFails, Stopped
    <2>3. UNCHANGED <<channel, applied, primary, setting, sources, rpc, rp, newPass,
                      strange>>
      BY Zenon, <1>15 DEF PodFails
    <2> QED BY Zenon, <2>1, <2>2, <2>3
  <1>16. ASSUME NEW p \in RPods, ReplicaPod(p) \/ LinkBreaks(p) \/ ApplyFails(p)
         PROVE  ReplicationTypeOK'
    <2>1. /\ ready' \in [RPods -> BOOLEAN] /\ failed' \subseteq RPods
          /\ strange' \subseteq Oddities
          /\ replica' \in [RPods -> {"off", "on", "connecting", "half"}]
      BY Zenon, <1>16 DEF ReplicaPod, PodReturns, LinkReturns, LinkBreaks,
           ApplyFails, Note
    <2>2. UNCHANGED <<channel, applied, primary, label, readonly, setting, sources, rpc,
                      rp, newPass>>
      BY Zenon, <1>16 DEF ReplicaPod, PodReturns, LinkReturns, LinkBreaks,
           ApplyFails, Note
    <2> QED BY Zenon, <2>1, <2>2
  <1>17. CASE UNCHANGED cvars
    BY Zenon, <1>17 DEF cvars
  <1> QED
    BY Zenon, <1>1, <1>2, <1>3, <1>4, <1>5, <1>6, <1>7, <1>8, <1>9, <1>10,
         <1>11, <1>12,
       <1>13, <1>14, <1>15, <1>16, <1>17 DEF ReplicationNext, ReplicationPass

\* and every step keeps it.
LEMMA ReplicaStep ==
    ASSUME ReplicaInv, [ReplicationNext]_cvars
    PROVE  ReplicaInv'
  <1>0. ReplicationTypeOK /\ ReplicationTypeOK'
    BY Zenon, ReplicaType DEF ReplicaInv
  <1>t. /\ ready \in [RPods -> BOOLEAN] /\ label \in [RPods -> BOOLEAN]
        /\ replica \in [RPods -> {"off", "on", "connecting", "half"}]
        /\ P \in RPods /\ rp.labelled \subseteq RPods
    BY Zenon, <1>0 DEF ReplicationTypeOK, P
  <1>a. strange \subseteq strange'
    BY Zenon DEF ReplicationNext, ReplicationPass, BeginReplication,
         removeOutdatedChannels,
       checkReadonlyStatus, deleteReplicaLabels, StopOthers, LabelPrimary,
       handleReplicaPasswordChange, manageReplicationChannel, StopChannel, SetSources,
       StartReplication, setReplicationChannelStatus, PodGone, FailReplication,
       MovePrimary, EditChannel, ChangePassword, ReplicaPod, PodReturns, LinkReturns,
       PodFails, LinkBreaks, ApplyFails, Note, cvars
  <1> SUFFICES ASSUME Expected'
               PROVE  /\ \A p, q \in RPods : Replicates(p)' /\ Replicates(q)' => p = q
                      /\ \A p \in RPods : Replicates(p)' => label'[p]
                      /\ PassKnows'
    BY Zenon, <1>0 DEF ReplicaInv
  <1>b. /\ \A p, q \in RPods : Replicates(p) /\ Replicates(q) => p = q
        /\ \A p \in RPods : Replicates(p) => label[p]
        /\ PassKnows
    BY Zenon, <1>a DEF ReplicaInv, Expected
  <1> USE DEF rworld
  <1>1. CASE BeginReplication
    <2>0. UNCHANGED <<ready, label, replica>>
      BY Zenon, <1>1 DEF BeginReplication
    <2>1. CASE ready[primary]
      <3>1. /\ rpc' = "outdated" /\ P' = primary
            /\ rp'.listed = {p \in RPods : ready[p]}
            /\ rp'.labelled = {p \in RPods : ready[p] /\ label[p]}
        BY <1>0, <1>1, <2>1 DEF BeginReplication, GetPrimaryPod, P,
             ReplicationTypeOK
      <3>2. \A p \in RPods : ~ready[p] => ~Replicates(p)
        BY Zenon, <1>0, <1>1, <2>1
        DEF BeginReplication, GetPrimaryPod, Note, Replicates, Expected, ReplicationTypeOK
      <3>3. P' \in rp'.listed
        BY Zenon, <1>0, <2>1, <3>1 DEF ReplicationTypeOK
      <3>4. PassKnows'
        BY Zenon, <1>b, <2>0, <3>1, <3>2, <3>3 DEF PassKnows, Replicates
      <3> QED BY Zenon, <1>b, <2>0, <3>4 DEF Replicates
    <2>2. CASE ~ready[primary]
      <3>1. UNCHANGED <<rpc, rp>>
        BY Zenon, <1>1, <2>2 DEF BeginReplication, GetPrimaryPod
      <3> QED BY Zenon, <1>b, <2>0, <3>1 DEF Replicates, PassKnows, P
    <2> QED BY Zenon, <2>1, <2>2
  <1>2. CASE removeOutdatedChannels
    <2>1. /\ UNCHANGED <<ready, label, rp, P>>
          /\ rpc \in {"outdated", "drop"} /\ rpc' \in {"drop", "readonly"}
          /\ \A q \in RPods : Replicates(q)' => Replicates(q)
      BY Zenon, <1>t, <1>2 DEF removeOutdatedChannels, Replicates, P
    <2> QED BY Zenon, <1>b, <2>1 DEF PassKnows
  <1>3. CASE checkReadonlyStatus
    <2>1. /\ UNCHANGED <<ready, label, rp, P, replica>>
          /\ rpc = "readonly" /\ rpc' \in {"labels", "others"}
      BY Zenon, <1>3 DEF checkReadonlyStatus, P
    <2> QED BY Zenon, <1>b, <2>1 DEF PassKnows, Replicates
  <1>4. CASE deleteReplicaLabels
    <2>1. rpc' = "idle" /\ \A p \in RPods : ~Replicates(p)'
      BY Zenon, <1>4 DEF deleteReplicaLabels, Note, Replicates, Expected
    <2> QED BY Zenon, <2>1 DEF PassKnows
  <1>5. CASE StopOthers /\ rp.labelled \ {P} = {}
    <2>1. /\ UNCHANGED <<ready, label, rp, P, replica>>
          /\ rpc = "others" /\ rpc' = "label"
      BY Zenon, <1>5 DEF StopOthers, P
    <2> QED BY Zenon, <1>b, <1>5, <2>1 DEF PassKnows, Replicates
  <1>6. CASE StopOthers /\ rp.labelled \ {P} # {}
    <2> PICK p \in rp.labelled \ {P} :
            /\ replica' = [replica EXCEPT ![p] = "off"]
            /\ label' = [label EXCEPT ![p] = FALSE]
            /\ rp' = [rp EXCEPT !.labelled = @ \ {p}]
      BY Zenon, <1>6 DEF StopOthers, Stopped
    <2>1. UNCHANGED ready /\ rpc = "others" /\ rpc' = "others"
      BY Zenon, <1>6 DEF StopOthers
    <2>2. P' = P /\ rp'.listed = rp.listed /\ rp'.labelled = rp.labelled \ {p}
      BY Zenon, <1>0 DEF P, ReplicationTypeOK
    <2>3. \A q \in RPods : /\ Replicates(q)' => q # p /\ Replicates(q)
                           /\ q # p => label'[q] = label[q]
      BY Zenon, <1>t DEF Replicates
    <2> QED BY Zenon, <1>b, <2>1, <2>2, <2>3 DEF PassKnows
  <1>7. CASE LabelPrimary
    <2>1. /\ UNCHANGED <<ready, rp, P, replica>> /\ rpc = "label"
          /\ rpc' \in {"password", "manage"} /\ label' = [label EXCEPT ![P] = TRUE]
      BY Zenon, <1>7 DEF LabelPrimary, P
    <2>2. label'[P] /\ \A q \in RPods : label[q] => label'[q]
      BY Zenon, <1>t, <2>1
    <2> QED BY Zenon, <1>b, <2>1, <2>2 DEF PassKnows, Replicates
  <1>8. CASE handleReplicaPasswordChange
    <2>1. UNCHANGED <<ready, label>> /\ rpc = "password"
      BY Zenon, <1>8 DEF handleReplicaPasswordChange
    <2>2. ~(replica[P] = "off" /\ replica'[P] = "half")
      BY Zenon, <1>8 DEF handleReplicaPasswordChange, Note, Expected
    <2>3. \A q \in RPods : Replicates(q)' => Replicates(q)
      BY Zenon, <1>t, <1>8, <2>2
      DEF handleReplicaPasswordChange, ChangeChannelPassword, Replicates
    <2>4. rpc' = "idle" \/ (rpc' = "manage" /\ UNCHANGED <<rp, P>>)
      BY Zenon, <1>8 DEF handleReplicaPasswordChange, P
    <2> QED BY Zenon, <1>b, <2>1, <2>3, <2>4 DEF PassKnows
  <1>9. CASE manageReplicationChannel \/ StopChannel \/ SetSources
    <2>1. /\ UNCHANGED <<ready, label, rp, P>> /\ rpc \in {"manage", "stop", "delete", "add"}
          /\ rpc' \in {"stop", "delete", "add", "start", "status"}
      BY Zenon, <1>9 DEF manageReplicationChannel, StopChannel, SetSources, P
    <2>2. \A q \in RPods : Replicates(q)' => Replicates(q)
      BY Zenon, <1>t, <1>9
      DEF manageReplicationChannel, StopChannel, SetSources, Stopped, Replicates
    <2> QED BY Zenon, <1>b, <2>1, <2>2 DEF PassKnows
  <1>10. CASE StartReplication
    <2>1. UNCHANGED <<ready, label>> /\ rpc = "start" /\ ready[P]
      BY Zenon, <1>10 DEF StartReplication
    <2>2. \A q \in RPods : q # P => ~Replicates(q)'
      BY Zenon, <1>t, <1>b, <1>10, <2>1 DEF StartReplication, Replicates,
           PassKnows
    <2>3. label[P] /\ P \in rp.listed
      BY Zenon, <1>b, <2>1 DEF PassKnows
    <2>4. rpc' = "idle" \/ (rpc' = "status" /\ UNCHANGED <<rp, P>>)
      BY Zenon, <1>10 DEF StartReplication, P
    <2> QED BY Zenon, <2>1, <2>2, <2>3, <2>4 DEF PassKnows
  <1>11. CASE setReplicationChannelStatus \/ PodGone
    <2>1. UNCHANGED <<ready, label, replica>> /\ rpc' = "idle"
      BY Zenon, <1>11 DEF setReplicationChannelStatus, PodGone
    <2> QED BY Zenon, <1>b, <2>1 DEF PassKnows, Replicates
  <1>12. CASE FailReplication
    <2>1. UNCHANGED <<ready, label>> /\ rpc' = "idle"
      BY Zenon, <1>12 DEF FailReplication
    <2>2. \A q \in RPods : Replicates(q)' => Replicates(q)
      BY Zenon, <1>t, <1>12 DEF FailReplication, Stopped, Replicates
    <2> QED BY Zenon, <1>b, <2>1, <2>2 DEF PassKnows
  <1>13. CASE MovePrimary \/ EditChannel \/ ChangePassword
    <2>1. UNCHANGED <<ready, label, replica, rpc, rp, P>>
      BY Zenon, <1>13 DEF MovePrimary, EditChannel, ChangePassword, P
    <2> QED BY Zenon, <1>b, <2>1 DEF PassKnows, Replicates
  <1>14. ASSUME NEW p \in RPods, PodFails(p)
         PROVE  /\ \A k, q \in RPods : Replicates(k)' /\ Replicates(q)' => k = q
                /\ \A q \in RPods : Replicates(q)' => label'[q]
                /\ PassKnows'
    <2>1. UNCHANGED <<rpc, rp, P>> /\ ~ready'[p]
      BY Zenon, <1>t, <1>14 DEF PodFails, P
    <2>2. \A q \in RPods : /\ Replicates(q)' => Replicates(q) /\ label'[q] = label[q]
                           /\ q # p => ready'[q] = ready[q] /\ label'[q] = label[q]
      BY Zenon, <1>t, <1>14 DEF PodFails, Stopped, Replicates
    <2> QED BY Zenon, <1>t, <1>b, <2>1, <2>2 DEF PassKnows
  <1>15. ASSUME NEW p \in RPods, ReplicaPod(p) \/ LinkBreaks(p) \/ ApplyFails(p)
         PROVE  /\ \A k, q \in RPods : Replicates(k)' /\ Replicates(q)' => k = q
                /\ \A q \in RPods : Replicates(q)' => label'[q]
                /\ PassKnows'
    <2>1. UNCHANGED <<label, rpc, rp, P>>
      BY Zenon, <1>15 DEF ReplicaPod, PodReturns, LinkReturns, LinkBreaks,
           ApplyFails, P
    <2>2. \A q \in RPods : Replicates(q)' => Replicates(q)
      BY Zenon, <1>t, <1>15 DEF ReplicaPod, PodReturns, LinkReturns, LinkBreaks,
           ApplyFails,
           Replicates
    <2>3. \A q \in rp.listed : q \in RPods => ready'[q] = ready[q]
      BY Zenon, <1>t, <1>15 DEF ReplicaPod, PodReturns, LinkReturns, LinkBreaks,
           ApplyFails
    <2> QED BY Zenon, <1>t, <1>b, <2>1, <2>2, <2>3 DEF PassKnows
  <1>16. CASE UNCHANGED cvars
    BY Zenon, <1>b, <1>16 DEF cvars, PassKnows, Replicates, P
  <1> QED
    BY Zenon, <1>1, <1>2, <1>3, <1>4, <1>5, <1>6, <1>7, <1>8, <1>9, <1>10,
         <1>11,
         <1>12,
       <1>13, <1>14, <1>15, <1>16 DEF ReplicationNext, ReplicationPass

\* Two nodes of a cluster never replicate the channel at once
\* (reconcileReplication), for any number of pods, moves of the primary and
\* failed calls, but for the three deviations OneReplica names.
THEOREM ReplicaIsAlone == ReplicationSpec => []OneReplica
  <1>1. ReplicaInv => OneReplica
    BY Zenon DEF ReplicaInv, OneReplica, Expected, Replicates
  <1> QED BY <1>1, ReplicaStart, ReplicaStep, PTL DEF ReplicationSpec

-----------------------------------------------------------------------------
(***************************************************************************)
(* The deletion of a cluster.                                              *)
(***************************************************************************)

\* The finalizers whose work is done, and those whose work was cut short (what
\* is cut in delete-ssl the next pass takes up).
Done ==
    {f \in STRING : /\ f = "pxc-pvc" => "pxc" \notin claims /\ ~secrets
                    /\ f = "proxysql-pvc" => "proxysql" \notin claims
                    /\ f = "in-order" => AtMostOnePod /\ ~collector
                    /\ f = "ssl" => certs \subseteq unread}
CutOff == cutIn \ {"ssl"}

DeletionShape ==
    /\ asked \in Seq(STRING) /\ fins \in Seq(STRING) /\ kept \in Seq(STRING)
    /\ Range(fins) \subseteq Range(asked) /\ Range(kept) \subseteq Range(asked)
    /\ dpc \in 0..Len(fins) + 1 /\ replicas \in Nat /\ certs \subseteq Certs
    /\ nodes \subseteq 0..Size - 1
    /\ exists \in BOOLEAN /\ proxy \in BOOLEAN /\ secrets \in BOOLEAN /\ collector \in BOOLEAN
    /\ ~exists => fins = <<>>

\* The work is done of the finalizers that are gone, and of those the pass is
\* about to take away.
WorkIsDone ==
    /\ Range(asked) \ (Range(fins) \union CutOff) \subseteq Done
    /\ \A i \in 1..Len(fins) :
         i < dpc /\ fins[i] \notin Range(kept) \union CutOff => fins[i] \in Done

\* A StatefulSet goes with its claims, unless that was cut short, and the pods
\* of one that is there have the lowest ordinals.
SetsGoWhole ==
    /\ replicas = 0 => "pxc-pvc" \in Range(asked) \/ ~exists
    /\ exists /\ replicas = 0 => "pxc-pvc" \in CutOff \union Done
    /\ exists /\ ~proxy => "proxysql-pvc" \in CutOff \union Done
    /\ replicas > 0 => \E k \in Nat : nodes = 0..k - 1

DeletionInv == DeletionShape /\ WorkIsDone /\ SetsGoWhole

\* It holds when the cluster is deleted.
LEMMA DeletionStart == DeletionInit => DeletionInv
  <1> SUFFICES ASSUME DeletionInit PROVE DeletionInv
    OBVIOUS
  <1> USE DeletionBounds DEF DeletionInit
  <1>1. DeletionShape
    BY DEF DeletionShape, Range
  <1>2. WorkIsDone
    BY DEF WorkIsDone
  <1>3. SetsGoWhole
    BY Zenon DEF SetsGoWhole
  <1> QED BY Zenon, <1>1, <1>2, <1>3 DEF DeletionInv

\* What the work of a finalizer may change: it only deletes, and a StatefulSet
\* is deleted by its own finalizer.
OnlyDeletes(f, w) ==
    /\ w.claims \subseteq claims /\ w.certs \subseteq certs
    /\ (w.secrets => secrets) /\ (w.collector => collector) /\ (w.proxy => proxy)
    /\ w.secrets \in BOOLEAN /\ w.collector \in BOOLEAN /\ w.proxy \in BOOLEAN
    /\ w.replicas \in Nat
    /\ w.replicas # replicas => replicas > 0 /\ (w.replicas = 1 \/ f = "pxc-pvc")
    /\ f # "proxysql-pvc" => w.proxy = proxy

\* So it is for each of them.
LEMMA WorkOnlyDeletes ==
    ASSUME DeletionShape, NEW f, NEW cut \in Nat, NEW skip
    PROVE  OnlyDeletes(f, Work(f, cut, skip).w)
  <1> USE DEF DeletionShape, World, OnlyDeletes
  <1>0. OnlyDeletes(f, World)
    OBVIOUS
  <1>1. CASE f = "ssl"
    <2>1. Work(f, cut, skip) = deleteCerts(cut, skip)
      BY Zenon, <1>1 DEF Work
    <2> DEFINE w == deleteCerts(cut, skip).w
    <2>2. /\ w.replicas = replicas /\ w.proxy = proxy /\ w.claims = claims
          /\ w.secrets = secrets /\ w.collector = collector /\ w.certs \subseteq certs
      BY Zenon DEF deleteCerts
    <2> HIDE DEF w
    <2> QED BY Zenon, <2>1, <2>2 DEF w
  <1>2. CASE f = "proxysql-pvc"
    <2>1. Work(f, cut, skip) = deleteStatefulSet("proxysql", cut)
      BY Zenon, <1>2 DEF Work
    <2> DEFINE w == deleteStatefulSet("proxysql", cut).w
    <2>2. /\ w.replicas = replicas /\ w.claims \subseteq claims
          /\ w.collector = collector /\ w.certs = certs
      BY Zenon DEF deleteStatefulSet
    <2>3. (w.secrets => secrets) /\ w.secrets \in BOOLEAN
      BY Zenon DEF deleteStatefulSet
    <2>4. (w.proxy => proxy) /\ w.proxy \in BOOLEAN
      BY Zenon DEF deleteStatefulSet
    <2> HIDE DEF w
    <2> QED BY Zenon, <1>2, <2>1, <2>2, <2>3, <2>4 DEF w
  <1>3. CASE f = "pxc-pvc"
    <2>1. Work(f, cut, skip) = deleteStatefulSet("pxc", cut)
      BY Zenon, <1>3 DEF Work
    <2> DEFINE w == deleteStatefulSet("pxc", cut).w
    <2>2. /\ w.replicas \in {0, replicas} /\ w.claims \subseteq claims
          /\ w.collector = collector /\ w.certs = certs
      BY Zenon DEF deleteStatefulSet
    <2>3. (w.secrets => secrets) /\ w.secrets \in BOOLEAN
      BY Zenon DEF deleteStatefulSet
    <2>4. w.proxy = proxy
      BY Zenon DEF deleteStatefulSet
    <2> HIDE DEF w
    <2> QED BY <1>3, <2>1, <2>2, <2>3, <2>4 DEF w
  <1>4. CASE f = "in-order"
    <2>1. Work(f, cut, skip) = deletePXCPods(cut)
      BY Zenon, <1>4 DEF Work
    <2> DEFINE w == deletePXCPods(cut).w
    <2>2. /\ w.replicas = replicas \/ (replicas > 0 /\ w.replicas = 1)
          /\ w.claims = claims /\ w.certs = certs
      BY DEF deletePXCPods
    <2>3. /\ w.secrets = secrets /\ w.proxy = proxy
          /\ (w.collector => collector) /\ w.collector \in BOOLEAN
      BY Zenon DEF deletePXCPods
    <2> HIDE DEF w
    <2> QED BY <2>1, <2>2, <2>3 DEF w
  <1>5. CASE f \notin {"ssl", "proxysql-pvc", "pxc-pvc", "in-order"}
    <2>1. Work(f, cut, skip) = [w |-> World, err |-> derr]
      BY Zenon, <1>5 DEF Work
    <2>2. Work(f, cut, skip).w = World
      BY <2>1
    <2> QED BY Zenon, <1>0, <2>2
  <1> QED BY Zenon, <1>1, <1>2, <1>3, <1>4, <1>5

\* The secrets of the users go last.
LEMMA SecretsGo ==
    ASSUME NEW cut, cut > 2, replicas # 0
    PROVE  ~deleteStatefulSet("pxc", cut).w.secrets
  BY Zenon DEF deleteStatefulSet, World

\* A finalizer whose calls all went well is done, or waits; delete-ssl leaves
\* only what it could not read.
LEMMA WorkDoneOrKept ==
    ASSUME DeletionInv, NEW f \in STRING, NEW cut \in 0..2 \union {NoCut}, NEW skip,
           exists, Becomes(Work(f, cut, skip).w), UNCHANGED nodes,
           unread' = unread \union skip, ~Work(f, cut, skip).err,
           f = "ssl" \/ (cut = NoCut /\ f \notin cutIn)
    PROVE  f \in Done'
  <1> USE DEF DeletionShape, Becomes, World, NoCut
  <1>1. CASE f = "ssl"
    <2>1. Work(f, cut, skip) = deleteCerts(cut, skip)
      BY Zenon, <1>1 DEF Work
    <2>2. deleteCerts(cut, skip).err = (cut < 3)
      BY Zenon DEF deleteCerts
    <2>3. ~(cut < 3)
      BY Zenon, <2>1, <2>2
    <2>4. deleteCerts(cut, skip).w.certs
            = certs \ ({<<"issuers", "certificates", "certSecrets">>[k] : k \in 1..3} \ skip)
      BY Zenon, <2>3 DEF deleteCerts
    <2>5. {"issuers", "certificates", "certSecrets"}
            \subseteq {<<"issuers", "certificates", "certSecrets">>[k] : k \in 1..3}
      <3>1. <<"issuers", "certificates", "certSecrets">>[1] = "issuers"
        OBVIOUS
      <3>2. <<"issuers", "certificates", "certSecrets">>[2] = "certificates"
        OBVIOUS
      <3>3. <<"issuers", "certificates", "certSecrets">>[3] = "certSecrets"
        OBVIOUS
      <3>4. 1 \in 1..3 /\ 2 \in 1..3 /\ 3 \in 1..3
        OBVIOUS
      <3> QED BY Zenon, <3>1, <3>2, <3>3, <3>4
    <2>6. certs \subseteq {"issuers", "certificates", "certSecrets"}
      BY Zenon DEF DeletionInv, Certs
    <2>7. certs' = deleteCerts(cut, skip).w.certs
      BY Zenon, <2>1
    <2>8. certs' \subseteq unread'
      BY Zenon, <2>4, <2>5, <2>6, <2>7
    <2> QED BY Zenon, <1>1, <2>8 DEF Done
  <1>2. CASE f = "proxysql-pvc"
    <2>1. Work(f, cut, skip) = deleteStatefulSet("proxysql", cut)
      BY Zenon, <1>2 DEF Work
    <2>2. CASE proxy
      <3>0. cut > 1
        BY <1>2, SMT
      <3>1. deleteStatefulSet("proxysql", cut).w.claims = claims \ {"proxysql"}
        BY Zenon, <2>2, <3>0 DEF deleteStatefulSet
      <3>2. claims' = claims \ {"proxysql"}
        BY Zenon, <2>1, <3>1
      <3> QED BY Zenon, <1>2, <3>2 DEF Done
    <2>3. CASE ~proxy
      <3>1. f \in Done
        BY Zenon, <1>2, <2>3 DEF DeletionInv, SetsGoWhole, CutOff
      <3>2. deleteStatefulSet("proxysql", cut).w.claims = claims
        BY Zenon, <2>3 DEF deleteStatefulSet
      <3>3. claims' = claims
        BY Zenon, <2>1, <3>2
      <3> QED BY Zenon, <1>2, <3>1, <3>3 DEF Done
    <2> QED BY Zenon, <2>2, <2>3
  <1>3. CASE f = "pxc-pvc"
    <2>1. Work(f, cut, skip) = deleteStatefulSet("pxc", cut)
      BY Zenon, <1>3 DEF Work
    <2>2. CASE replicas # 0
      <3>0. cut > 1 /\ cut > 2
        BY <1>3
      <3>1. deleteStatefulSet("pxc", cut).w.claims = claims \ {"pxc"}
        BY Zenon, <2>2, <3>0 DEF deleteStatefulSet
      <3>2. ~deleteStatefulSet("pxc", cut).w.secrets
        BY Zenon, <2>2, <3>0, SecretsGo
      <3>3. claims' = claims \ {"pxc"} /\ ~secrets'
        BY Zenon, <2>1, <3>1, <3>2
      <3> QED BY Zenon, <1>3, <3>3 DEF Done
    <2>3. CASE replicas = 0
      <3>1. f \in Done
        BY Zenon, <1>3, <2>3 DEF DeletionInv, SetsGoWhole, CutOff
      <3>2. deleteStatefulSet("pxc", cut).w = World
        BY Zenon, <2>3 DEF deleteStatefulSet
      <3>3. claims' = claims /\ secrets' = secrets
        BY <2>1, <3>2
      <3> QED BY <1>3, <3>1, <3>3 DEF Done
    <2> QED BY Zenon, <2>2, <2>3
  <1>4. CASE f = "in-order"
    <2>1. Work(f, cut, skip) = deletePXCPods(cut)
      BY Zenon, <1>4 DEF Work
    <2>2. AtMostOnePod
      BY <2>1 DEF deletePXCPods
    <2>3. cut > 0 /\ ~collector'
      BY <1>4, <2>1, <2>2 DEF deletePXCPods
    <2> QED BY Zenon, <1>4, <2>2, <2>3 DEF Done, AtMostOnePod
  <1>5. CASE f \notin {"ssl", "proxysql-pvc", "pxc-pvc", "in-order"}
    BY Zenon, <1>5 DEF Done
  <1> QED BY Zenon, <1>1, <1>2, <1>3, <1>4, <1>5

\* deleteStatefulSet reports no error when no call of it failed.
LEMMA NoErrorUncut ==
    ASSUME NEW f \in {"pxc-pvc", "proxysql-pvc"}, NEW skip
    PROVE  ~Work(f, NoCut, skip).err
  <1>1. CASE f = "pxc-pvc"
    <2>1. Work(f, NoCut, skip) = deleteStatefulSet("pxc", NoCut)
      BY Zenon, <1>1 DEF Work
    <2>2. ~(NoCut = 0) /\ ~(NoCut < 3)
      BY DEF NoCut
    <2>3. ~deleteStatefulSet("pxc", NoCut).err
      BY Zenon, <2>2 DEF deleteStatefulSet
    <2> QED BY Zenon, <2>1, <2>3
  <1>2. CASE f = "proxysql-pvc"
    <2>1. Work(f, NoCut, skip) = deleteStatefulSet("proxysql", NoCut)
      BY Zenon, <1>2 DEF Work
    <2>2. ~(NoCut = 0) /\ ~(NoCut < 2)
      BY DEF NoCut
    <2>3. ~deleteStatefulSet("proxysql", NoCut).err
      BY Zenon, <2>2 DEF deleteStatefulSet
    <2> QED BY Zenon, <2>1, <2>3
  <1> QED BY Zenon, <1>1, <1>2

\* The elements of a longer list.
LEMMA RangeOfAppend ==
    \A S : \A s \in Seq(S), e \in S :
      Append(s, e) \in Seq(S) /\ Range(Append(s, e)) = Range(s) \union {e}
  <1> SUFFICES ASSUME NEW S, NEW s \in Seq(S), NEW e \in S
               PROVE  /\ Append(s, e) \in Seq(S)
                      /\ Range(Append(s, e)) = Range(s) \union {e}
    OBVIOUS
  <1>1. Append(s, e) \in Seq(S) /\ Len(Append(s, e)) = Len(s) + 1
    OBVIOUS
  <1>2. \A i \in 1..Len(s) : Append(s, e)[i] = s[i]
    OBVIOUS
  <1>3. Append(s, e)[Len(s) + 1] = e
    OBVIOUS
  <1>4. Range(s) \subseteq Range(Append(s, e))
    BY <1>1, <1>2 DEF Range
  <1>5. e \in Range(Append(s, e))
    BY <1>1, <1>3 DEF Range
  <1>6. Range(Append(s, e)) \subseteq Range(s) \union {e}
    BY <1>1, <1>2, <1>3 DEF Range
  <1> QED BY Zenon, <1>1, <1>4, <1>5, <1>6

\* So for a list of finalizers.
LEMMA RangeOfKept ==
    \A s \in Seq(STRING), e \in STRING :
      Append(s, e) \in Seq(STRING) /\ Range(Append(s, e)) = Range(s) \union {e}
  BY Zenon, RangeOfAppend

\* What one finalizer's work keeps, cut short or not: nothing that was done is
\* undone, and a StatefulSet that goes has gone whole or was cut.
LEMMA WorkKeeps ==
    ASSUME DeletionInv, exists, dpc \in 1..Len(fins),
           NEW cut \in 0..2 \union {NoCut}, NEW skip,
           Becomes(Work(fins[dpc], cut, skip).w), unread' = unread \union skip,
           cutIn' = IF cut = NoCut THEN cutIn ELSE cutIn \union {fins[dpc]},
           UNCHANGED <<asked, fins, exists, nodes>>
    PROVE  /\ Done \subseteq Done'
           /\ SetsGoWhole'
           /\ replicas' \in Nat /\ certs' \subseteq Certs
           /\ proxy' \in BOOLEAN /\ secrets' \in BOOLEAN /\ collector' \in BOOLEAN
  <1> DEFINE f == fins[dpc]
             w == Work(f, cut, skip).w
  <1>1. f \in STRING /\ f \in Range(asked) /\ cut \in Nat
    <2>1. fins \in Seq(STRING) /\ Range(fins) \subseteq Range(asked)
      BY Zenon DEF DeletionInv, DeletionShape
    <2>2. f \in STRING
      BY <2>1
    <2>3. f \in Range(fins)
      BY <2>1 DEF Range
    <2>4. cut \in Nat
      BY DEF NoCut
    <2> QED BY Zenon, <2>1, <2>2, <2>3, <2>4
  <1>2. OnlyDeletes(f, w)
    BY Zenon, <1>1, WorkOnlyDeletes DEF DeletionInv
  <1> HIDE DEF w
  <1>3. /\ claims' \subseteq claims /\ certs' \subseteq certs
        /\ (secrets' => secrets) /\ (collector' => collector) /\ (proxy' => proxy)
        /\ secrets' \in BOOLEAN /\ collector' \in BOOLEAN /\ proxy' \in BOOLEAN
        /\ replicas' \in Nat
        /\ replicas' # replicas => replicas > 0 /\ (replicas' = 1 \/ f = "pxc-pvc")
        /\ f # "proxysql-pvc" => proxy' = proxy
    <2>1. Becomes(w)
      BY Zenon DEF w
    <2> QED BY Zenon, <1>2, <2>1 DEF OnlyDeletes, Becomes
  <1>4. Done \subseteq Done'
    <2>1. unread \subseteq unread'
      OBVIOUS
    <2> QED BY Zenon, <1>3, <2>1 DEF Done, AtMostOnePod
  <1>5. /\ cutIn \subseteq cutIn' /\ CutOff \subseteq CutOff'
        /\ cut # NoCut => f \in cutIn'
    BY Zenon DEF CutOff
  <1>6. f \in {"pxc-pvc", "proxysql-pvc"} => f \in CutOff' \union Done'
    <2> SUFFICES ASSUME f \in {"pxc-pvc", "proxysql-pvc"}, cut = NoCut, f \notin cutIn
                 PROVE  f \in Done'
      BY Zenon, <1>5 DEF CutOff
    <2>1. ~Work(f, cut, skip).err
      BY Zenon, NoErrorUncut
    <2>2. UNCHANGED nodes
      OBVIOUS
    <2> HIDE DEF f
    <2>3. Becomes(Work(f, cut, skip).w)
      BY Zenon DEF f
    <2> QED BY Zenon, <1>1, <2>1, <2>2, <2>3, WorkDoneOrKept
  <1> HIDE DEF f
  <1>7. replicas' = 0 => "pxc-pvc" \in Range(asked')
    BY <1>1, <1>3 DEF DeletionInv, SetsGoWhole
  <1>8. exists' /\ replicas' = 0 => "pxc-pvc" \in CutOff' \union Done'
    BY <1>3, <1>4, <1>5, <1>6 DEF DeletionInv, SetsGoWhole
  <1>9. exists' /\ ~proxy' => "proxysql-pvc" \in CutOff' \union Done'
    BY <1>3, <1>4, <1>5, <1>6 DEF DeletionInv, SetsGoWhole
  <1>10. replicas' > 0 => \E k \in Nat : nodes' = 0..k - 1
    BY Zenon, <1>3 DEF DeletionInv, DeletionShape, SetsGoWhole
  <1>11. SetsGoWhole'
    BY Zenon, <1>7, <1>8, <1>9, <1>10 DEF SetsGoWhole
  <1>12. certs' \subseteq Certs
    BY Zenon, <1>3 DEF DeletionInv, DeletionShape
  <1> QED BY Zenon, <1>3, <1>4, <1>11, <1>12

\* When only pods go, no work is undone.
LEMMA FewerPods ==
    ASSUME DeletionShape, nodes' \subseteq nodes,
           UNCHANGED <<claims, secrets, collector, certs, cutIn, unread>>
    PROVE  Done \subseteq Done' /\ CutOff' = CutOff
  BY Zenon DEF Done, CutOff, AtMostOnePod

\* Scaling down takes the pod with the highest ordinal.
LEMMA HighestGoes ==
    ASSUME DeletionShape, SetsGoWhole, ScaleDown
    PROVE  /\ \E n \in nodes : nodes = 0..n /\ nodes' = 0..n - 1
           /\ \E k \in Nat : nodes' = 0..k - 1
  <1>1. PICK k \in Nat : nodes = 0..k - 1
    BY Zenon DEF ScaleDown, DeletionShape, SetsGoWhole
  <1>2. PICK n \in nodes : (\A m \in nodes : m <= n) /\ nodes' = nodes \ {n}
    BY Zenon DEF ScaleDown
  <1>3. n \in Nat /\ n = k - 1
    BY <1>1, <1>2
  <1>4. nodes' = 0..n - 1
    BY <1>1, <1>2, <1>3
  <1> QED BY Zenon, <1>1, <1>3, <1>4

\* Every step of the deletion keeps the invariant.
LEMMA DeletionStep == DeletionInv /\ [DeletionNext]_dvars => DeletionInv'
  <1> SUFFICES ASSUME DeletionInv, [DeletionNext]_dvars PROVE DeletionInv'
    OBVIOUS
  <1> USE DeletionBounds
  <1>1. CASE BeginDeletion
    <2> USE <1>1 DEF BeginDeletion, objects
    <2>0. Done' = Done /\ CutOff' = CutOff
      BY Zenon DEF Done, CutOff, AtMostOnePod
    <2>1. DeletionShape'
      <3>1. Range(kept') = {} /\ kept' \in Seq(STRING)
        BY DEF Range
      <3>2. dpc' \in 0..Len(fins') + 1
        BY DEF DeletionInv, DeletionShape
      <3> QED BY Zenon, <3>1, <3>2 DEF DeletionInv, DeletionShape
    <2>2. WorkIsDone'
      BY <2>0 DEF DeletionInv, WorkIsDone
    <2>3. SetsGoWhole'
      BY Zenon, <2>0 DEF DeletionInv, SetsGoWhole
    <2> QED BY Zenon, <2>1, <2>2, <2>3 DEF DeletionInv
  <1>2. CASE Finalize
    <2> DEFINE f == fins[dpc]
    <2>0. /\ exists /\ dpc \in 1..Len(fins) /\ dpc' = dpc + 1
          /\ UNCHANGED <<asked, fins, exists, nodes>>
      BY Zenon, <1>2 DEF Finalize
    <2>1. PICK cut \in 0..2 \union {NoCut}, skip \in SUBSET certs :
            /\ unread' = unread \union skip
            /\ Becomes(Work(f, cut, skip).w)
            /\ kept' = IF Work(f, cut, skip).err THEN Append(kept, f) ELSE kept
            /\ cutIn' = IF cut = NoCut THEN cutIn ELSE cutIn \union {f}
      BY Zenon, <1>2 DEF Finalize, MustKeep
    <2>2. /\ Done \subseteq Done'
          /\ SetsGoWhole'
          /\ replicas' \in Nat /\ certs' \subseteq Certs
          /\ proxy' \in BOOLEAN /\ secrets' \in BOOLEAN /\ collector' \in BOOLEAN
      BY Zenon, <2>0, <2>1, WorkKeeps
    <2>3. f \in STRING /\ f \in Range(fins) /\ f \in Range(asked)
      <3>1. fins \in Seq(STRING) /\ Range(fins) \subseteq Range(asked)
        BY Zenon DEF DeletionInv, DeletionShape
      <3>2. f \in STRING
        BY <2>0, <3>1
      <3>3. f \in Range(fins)
        BY <2>0, <3>1 DEF Range
      <3> QED BY Zenon, <3>1, <3>2, <3>3
    <2>4. /\ kept' \in Seq(STRING)
          /\ Range(kept') = IF Work(f, cut, skip).err THEN Range(kept) \union {f} ELSE Range(kept)
      <3>1. kept \in Seq(STRING)
        BY Zenon DEF DeletionInv, DeletionShape
      <3>2. CASE Work(f, cut, skip).err
        <4>1. kept' = Append(kept, f)
          BY Zenon, <2>1, <3>2
        <4> HIDE DEF f
        <4>2. Append(kept, f) \in Seq(STRING) /\ Range(Append(kept, f)) = Range(kept) \union {f}
          BY ONLY Zenon, <2>3, <3>1, RangeOfKept
        <4> QED BY Zenon, <3>2, <4>1, <4>2
      <3>3. CASE ~Work(f, cut, skip).err
        BY Zenon, <2>1, <3>1, <3>3
      <3> QED BY Zenon, <3>2, <3>3
    <2>5. DeletionShape'
      BY <2>0, <2>2, <2>3, <2>4 DEF DeletionInv, DeletionShape
    <2>6. cutIn \subseteq cutIn'
      BY Zenon, <2>1
    <2>7. ASSUME NEW g \in Range(asked'), g \notin Range(fins'), g \notin CutOff'
          PROVE  g \in Done'
      <3>1. g \in STRING /\ g \notin CutOff /\ g \in Range(asked) \ Range(fins)
        BY <2>0, <2>6, <2>7 DEF CutOff, DeletionInv, DeletionShape, Range
      <3>2. g \in Done
        BY Zenon, <3>1 DEF DeletionInv, WorkIsDone
      <3> QED BY Zenon, <2>2, <3>1, <3>2
    <2>8. ASSUME NEW i \in 1..Len(fins'), i < dpc', fins[i] \notin Range(kept'),
                 fins[i] \notin CutOff'
          PROVE  fins[i] \in Done'
      <3>0. fins[i] \in STRING
        BY <2>0 DEF DeletionInv, DeletionShape
      <3>1. CASE i < dpc
        <4>1. fins[i] \notin Range(kept) /\ fins[i] \notin CutOff
          BY Zenon, <2>0, <2>4, <2>6, <2>8 DEF CutOff
        <4>2. fins[i] \in Done
          BY Zenon, <2>0, <3>1, <4>1 DEF DeletionInv, WorkIsDone
        <4> QED BY Zenon, <2>0, <2>2, <3>0, <4>2
      <3>2. CASE i = dpc
        <4>1. ~Work(f, cut, skip).err
          BY Zenon, <2>0, <2>4, <2>8, <3>2
        <4>2. f = "ssl" \/ (cut = NoCut /\ f \notin cutIn)
          BY Zenon, <2>0, <2>1, <2>8, <3>2 DEF CutOff
        <4>3. UNCHANGED nodes
          BY Zenon, <2>0
        <4>4. f \in Done'
          BY Zenon, <2>0, <2>1, <2>3, <4>1, <4>2, <4>3, WorkDoneOrKept
        <4> QED BY Zenon, <2>0, <3>2, <4>4
      <3> QED BY <2>0, <2>8, <3>1, <3>2
    <2>9. WorkIsDone'
      BY Zenon, <2>0, <2>7, <2>8 DEF WorkIsDone
    <2> QED BY Zenon, <2>2, <2>5, <2>9 DEF DeletionInv
  <1>3. CASE DieInFinalizer
    <2> DEFINE f == fins[dpc]
    <2>0. /\ exists /\ dpc \in 1..Len(fins) /\ dpc' = 0 /\ kept' = <<>>
          /\ UNCHANGED <<asked, fins, exists, nodes>> /\ cutIn' = cutIn \union {f}
          /\ unread' = unread \union {}
      BY Zenon, <1>3 DEF DieInFinalizer
    <2>1. PICK cut \in 1..2 : Becomes(Work(f, cut, {}).w)
      BY Zenon, <1>3 DEF DieInFinalizer
    <2>2. cut \in 0..2 \union {NoCut} /\ cut # NoCut
      BY DEF NoCut
    <2>3. /\ Done \subseteq Done'
          /\ SetsGoWhole'
          /\ replicas' \in Nat /\ certs' \subseteq Certs
          /\ proxy' \in BOOLEAN /\ secrets' \in BOOLEAN /\ collector' \in BOOLEAN
      BY Zenon, <2>0, <2>1, <2>2, WorkKeeps
    <2>4. DeletionShape'
      BY <2>0, <2>3 DEF DeletionInv, DeletionShape, Range
    <2>5. ASSUME NEW g \in Range(asked'), g \notin Range(fins'), g \notin CutOff'
          PROVE  g \in Done'
      <3>1. g \in STRING /\ g \notin CutOff /\ g \in Range(asked) \ Range(fins)
        BY <2>0, <2>5 DEF CutOff, DeletionInv, DeletionShape, Range
      <3>2. g \in Done
        BY Zenon, <3>1 DEF DeletionInv, WorkIsDone
      <3> QED BY Zenon, <2>3, <3>1, <3>2
    <2>6. WorkIsDone'
      BY <2>0, <2>5 DEF WorkIsDone
    <2> QED BY Zenon, <2>3, <2>4, <2>6 DEF DeletionInv
  <1>4. CASE StoreFinalizers
    <2> USE <1>4 DEF StoreFinalizers
    <2>0. Done' = Done /\ CutOff' = CutOff
      BY Zenon DEF Done, CutOff, AtMostOnePod
    <2>1. DeletionShape'
      <3>1. CASE fins' = kept /\ exists' = (kept # <<>>)
        <4>1. /\ fins' \in Seq(STRING) /\ Range(fins') \subseteq Range(asked')
              /\ exists' \in BOOLEAN /\ (~exists' => fins' = <<>>)
          BY Zenon, <3>1 DEF DeletionInv, DeletionShape
        <4>2. Range(kept') = {} /\ kept' \in Seq(STRING) /\ dpc' \in 0..Len(fins') + 1
          BY <4>1 DEF Range
        <4> QED BY Zenon, <4>1, <4>2 DEF DeletionInv, DeletionShape
      <3>2. CASE UNCHANGED <<fins, exists>>
        <4>1. Range(kept') = {} /\ kept' \in Seq(STRING)
          BY DEF Range
        <4>2. dpc' \in 0..Len(fins') + 1
          BY <3>2 DEF DeletionInv, DeletionShape
        <4> QED BY Zenon, <3>2, <4>1, <4>2 DEF DeletionInv, DeletionShape
      <3> QED BY Zenon, <3>1, <3>2
    <2>2. ASSUME NEW g \in Range(asked), g \notin Range(fins'), g \notin CutOff
          PROVE  g \in Done
      <3>1. CASE g \notin Range(fins)
        BY Zenon, <2>2, <3>1 DEF DeletionInv, WorkIsDone
      <3>2. CASE g \in Range(fins)
        <4>1. PICK i \in 1..Len(fins) : g = fins[i]
          <5>1. fins \in Seq(STRING)
            BY Zenon DEF DeletionInv, DeletionShape
          <5>2. PICK i \in DOMAIN fins : g = fins[i]
            BY Zenon, <3>2 DEF Range
          <5> QED BY <5>1, <5>2
        <4>2. i < dpc
          BY DEF DeletionInv, DeletionShape
        <4>3. g \notin Range(kept)
          <5>1. fins' # fins
            BY Zenon, <2>2, <3>2
          <5>2. fins' = kept
            BY Zenon, <5>1
          <5> QED BY Zenon, <2>2, <5>2
        <4> QED BY Zenon, <2>2, <4>1, <4>2, <4>3 DEF DeletionInv, WorkIsDone
      <3> QED BY Zenon, <3>1, <3>2
    <2>3. WorkIsDone'
      BY <2>0, <2>2 DEF DeletionInv, DeletionShape, WorkIsDone
    <2>4. SetsGoWhole'
      BY Zenon, <2>0 DEF DeletionInv, SetsGoWhole
    <2> QED BY Zenon, <2>1, <2>3, <2>4 DEF DeletionInv
  <1>5. CASE ScaleDown
    <2> USE <1>5 DEF ScaleDown
    <2>1. Done \subseteq Done' /\ CutOff' = CutOff
      <3>1. nodes' \subseteq nodes /\ UNCHANGED <<claims, secrets, collector, certs, cutIn, unread>>
        OBVIOUS
      <3> QED BY Zenon, <3>1, FewerPods DEF DeletionInv
    <2>2. DeletionShape'
      BY Zenon DEF DeletionInv, DeletionShape
    <2>3. WorkIsDone'
      BY Zenon, <2>1 DEF DeletionInv, WorkIsDone
    <2>4. \E k \in Nat : nodes' = 0..k - 1
      BY Zenon, HighestGoes DEF DeletionInv
    <2>5. SetsGoWhole'
      BY Zenon, <2>1, <2>4 DEF DeletionInv, SetsGoWhole
    <2> QED BY Zenon, <2>2, <2>3, <2>5 DEF DeletionInv
  <1>6. CASE CollectPod
    <2> USE <1>6 DEF CollectPod
    <2>1. Done \subseteq Done' /\ CutOff' = CutOff
      <3>1. nodes' \subseteq nodes /\ UNCHANGED <<claims, secrets, collector, certs, cutIn, unread>>
        OBVIOUS
      <3> QED BY Zenon, <3>1, FewerPods DEF DeletionInv
    <2>2. DeletionShape'
      BY Zenon DEF DeletionInv, DeletionShape
    <2>3. WorkIsDone'
      BY Zenon, <2>1 DEF DeletionInv, WorkIsDone
    <2>4. SetsGoWhole'
      BY <2>1 DEF DeletionInv, SetsGoWhole
    <2> QED BY Zenon, <2>2, <2>3, <2>4 DEF DeletionInv
  <1>7. CASE CollectOwned
    <2> USE <1>7 DEF CollectOwned
    <2>1. Done \subseteq Done' /\ CutOff' = CutOff
      BY Zenon DEF Done, CutOff, AtMostOnePod
    <2>2. DeletionShape'
      BY Zenon DEF DeletionInv, DeletionShape
    <2>3. WorkIsDone'
      BY Zenon, <2>1 DEF DeletionInv, WorkIsDone
    <2>4. SetsGoWhole'
      BY <2>1 DEF DeletionInv, SetsGoWhole
    <2> QED BY Zenon, <2>2, <2>3, <2>4 DEF DeletionInv
  <1>8. CASE RepairSpec \/ UNCHANGED dvars
    <2>0. UNCHANGED <<asked, fins, exists, replicas, nodes, proxy, claims, secrets,
                      certs, collector, dpc, kept, cutIn, unread>>
      BY Zenon, <1>8 DEF RepairSpec, objects, dvars
    <2>1. Done' = Done /\ CutOff' = CutOff
      BY Zenon, <2>0 DEF Done, CutOff, AtMostOnePod
    <2>2. DeletionShape'
      BY Zenon, <2>0 DEF DeletionInv, DeletionShape
    <2>3. WorkIsDone'
      BY Zenon, <2>0, <2>1 DEF DeletionInv, WorkIsDone
    <2>4. SetsGoWhole'
      BY Zenon, <2>0, <2>1 DEF DeletionInv, SetsGoWhole
    <2> QED BY Zenon, <2>2, <2>3, <2>4 DEF DeletionInv
  <1> QED BY Zenon, <1>1, <1>2, <1>3, <1>4, <1>5, <1>6, <1>7, <1>8 DEF
       DeletionNext,
       DeletionPass

\* The finalizers of a deleted cluster keep their word: one that is gone has
\* done its work, unless that was cut short (delete-ssl even then, but for what
\* it could not read), and with delete-pxc-pods-in-order the pods go from the
\* highest ordinal down.
THEOREM FinalizersAreTrue == DeletionSpec => FinalizersKeepTheirWord
  <1>1. DeletionInv /\ [DeletionNext]_dvars => [InOrderStep /\ WorkDone' /\ CertsAreGone']_dvars
    <2> SUFFICES ASSUME DeletionInv, DeletionNext
                 PROVE  InOrderStep /\ WorkDone' /\ CertsAreGone'
      OBVIOUS
    <2>1. DeletionInv'
      BY Zenon, DeletionStep
    <2>2. WorkDone' /\ CertsAreGone'
      BY Zenon, <2>1 DEF DeletionInv, WorkIsDone, WorkDone, CertsAreGone, Done,
           CutOff
    <2>3. InOrderStep
      <3>1. CASE ScaleDown
        BY Zenon, <3>1, HighestGoes DEF InOrderStep, DeletionInv, ScaleDown
      <3>2. CASE CollectPod
        <4>1. replicas = 0
          BY Zenon, <3>2 DEF CollectPod
        <4>2. "pxc-pvc" \in Range(asked) \/ fins = <<>>
          BY Zenon, <4>1 DEF DeletionInv, SetsGoWhole, DeletionShape
        <4> QED BY <4>2 DEF InOrderStep, Range
      <3>3. CASE DeletionPass \/ DieInFinalizer \/ CollectOwned \/ RepairSpec
        <4>1. nodes' = nodes
          BY Zenon, <3>3 DEF DeletionPass, BeginDeletion, Finalize,
               StoreFinalizers,
                      DieInFinalizer, CollectOwned, RepairSpec, objects
        <4> QED BY Zenon, <4>1 DEF InOrderStep
      <3> QED BY Zenon, <3>1, <3>2, <3>3 DEF DeletionNext
    <2> QED BY Zenon, <2>2, <2>3
  <1> QED BY <1>1, DeletionStart, DeletionStep, PTL DEF DeletionSpec,
       FinalizersKeepTheirWord

-----------------------------------------------------------------------------
(***************************************************************************)
(* Volume expansion.                                                       *)
(***************************************************************************)
\* A reconcile that goes on to delete the StatefulSet has seen all claims
\* resized, and they only grow.
ExpansionInv ==
    /\ TypeOK
    /\ pc = "deleteSts" => LargeEnough

\* Sizes in gibibytes are natural numbers.
LEMMA RoundUpNat ==
    ASSUME NEW size \in Nat
    PROVE  RoundUpGiB(size) \in Nat
  BY ExpansionAssumption DEF RoundUpGiB

\* The claims that have the size are the claims of the pods, when there are as
\* many of them and there is no claim without a pod.
LEMMA AllResized ==
    ASSUME TypeOK, Leftovers = 0, ResizeSucceeded
    PROVE  LargeEnough
<1>1. ClusterSize \in Nat \ {0}
  BY Zenon, ExpansionAssumption
<1>2. Claims = Pods
  BY <1>1 DEF Claims, Pods
<1>3. IsFiniteSet(Pods) /\ Cardinality(Pods) = ClusterSize
  BY <1>1, FS_Interval DEF Pods
<1>4. pods \in SUBSET Pods /\ Cardinality(pods) >= ClusterSize
  BY Zenon DEF TypeOK, ResizeSucceeded, Comparable
<1>5. /\ IsFiniteSet(pods) /\ Cardinality(pods) <= ClusterSize
      /\ Cardinality(pods) = ClusterSize => pods = Pods
  BY Zenon, <1>3, <1>4, FS_Subset
<1>6. Cardinality(pods) \in Nat
  BY Zenon, <1>5, FS_CardinalityType
<1>7. pods = Pods
  BY <1>1, <1>4, <1>5, <1>6
<1>8. updatedPVCs \subseteq Pods /\ Cardinality(updatedPVCs) = Cardinality(Pods)
  BY Zenon, <1>2, <1>7 DEF ResizeSucceeded, pvcsToUpdate, updatedPVCs
<1>9. updatedPVCs = Pods
  BY Zenon, <1>3, <1>8, FS_Subset
<1>10. requested \in Nat
  BY Zenon, RoundUpNat, ExpansionAssumption DEF requested, TypeOK
<1> QED BY <1>2, <1>9, <1>10 DEF updatedPVCs, LargeEnough

\* Init establishes the invariant.
LEMMA ExpansionInvInit == Init => ExpansionInv
<1> SUFFICES ASSUME Init PROVE ExpansionInv
  OBVIOUS
<1>1. FirstSize \in Nat /\ RoundUpGiB(FirstSize) \in Nat
  BY Zenon, ExpansionAssumption, RoundUpNat
<1>2. /\ FirstSize \in Sizes /\ spec \in [size : Sizes, enabled : BOOLEAN]
      /\ NoMemory \in [size : Sizes, enabled : BOOLEAN, marked : BOOLEAN]
  BY Zenon, ExpansionAssumption DEF Init, NoMemory
<1>3. claim \in [Claims -> [request : Nat, capacity : Nat]]
  BY Zenon, <1>1 DEF Init
<1>4. edits \in 0 .. MaxEdits
  BY ExpansionAssumption DEF Init
<1>5. DOMAIN todo \subseteq Claims
  BY DEF Init
<1> QED BY Zenon, <1>2, <1>3, <1>4, <1>5 DEF Init, ExpansionInv, TypeOK, Labels

\* The steps of a reconcile keep the types.
LEMMA ReconcileKeepsTypes ==
    ASSUME TypeOK, Reconcile
    PROVE  TypeOK'
<1>1. requested \in Nat
  BY Zenon, RoundUpNat, ExpansionAssumption DEF requested, TypeOK
<1>2. NoMemory \in [size : Sizes, enabled : BOOLEAN, marked : BOOLEAN] /\ DOMAIN <<>> = {}
  BY ExpansionAssumption DEF NoMemory
<1>3. CASE Get
  BY Zenon, <1>3 DEF Get, apiVars, envVars, TypeOK, Labels
<1>4. CASE ReconcilePersistentVolumes
  <2>1. /\ UNCHANGED <<apiVars, envVars>> /\ pc' \in Labels
        /\ mem' \in [size : Sizes, enabled : BOOLEAN, marked : BOOLEAN]
        /\ DOMAIN todo' \subseteq Claims
    BY Zenon, <1>4 DEF ReconcilePersistentVolumes, Goto, TypeOK, Labels,
         pvcsToUpdate
  <2> QED BY Zenon, <2>1 DEF apiVars, envVars, TypeOK
<1>5. CASE Annotate
  BY Zenon, <1>5 DEF Annotate, envVars, TypeOK, Labels
<1>6. CASE UpdateClaim
  <2>1. /\ UNCHANGED <<spec, marked, sts, pods>>
        /\ pc' \in Labels /\ mem' \in [size : Sizes, enabled : BOOLEAN, marked : BOOLEAN]
        /\ DOMAIN todo' \subseteq Claims
    BY Zenon, <1>2, <1>6 DEF UpdateClaim, EndPass, TypeOK, Labels
  <2>2. claim' \in [Claims -> [request : Nat, capacity : Nat]]
    BY <1>1, <1>6 DEF UpdateClaim, TypeOK
  <2>3. events' \in [Claims -> SUBSET {"pending", "failed"}]
    BY <1>6 DEF UpdateClaim, TypeOK
  <2>4. edits' = edits /\ happened' \subseteq Events
    BY Zenon, <1>6 DEF UpdateClaim, Disturbs, envVars, TypeOK
  <2> QED BY Zenon, <2>1, <2>2, <2>3, <2>4 DEF TypeOK
<1>7. CASE ClaimsUpdated
  BY Zenon, <1>7 DEF ClaimsUpdated, Goto, apiVars, envVars, TypeOK, Labels
<1>8. CASE DeleteStatefulSet \/ Deannotate
  BY Zenon, <1>8 DEF DeleteStatefulSet, Deannotate, Goto, envVars, TypeOK,
       Labels
<1>9. CASE Revert \/ HandlePVCResizeFailure \/ DeannotateFailed
  BY Zenon, <1>2, <1>9 DEF Revert, HandlePVCResizeFailure, DeannotateFailed,
       RevertVolumeTemplate,
     Goto, EndPass, envVars, TypeOK, Labels
<1>10. CASE UpdatePod
  BY Zenon, <1>2, <1>10 DEF UpdatePod, EndPass, envVars, TypeOK, Labels
<1> QED BY Zenon, <1>3, <1>4, <1>5, <1>6, <1>7, <1>8, <1>9, <1>10 DEF Reconcile

\* So do the user, the pods and the resizer.
LEMMA EnvironmentKeepsTypes ==
    ASSUME TypeOK, Environment
    PROVE  TypeOK'
<1>1. CASE CutShort
  <2>1. NoMemory \in [size : Sizes, enabled : BOOLEAN, marked : BOOLEAN] /\ DOMAIN <<>> = {}
    BY ExpansionAssumption DEF NoMemory
  <2> QED BY Zenon, <1>1, <2>1 DEF CutShort, EndPass, Disturbs, apiVars, TypeOK,
       Labels
<1>2. ASSUME NEW size \in Sizes, EditSize(size) PROVE TypeOK'
  <2>1. edits' \in 0 .. MaxEdits /\ happened' \subseteq Events
    BY <1>2, ExpansionAssumption DEF EditSize, Edits, Disturbs, TypeOK
  <2> QED BY Zenon, <1>2, <2>1 DEF EditSize, memVars, TypeOK
<1>3. CASE EditExpansion
  <2>1. edits' \in 0 .. MaxEdits /\ happened' \subseteq Events
    BY <1>3, ExpansionAssumption DEF EditExpansion, Edits, Disturbs, TypeOK
  <2> QED BY Zenon, <1>3, <2>1 DEF EditExpansion, memVars, TypeOK
<1>4. ASSUME NEW p \in Pods, PodStops(p) \/ PodStarts(p) PROVE TypeOK'
  BY <1>4, ExpansionAssumption DEF PodStops, PodStarts, Edits, memVars, envVars,
       TypeOK
<1>5. ASSUME NEW c \in Claims,
             ResizeStarts(c) \/ ResizeFails(c) \/ ResizeEnds(c) \/ EventsExpire(c)
      PROVE  TypeOK'
  BY <1>5 DEF ResizeStarts, ResizeFails, ResizeEnds, EventsExpire, Record,
       Resizing,
     Disturbs, memVars, envVars, TypeOK
<1> QED BY Zenon, <1>1, <1>2, <1>3, <1>4, <1>5 DEF Environment

\* The invariant is inductive.
LEMMA ExpansionInvNext ==
    ASSUME Leftovers = 0, ExpansionInv, [Next]_vars
    PROVE  ExpansionInv'
<1>1. TypeOK'
  <2>1. CASE UNCHANGED vars
    BY Zenon, <2>1 DEF vars, apiVars, memVars, envVars, ExpansionInv, TypeOK
  <2> QED BY Zenon, <2>1, ReconcileKeepsTypes, EnvironmentKeepsTypes DEF Next,
       ExpansionInv
<1>2. ASSUME pc' = "deleteSts" PROVE LargeEnough'
  <2>1. CASE Reconcile
    <3>1. pc = "volumes" /\ ResizeSucceeded /\ UNCHANGED <<mem, claim>>
      BY Zenon, <1>2, <2>1 DEF Reconcile, Get, ReconcilePersistentVolumes, Goto,
           Annotate,
         UpdateClaim, ClaimsUpdated, DeleteStatefulSet, Deannotate, Revert, EndPass,
         HandlePVCResizeFailure, DeannotateFailed, UpdatePod, apiVars
    <3> QED BY Zenon, <3>1, AllResized DEF ExpansionInv, LargeEnough, requested
  <2>2. CASE Environment \/ UNCHANGED vars
    <3>1. /\ UNCHANGED <<mem, pc>>
          /\ UNCHANGED claim \/ \E c \in Claims : ResizeEnds(c)
      BY Zenon, <1>2, <2>2 DEF Environment, CutShort, EndPass, EditSize,
           EditExpansion, PodStops,
         PodStarts, ResizeStarts, ResizeFails, ResizeEnds, EventsExpire, Record,
         vars, apiVars, memVars
    <3>2. LargeEnough /\ requested' = requested /\ requested \in Nat
      BY Zenon, <1>2, <3>1, RoundUpNat, ExpansionAssumption DEF ExpansionInv,
           requested, TypeOK
    <3>3. CASE UNCHANGED claim
      BY Zenon, <3>2, <3>3 DEF LargeEnough
    <3>4. ASSUME NEW c \in Claims, ResizeEnds(c) PROVE LargeEnough'
      <4>1. \A p \in Pods : p \in Claims
        BY ExpansionAssumption DEF Claims, Pods
      <4> QED BY <3>2, <3>4, <4>1 DEF LargeEnough, ResizeEnds, Resizing,
           ExpansionInv, TypeOK
    <3> QED BY Zenon, <3>1, <3>3, <3>4
  <2> QED BY Zenon, <2>1, <2>2 DEF Next
<1> QED BY Zenon, <1>1, <1>2 DEF ExpansionInv

\* Without claims of a larger cluster of the past, whatever the sizes, the pods
\* and the edits: the StatefulSet is deleted only when the claims of all pods
\* have the size that is asked for (reconcilePersistentVolumes).
THEOREM ResizedBeforeDeletion == Leftovers = 0 => (Spec => DeletedWhenResized)
<1> SUFFICES ASSUME Leftovers = 0 PROVE Spec => DeletedWhenResized
  OBVIOUS
<1>1. ExpansionInv /\ [Next]_vars => ExpansionInv'
  BY Zenon, ExpansionInvNext
<1>2. ExpansionInv /\ [Next]_vars => [sts.exists /\ ~sts'.exists => LargeEnough]_vars
  <2> SUFFICES ASSUME ExpansionInv, Next, sts.exists, ~sts'.exists PROVE LargeEnough
    OBVIOUS
  <2>1. DeleteStatefulSet
    BY Zenon DEF Next, Reconcile, Get, ReconcilePersistentVolumes, Annotate,
       UpdateClaim, ClaimsUpdated, Deannotate, Revert, RevertVolumeTemplate,
       HandlePVCResizeFailure, DeannotateFailed, UpdatePod, Environment, CutShort,
       EditSize, EditExpansion, PodStops, PodStarts, ResizeStarts, ResizeFails,
       ResizeEnds, EventsExpire, Record, apiVars
  <2> QED BY Zenon, <2>1 DEF DeleteStatefulSet, ExpansionInv
<1> QED BY <1>1, <1>2, ExpansionInvInit, PTL DEF Spec, DeletedWhenResized
=============================================================================
