----------------------------- MODULE MCCluster ------------------------------
(***************************************************************************)
(* Instances for TLC of parts of the cluster controller that share no      *)
(* state: the deletion of a cluster, the recovery after a full crash, the  *)
(* change of TLS, replication between sites, the Services, the             *)
(* configuration and the defaults.  A behaviour is a behaviour of one of   *)
(* them, chosen in the initial state; the others stay as they began, or    *)
(* are Off.                                                                *)
(***************************************************************************)
EXTENDS Naturals, Sequences, ClusterDeletion, CrashRecovery, TLSToggle,
        Replication

VARIABLE part   \* the part this behaviour is of
VARIABLES family, ignore, braces, ecr, eseen, busy, svc, epc, todo, oldann,
          map, new, mixed, raced, eedits, foreign, eslips
VARIABLES want, proxyOn, maps, secret, env, tmpl, pods, cpc, hashes,
          kedits, kslips
VARIABLES res, fapplied, panicked, outcome, fedits

SomeLists ==
    {<<"pxc-pvc", "in-order", "ssl">>, <<"in-order", "proxysql-pvc">>,
     <<"in-order", "pxc-pvc", "proxysql-pvc", "ssl">>, <<"ssl", "in-order", "other">>}

Expose == INSTANCE ExposedServices WITH
    MaxSize <- 2, MaxEdits <- 1, MaxForeign <- 1, MaxSlips <- 1, cr <- ecr,
    seen <- eseen, edits <- eedits, slips <- eslips
Config == INSTANCE Configuration WITH
    CPods <- {"p1"}, MaxValue <- 2, MaxEdits <- 2, MaxSlips <- 1,
    edits <- kedits, slips <- kslips
Given == INSTANCE Defaults WITH
    MaxEdits <- 3, applied <- fapplied, edits <- fedits

evars ==
    <<family, ignore, braces, ecr, eseen, busy, svc, epc, todo, oldann,
      map, new, mixed, raced, eedits, foreign, eslips>>
kvars ==
    <<want, proxyOn, maps, secret, env, tmpl, pods, cpc, hashes, kedits,
      kslips>>
dfvars ==
    <<res, fapplied, panicked, outcome, fedits>>
vars ==
    <<part, dvars, rvars, tvars, cvars, evars, kvars, dfvars>>

Off == ""
ExposeOff ==
    /\ family = Off /\ ignore = Off /\ braces = Off /\ ecr = Off
    /\ eseen = Off /\ busy = Off /\ svc = Off /\ epc = Off /\ todo = Off
    /\ oldann = Off /\ map = Off /\ new = Off /\ mixed = Off /\ raced = Off /\ eedits = Off
    /\ foreign = Off /\ eslips = Off
ConfigOff ==
    /\ want = Off /\ proxyOn = Off /\ maps = Off /\ secret = Off
    /\ env = Off /\ tmpl = Off /\ pods = Off /\ cpc = Off /\ hashes = Off
    /\ kedits = Off /\ kslips = Off
GivenOff ==
    /\ res = Off /\ fapplied = Off /\ panicked = Off /\ outcome = Off
    /\ fedits = Off

Init ==
    /\ part \in {"deletion", "recovery", "tls", "replication", "services",
                 "configuration", "defaults"}
    /\ DeletionInit
    /\ part # "deletion" => asked = <<"ssl", "in-order", "other">> /\ valid
    /\ RecoveryInit
    /\ ToggleInit
    /\ part # "tls" => certManager = "absent" /\ ~enabled /\ ssl = "none"
    /\ ReplicationInit
    /\ part # "replication" => ~shared
    /\ IF part = "services" THEN Expose!ServicesInit ELSE ExposeOff
    /\ IF part = "configuration" THEN Config!ConfigurationInit ELSE ConfigOff
    /\ IF part = "defaults" THEN Given!DefaultsInit ELSE GivenOff

InDeletion ==
    /\ part = "deletion" /\ DeletionNext
    /\ UNCHANGED <<part, rvars, tvars, cvars, evars, kvars, dfvars>>
InCrashes ==
    /\ part = "recovery" /\ RecoveryNext
    /\ UNCHANGED <<part, dvars, tvars, cvars, evars, kvars, dfvars>>
InToggle ==
    /\ part = "tls" /\ ToggleNext
    /\ UNCHANGED <<part, dvars, rvars, cvars, evars, kvars, dfvars>>
InChannel ==
    /\ part = "replication" /\ ReplicationNext
    /\ UNCHANGED <<part, dvars, rvars, tvars, evars, kvars, dfvars>>
InExpose ==
    /\ part = "services" /\ Expose!ServicesNext
    /\ UNCHANGED <<part, dvars, rvars, tvars, cvars, kvars, dfvars>>
InConfig ==
    /\ part = "configuration" /\ Config!ConfigurationNext
    /\ UNCHANGED <<part, dvars, rvars, tvars, cvars, evars, dfvars>>
InGiven ==
    /\ part = "defaults" /\ Given!DefaultsNext
    /\ UNCHANGED <<part, dvars, rvars, tvars, cvars, evars, kvars>>

Next ==
    \/ InDeletion \/ InCrashes \/ InToggle \/ InChannel \/ InExpose
    \/ InConfig \/ InGiven

\* The work queue repeats the pass; Kubernetes scales down and collects.
DeletionFair ==
    /\ WF_dvars(part = "deletion" /\ DeletionPass)
    /\ WF_dvars(part = "deletion" /\ ScaleDown)
    /\ WF_dvars(part = "deletion" /\ CollectPod)
    /\ WF_dvars(part = "deletion" /\ CollectOwned)
\* The work queue repeats the pass; the nodes run.
CrashesFair ==
    /\ WF_rvars(part = "recovery" /\ Recover)
    /\ \A n \in {0, 1, 2} : WF_rvars(part = "recovery" /\ NodeStep(n))
\* The work queue repeats the pass; cert-manager issues; the StatefulSet controller
\* starts and stops pods.
ToggleFair ==
    /\ WF_tvars(part = "tls" /\ TogglePass)
    /\ WF_tvars(part = "tls" /\ Issue)
    /\ \A p \in {"p1", "p2"} : WF_tvars(part = "tls" /\ PodStep(p))
\* The work queue repeats the pass; the proxy leaves a primary that is not ready;
\* pods and links return.
ChannelFair ==
    /\ WF_cvars(part = "replication" /\ ReplicationPass)
    /\ WF_cvars(part = "replication" /\ ~ready[primary] /\ MovePrimary)
    /\ \A p \in {"p1", "p2"} : WF_cvars(part = "replication" /\ ReplicaPod(p))
\* The work queue repeats the pass, and a backup or a restore ends.
ExposeFair ==
    /\ WF_evars(part = "services" /\ Expose!ServicesPass)
    /\ WF_evars(part = "services" /\ busy /\ Expose!Busy)
\* The work queue repeats the pass; the StatefulSet is rolled out.
ConfigFair ==
    /\ WF_kvars(part = "configuration" /\ Config!UpdatePass)
    /\ WF_kvars(part = "configuration" /\ Config!Roll("p1"))

Spec ==
    /\ Init /\ [][Next]_vars
    /\ DeletionFair /\ CrashesFair /\ ToggleFair /\ ChannelFair
    /\ ExposeFair /\ ConfigFair

-----------------------------------------------------------------------------
\* The state of the parts is well formed.
TypeOK ==
    /\ DeletionTypeOK
    /\ RecoveryTypeOK
    /\ ToggleTypeOK
    /\ ReplicationTypeOK
    /\ part = "services" => Expose!ServicesTypeOK
    /\ part = "configuration" => Config!ConfigurationTypeOK
    /\ part = "defaults" => Given!DefaultsTypeOK

\* A Service keeps what a cloud controller noted in it when the custom resource
\* asks for it (setIgnoredAnnotationsAndLabels, saveOldMeta).
NotesKept ==
    [][part = "services" => Expose!NotesKeptStep]_vars

\* What a pass goes on with is safe and complete: it has no size, and no lack of
\* TLS, that the resource had no leave for, and no pointer the user left unset is
\* followed on the way or after it (Validate, CheckNSetDefaults).
AppliedIsSound ==
    part = "defaults" =>
         /\ Given!OnlySafeApplied
         /\ Given!NothingNil

\* When edits, crashes and failed calls end, each part reaches what was asked for:
\* a deleted cluster is gone with its pods (Reconcile); all nodes are in the
\* primary component again (doFullCrashRecovery); a change of TLS is carried
\* through and both secrets are there (reconcileTLSToggle, reconcileSSL); the
\* cluster replicates what its channel says (reconcileReplication); exactly the
\* Services asked for exist (createOrUpdateService); every pod runs with the
\* configuration in force (updatePod).  The deviations are named in the parts.
ClusterConverges ==
    <>[](/\ part = "deletion" => DeletionEnded
         /\ part = "recovery" => Recovered
         /\ part = "tls" => ToggleCompleted /\ BothSecretsThere
         /\ part = "replication" => ChannelSettled
         /\ part = "services" => Expose!ServicesSettled
         /\ part = "configuration" => Config!ConfigurationArrived)
=============================================================================
