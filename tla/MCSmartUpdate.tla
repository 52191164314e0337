--------------------------- MODULE MCSmartUpdate ---------------------------
(***************************************************************************)
(* Instances for TLC of the two parts of an upgrade that share no state:   *)
(* SmartUpdate, which replaces the pods, and MainLoop, the passes and the  *)
(* version job that change the images and record the status.  A behaviour  *)
(* is a behaviour of one of them; the other stays as it began.             *)
(***************************************************************************)
EXTENDS SmartUpdate, MainLoop, TLC

VARIABLE part   \* the part this behaviour is of: "update" or "loop"

allVars == <<part, vars, loopVars>>

\* What the answer of the version service depends on: telemetry alone matters
\* where upgrades do not apply, a custom service where they do.  (The proxy
\* only decides which errors the pass forgets: both are tried without telemetry.)
Setups == {s \in [proxy : {"haproxy", "proxysql"}, apply : BOOLEAN,
                   telemetry : BOOLEAN, custom : BOOLEAN] :
              /\ s.custom <=> s.apply /\ s.telemetry
              /\ s.telemetry => s.proxy = "haproxy"}

AnyInit ==
    /\ part \in {"update", "loop"} /\ Init /\ LoopInit
    /\ part = "loop" => primary = 0
    /\ part = "update" => setup = [proxy |-> "haproxy", apply |-> FALSE,
                                   telemetry |-> FALSE, custom |-> FALSE]
    /\ setup \in Setups

InUpdate == part = "update" /\ Next /\ UNCHANGED <<part, loopVars>>
InLoop   == part = "loop" /\ LoopNext /\ UNCHANGED <<part, vars>>
AnyNext  == InUpdate \/ InLoop

\* Of SmartUpdate: the cluster is reconciled again and again, and not always
\* without its proxy; a wait has a limit, pods and backups get on.
UpdateFairness ==
    /\ WF_vars(part = "update" /\ Reconcile)
    /\ SF_vars(part = "update" /\ UpdatePod /\ pc' = "list")
    /\ WF_vars(part = "update" /\ WaitLimit)
    /\ WF_vars(part = "update" /\ ObserveRevision)
    /\ WF_vars(part = "update" /\ SwitchPrimary)
    /\ \A p \in Pods : WF_vars(part = "update" /\ PodSteps(p))
    /\ WF_vars(part = "update" /\ StartBackup)
    /\ WF_vars(part = "update" /\ (SuspendBackup \/ EndBackup))

\* Of MainLoop: the work queue runs a pass again and again, Kubernetes acts on
\* what it is given, the token is issued, volumes grow; Go's Mutex hands
\* itself to a waiter in the end.
LoopFairness ==
    /\ WF_loopVars(part = "loop" /\ Pass)
    /\ SF_loopVars(part = "loop" /\ JobBegin)
    /\ WF_loopVars(part = "loop" /\ (JobPatch \/ JobStatus))
    /\ WF_loopVars(part = "loop" /\ IssueToken)
    /\ WF_loopVars(part = "loop" /\ ClaimsGrow)
    /\ \A a \in {"pxc", "haproxy", "proxysql"} :
         WF_loopVars(part = "loop" /\ a \in Apps /\ Kubernetes(a))

AnySpec == AnyInit /\ [][AnyNext]_allVars /\ UpdateFairness /\ LoopFairness

-----------------------------------------------------------------------------
\* The state of each part is well formed.
PartsTypeOK == TypeOK /\ LoopTypeOK

\* When edits and faults end, every application runs the image of the spec and
\* the status says so (Reconcile, ensurePXCVersion, fetchVersionFromPXC), unless
\* telemetry for a custom version service has emptied the images.
LoopSettles == <>[](part = "loop" => Settled)
=============================================================================
