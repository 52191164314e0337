------------------------------ MODULE TLSToggle ------------------------------
(***************************************************************************)
(* TLS of a cluster (pkg/controller/pxc/tls.go, pkg/k8s/cluster.go):       *)
(* turning it on and off with the cluster stopped in between, and the      *)
(* creation of the two secrets, by cert-manager or by the operator itself. *)
(* The pass is the pass of Reconcile with the steps that matter here:      *)
(* reconcileTLSToggle, the secrets, deploy, and the status, which is where *)
(* the condition "tls" is stored.                                          *)
(***************************************************************************)
EXTENDS Naturals, FiniteSets

CONSTANTS TLSPods,     \* the PXC pods
          MaxToggles,  \* changes of spec.tls.enabled
          MaxPauses,   \* changes of spec.pause by the user
          MaxHitches   \* failed calls, restarts of the operator, lost conditions

VARIABLES certManager, \* absent, present, or with an issuer of the user's (issuerConf)
          enabled,     \* spec.tls.enabled
          unsafe,      \* spec.unsafeFlags.tls
          pause,       \* spec.pause
          wanted,      \* history: does the user want the cluster paused?
          condition,   \* the condition "tls" in the status: none, on, off
          ssl,         \* the secret: none, user (not the operator's), operator
          internal,    \* the internal secret
          requested,   \* the certificates cert-manager has been asked for
          scaled,        \* does the StatefulSet ask for its pods?
          template,    \* the mode in its template: tls, plain
          mode,        \* per pod: none, tls, plain
          tpc,         \* the pass
          cr,          \* the object it has read and changes
          toggles, pauses, hitches,
          unusual      \* what has happened that breaks a promise

tvars == <<certManager, enabled, unsafe, pause, wanted, condition, ssl,
           internal, requested, scaled, template, mode, tpc, cr, toggles,
           pauses, hitches, unusual>>
tspec    == <<certManager, enabled, unsafe, pause, wanted>>
tsecrets == <<ssl, internal, requested>>
tpods    == <<scaled, template, mode>>
tbudget  == <<toggles, pauses, hitches>>

NoCR == [enabled |-> TRUE, unsafe |-> FALSE, pause |-> FALSE, condition |-> "none"]
CRs == [enabled : BOOLEAN, unsafe : BOOLEAN, pause : BOOLEAN, condition : {"none", "on", "off"}]

ToggleTypeOK ==
    /\ enabled \in BOOLEAN /\ unsafe \in BOOLEAN /\ pause \in BOOLEAN
    /\ wanted \in BOOLEAN /\ scaled \in BOOLEAN
    /\ certManager \in {"absent", "present", "issuer"}
    /\ condition \in {"none", "on", "off"} /\ cr \in CRs
    /\ ssl \in {"none", "user", "operator"} /\ internal \in {"none", "operator"}
    /\ requested \subseteq {"ssl", "internal"}
    /\ template \in {"tls", "plain"} /\ mode \in [TLSPods -> {"none", "tls", "plain"}]
    /\ tpc \in {"idle", "toggle", "certs", "secret", "secretInternal", "unsafe",
                "unpause", "ssl", "request", "requestInternal", "wait", "manual",
                "manualInternal", "deploy", "status"}
    /\ unusual \subseteq {"unrecorded", "reverted", "toggledInPause", "notStarted", "cut"}

\* GetConditionTLSState and TLSEnabled, of an object.
State(on)             == IF on THEN "on" ELSE "off"
TLSEnabled(on, risky) == on \/ ~risky

ToggleInit ==
    /\ certManager \in {"absent", "present", "issuer"}
    /\ enabled \in BOOLEAN /\ unsafe = ~enabled /\ pause = FALSE /\ wanted = FALSE
    /\ condition = "none"
    /\ ssl \in {"none", "user"} /\ internal = "none" /\ requested = {}
    /\ scaled = FALSE /\ template = "plain" /\ mode = [p \in TLSPods |-> "none"]
    /\ tpc = "idle" /\ cr = NoCR
    /\ toggles = MaxToggles /\ pauses = MaxPauses /\ hitches = MaxHitches
    /\ unusual = {}

-----------------------------------------------------------------------------
\* The pass.

\* checkSafeDefaults, skipped for a paused cluster, ends it at once.
checkSafeDefaults == unsafe \/ enabled \/ pause

BeginPass ==
    /\ tpc = "idle" /\ checkSafeDefaults
    /\ tpc' = "toggle"
    /\ cr' = [enabled |-> enabled, unsafe |-> unsafe, pause |-> pause, condition |-> condition]
    /\ UNCHANGED <<tspec, condition, tsecrets, tpods, tbudget, unusual>>

\* A mutant: some pod is gone.
PodsGoneSoon == \E p \in TLSPods : mode[p] = "none"

\* PauseCluster asks for the pods of the cluster: are they gone?
PodsGone == \A p \in TLSPods : mode[p] = "none"

\* reconcileTLSToggle, with PauseCluster: the condition is written on the first
\* pass; a condition that differs from the spec stops the cluster, and the
\* toggle goes on in the first pass that finds no pod.
reconcileTLSToggle ==
    /\ tpc = "toggle"
    /\ unusual' = IF cr.condition \notin {"none", State(cr.enabled)} /\ PodsGone /\ scaled
                  THEN unusual \union {"notStarted"} ELSE unusual
    /\ \/ /\ cr.condition = "none" /\ tpc' = "ssl"
          /\ cr' = [cr EXCEPT !.condition = State(cr.enabled)] /\ UNCHANGED pause
       \/ /\ cr.condition = State(cr.enabled) /\ tpc' = "ssl"
          /\ UNCHANGED <<cr, pause>>
       \/ /\ cr.condition \notin {"none", State(cr.enabled)}
          /\ pause' = (pause \/ ~cr.pause) /\ cr' = [cr EXCEPT !.pause = TRUE]
          /\ \/ ~PodsGone /\ tpc' = "ssl"
             \/ PodsGone /\ cr.condition = "on" /\ tpc' = "certs"
             \/ PodsGone /\ cr.condition = "off" /\ tpc' = "unsafe"
    /\ UNCHANGED <<certManager, enabled, unsafe, wanted, condition, tsecrets,
                   tpods, tbudget>>

\* deleteCerts, when TLS was on: the certificates, then the two secrets, the
\* user's own included.
DeleteCerts ==
    /\ \/ tpc = "certs" /\ tpc' = "secret" /\ requested' = {} /\ UNCHANGED <<ssl, internal>>
       \/ tpc = "secret" /\ tpc' = "secretInternal" /\ ssl' = "none" /\ UNCHANGED <<internal, requested>>
       \/ tpc = "secretInternal" /\ tpc' = "unsafe" /\ internal' = "none" /\ UNCHANGED <<ssl, requested>>
    /\ UNCHANGED <<tspec, condition, tpods, cr, tbudget, unusual>>

\* The patch of the unsafe flag (a patch carries only what the pass changes) ...
SetUnsafe ==
    /\ tpc = "unsafe" /\ tpc' = "unpause"
    /\ cr' = [cr EXCEPT !.unsafe = ~cr.enabled]
    /\ unsafe' = IF cr.unsafe = ~cr.enabled THEN unsafe ELSE ~cr.enabled
    /\ UNCHANGED <<certManager, enabled, pause, wanted, condition, tsecrets,
                   tpods, tbudget, unusual>>

\* ... and UnpauseCluster; only then the condition, in memory.
Toggled == [cr EXCEPT !.pause = FALSE, !.condition = State(cr.enabled)]

UnpauseCluster ==
    /\ tpc = "unpause" /\ tpc' = "ssl"
    /\ cr' = Toggled /\ pause' = Toggled.pause
    /\ UNCHANGED <<certManager, enabled, unsafe, wanted, condition, tsecrets,
                   tpods, tbudget, unusual>>

\* reconcileSSL: a secret "ssl" that the CR does not own stops it, and the CR
\* owns none: neither those of cert-manager nor those of createSSLManualy.
reconcileSSL ==
    /\ tpc = "ssl"
    /\ IF ~TLSEnabled(cr.enabled, cr.unsafe) \/ ssl # "none"
       THEN tpc' = "deploy"
       ELSE tpc' = IF certManager = "absent" THEN "manual" ELSE "request"
    /\ UNCHANGED <<tspec, condition, tsecrets, tpods, cr, tbudget, unusual>>

\* createSSLByCertManager: the issuers and the two certificates,
createSSLByCertManager ==
    /\ \/ tpc = "request" /\ tpc' = "requestInternal" /\ requested' = requested \union {"ssl"}
       \/ tpc = "requestInternal" /\ tpc' = "wait" /\ requested' = requested \union {"internal"}
    /\ UNCHANGED <<tspec, condition, ssl, internal, tpods, cr, tbudget, unusual>>

\* and waitForCerts, until both secrets are there.
waitForCerts ==
    /\ tpc = "wait" /\ ssl # "none" /\ internal # "none"
    /\ tpc' = "deploy"
    /\ UNCHANGED <<tspec, condition, tsecrets, tpods, cr, tbudget, unusual>>

Issue ==
    /\ \/ "ssl" \in requested /\ ssl = "none" /\ ssl' = "operator" /\ UNCHANGED internal
       \/ "internal" \in requested /\ internal = "none" /\ internal' = "operator" /\ UNCHANGED ssl
    /\ UNCHANGED <<tspec, condition, requested, tpods, tpc, cr, tbudget, unusual>>

\* createSSLManualy: first the one secret, then the other; one that is there
\* already is left alone.
Made(s) == IF s = "none" THEN "operator" ELSE s

createSSLManualy ==
    /\ \/ tpc = "manual" /\ tpc' = "manualInternal" /\ ssl' = Made(ssl) /\ UNCHANGED internal
       \/ tpc = "manualInternal" /\ tpc' = "deploy" /\ internal' = Made(internal) /\ UNCHANGED ssl
    /\ UNCHANGED <<tspec, condition, requested, tpods, cr, tbudget, unusual>>

\* deploy and updatePod, with the object of the pass.
deployTLS ==
    /\ tpc = "deploy" /\ tpc' = "status"
    /\ scaled' = ~cr.pause
    /\ template' = IF TLSEnabled(cr.enabled, cr.unsafe) THEN "tls" ELSE "plain"
    /\ UNCHANGED <<tspec, condition, tsecrets, mode, cr, tbudget, unusual>>

\* The deferred status write stores the condition.
writeTLSStatus ==
    /\ tpc = "status" /\ tpc' = "idle"
    /\ condition' = cr.condition /\ cr' = NoCR
    /\ UNCHANGED <<tspec, tsecrets, tpods, tbudget, unusual>>

\* Were both secrets still to come, and can one of them come alone?
HalfMade == tpc \in {"requestInternal", "manual", "manualInternal"}
MayBeCut == unusual' = IF HalfMade THEN unusual \union {"cut"} ELSE unusual

\* A failed call or a timeout.  While certificates are asked for, the operator
\* makes them itself unless the issuer is the user's; anywhere else the pass
\* ends, and the status is written; the write itself may fail too.
FallsBack == tpc \in {"request", "requestInternal", "wait"} /\ certManager = "present"

FailCall ==
    /\ tpc # "idle" /\ hitches > 0 /\ hitches' = hitches - 1
    /\ \/ FallsBack /\ tpc' = "manual" /\ UNCHANGED <<cr, unusual>>
       \/ ~FallsBack /\ tpc # "status" /\ tpc' = "status" /\ MayBeCut /\ UNCHANGED cr
       \/ tpc = "status" /\ tpc' = "idle" /\ MayBeCut /\ cr' = NoCR
    /\ UNCHANGED <<tspec, condition, tsecrets, tpods, toggles, pauses>>

RestartOperator ==
    /\ tpc # "idle" /\ hitches > 0 /\ hitches' = hitches - 1
    /\ tpc' = "idle" /\ cr' = NoCR /\ MayBeCut
    /\ UNCHANGED <<tspec, condition, tsecrets, tpods, toggles, pauses>>

-----------------------------------------------------------------------------
\* Kubernetes: pods go when the StatefulSet asks for none, come with its
\* template, are replaced when they differ from it (the smart update).  A pod
\* with TLS needs its secret to start.
StopPod(p) ==
    /\ mode[p] # "none" /\ (~scaled \/ mode[p] # template)
    /\ mode' = [mode EXCEPT ![p] = "none"]
    /\ UNCHANGED <<tspec, condition, tsecrets, scaled, template, tpc, cr, tbudget,
                   unusual>>

StartPod(p) ==
    /\ mode[p] = "none" /\ scaled /\ (template = "tls" => ssl # "none")
    /\ mode' = [mode EXCEPT ![p] = template]
    /\ UNCHANGED <<tspec, condition, tsecrets, scaled, template, tpc, cr, tbudget,
                   unusual>>

\* The user.  Turning TLS off takes the unsafe flag as well (checkSafeDefaults).
ToggleTLS ==
    /\ toggles > 0 /\ toggles' = toggles - 1
    /\ enabled' = ~enabled /\ unsafe' = (unsafe \/ enabled)
    /\ unusual' = unusual
         \union (IF condition = "none" THEN {"unrecorded"} ELSE {})
         \union (IF condition = State(~enabled) THEN {"reverted"} ELSE {})
         \union (IF wanted THEN {"toggledInPause"} ELSE {})
    /\ UNCHANGED <<certManager, pause, wanted, condition, tsecrets, tpods, tpc,
                   cr, pauses, hitches>>

\* The user pauses and resumes, not in the middle of a change of TLS.
PauseByUser ==
    /\ pauses > 0 /\ pauses' = pauses - 1
    /\ tpc = "idle" /\ condition \in {"none", State(enabled)}
    /\ wanted' = ~wanted /\ pause' = wanted'
    /\ UNCHANGED <<certManager, enabled, unsafe, condition, tsecrets, tpods, tpc,
                   cr, toggles, hitches, unusual>>

\* AddCondition keeps the newest 20 conditions; "tls" is the oldest.
Prune ==
    /\ tpc = "idle" /\ condition # "none" /\ hitches > 0 /\ hitches' = hitches - 1
    /\ condition' = "none"
    /\ unusual' = IF condition = State(enabled) THEN unusual ELSE unusual \union {"unrecorded"}
    /\ UNCHANGED <<tspec, tsecrets, tpods, tpc, cr, toggles, pauses>>

TogglePass ==
    \/ BeginPass \/ reconcileTLSToggle \/ DeleteCerts \/ SetUnsafe
    \/ UnpauseCluster \/ reconcileSSL \/ createSSLByCertManager \/ waitForCerts
    \/ createSSLManualy \/ deployTLS \/ writeTLSStatus
PodStep(p) == StopPod(p) \/ StartPod(p)
ToggleNext ==
    \/ TogglePass \/ Issue \/ FailCall \/ RestartOperator
    \/ ToggleTLS \/ PauseByUser \/ Prune
    \/ \E p \in TLSPods : PodStep(p)
ToggleSpec == ToggleInit /\ [][ToggleNext]_tvars

-----------------------------------------------------------------------------
\* Nodes with TLS and nodes without never run side by side, which is what the
\* stop in reconcileTLSToggle is for, unless the user took the change back in the
\* middle, or the change met a status without the condition, or a StatefulSet
\* whose pods had yet to be created: none of them is seen, the cluster counts as
\* stopped, and the first pod comes with the old template.
NeverMixed ==
    unusual \intersect {"unrecorded", "reverted", "notStarted"} = {} =>
        ~\E p, q \in TLSPods : mode[p] = "tls" /\ mode[q] = "plain"

\* A change of spec.tls.enabled is carried through wherever a pass is cut: in
\* the end the pods run in the mode the spec asks for and the condition says
\* so, unless the user took the change back in the middle (the operator's own
\* pause then stays), or the change met a status without the condition.
ToggleCompleted ==
    unusual \intersect {"unrecorded", "reverted"} = {} =>
      /\ condition = State(enabled)
      /\ wanted \/ \A p \in TLSPods : mode[p] = IF enabled THEN "tls" ELSE "plain"
ToggleCompletes == <>[]ToggleCompleted

\* TLS does not stay on the external certificate alone: where the operator has
\* the secrets made, the internal one follows the other, unless the creation
\* was cut between the two, or a change taken back in the middle of a deletion.
BothSecretsThere ==
    /\ unusual \intersect {"cut", "reverted"} = {} /\ TLSEnabled(enabled, unsafe) /\ ssl = "operator"
    => internal # "none"
BothSecrets == <>[]BothSecretsThere
=============================================================================
