---------------------------- MODULE Configuration ----------------------------
(***************************************************************************)
(* How the configuration of the custom resource reaches the pods: the      *)
(* ConfigMaps (pkg/controller/pxc/config.go) and the first half of         *)
(* updatePod (upgrade.go), which hashes what the pods will read into the   *)
(* annotations of the pod template and picks the volume they read it from. *)
(* A Secret the user makes under the name of the ConfigMap goes before it; *)
(* a ConfigMap of that name may be the user's own.  A pod reads what is    *)
(* there when it starts, whatever the hash of its template says.           *)
(*                                                                         *)
(* A configuration is a number, 0 for none; its hash is itself.            *)
(***************************************************************************)
EXTENDS Naturals, Sequences

CONSTANTS CPods,      \* the pods
          MaxValue,   \* configurations are 1..MaxValue
          MaxEdits,   \* changes by the user
          MaxSlips    \* passes that fail, and pods that are lost

VARIABLES want,     \* the sections of the custom resource
          proxyOn,  \* is HAProxy enabled?
          maps,     \* the ConfigMaps
          secret,   \* the user's Secret with a configuration, 0 if there is none
          env,      \* envVarsSecretName
          tmpl,     \* the pod template: hashes and the source of the volume
          pods,     \* what the pods run with
          cpc,      \* idle, hash, set
          hashes,   \* what this call of updatePod has read
          edits, slips

kvars == <<want, proxyOn, maps, secret, env, tmpl, pods, cpc, hashes, edits, slips>>
user  == <<want, proxyOn, secret, env, edits>>

Values  == 0..MaxValue
\* In the order of reconcileConfigMaps; a change of the last counts for nothing.
Order   == <<"autotune", "pxc", "haproxy", "logcollector", "hook">>
Maps    == {Order[i] : i \in 1..Len(Order)}
Owners  == {"nobody", "operator", "user"}
Hash    == {"secret", "map", "none"} \X Values
NoHash  == <<"none", 0>>
NoPod   == [tmpl |-> [conf |-> NoHash, env |-> 0, vol |-> ""], conf |-> NoHash,
            env |-> 0, odd |-> FALSE, up |-> FALSE]

ConfigurationTypeOK ==
    /\ want \in [Maps -> Values] /\ proxyOn \in BOOLEAN
    /\ maps \in [Maps -> [owner : Owners, data : Values]]
    /\ secret \in Values /\ env \in Values
    /\ tmpl \in [conf : Hash, env : Values, vol : {"", "secret", "map"}]
    /\ \A p \in CPods : pods[p].conf \in Hash /\ pods[p].env \in Values
    /\ cpc \in {"idle", "hash", "set"} /\ hashes \in [conf : Hash, env : Values]
    /\ edits \in 0..MaxEdits /\ slips \in 0..MaxSlips

Nobody == [owner |-> "nobody", data |-> 0]

ConfigurationInit ==
    /\ want \in {[m \in Maps |-> v] : v \in {0, 1}} /\ proxyOn \in BOOLEAN
    /\ \E theirs \in {{}, {"pxc"}, {"haproxy", "hook"}} :
         maps = [m \in Maps |-> IF m \in theirs THEN [owner |-> "user", data |-> 2]
                                ELSE Nobody]
    /\ secret = 0 /\ env \in {0, 1}
    /\ tmpl = NoPod.tmpl /\ pods = [p \in CPods |-> NoPod]
    /\ cpc = "idle" /\ hashes = [conf |-> NoHash, env |-> 0]
    /\ edits = MaxEdits /\ slips = MaxSlips

\* What the ConfigMaps are to hold.
reconcileAutotuneConfigMap     == want["autotune"]
reconcileCustomConfigMap       == want["pxc"]
reconcileHAProxyConfigMap      == IF proxyOn THEN want["haproxy"] ELSE 0
reconcileLogcollectorConfigMap == want["logcollector"]
reconcileHookScriptConfigMaps  == want["hook"]
Desired(m) == CASE m = "autotune"     -> reconcileAutotuneConfigMap
                [] m = "pxc"          -> reconcileCustomConfigMap
                [] m = "haproxy"      -> reconcileHAProxyConfigMap
                [] m = "logcollector" -> reconcileLogcollectorConfigMap
                [] m = "hook"         -> reconcileHookScriptConfigMaps

\* The data is replaced, whoever made the ConfigMap.
createOrUpdateConfigmap(c, data) ==
    IF c.owner = "nobody" THEN [owner |-> "operator", data |-> data]
    ELSE [c EXCEPT !.data = data]

deleteConfigMapIfExists(c) == IF c.owner = "operator" THEN Nobody ELSE c

Reconciled(m) == IF Desired(m) = 0 THEN deleteConfigMapIfExists(maps[m])
                 ELSE createOrUpdateConfigmap(maps[m], Desired(m))

\* updatePod begins with the ConfigMaps, one after the other; a call may fail.
\* When one was created or changed the StatefulSet waits for the next call.
reconcileConfigMaps ==
    /\ cpc = "idle"
    /\ \E k \in (IF slips > 0 THEN 0..Len(Order) ELSE {Len(Order)}) :
         /\ maps' = [m \in Maps |-> IF \E i \in 1..k : Order[i] = m THEN Reconciled(m)
                                    ELSE maps[m]]
         /\ cpc' = IF k = Len(Order) /\ \A m \in Maps \ {"hook"} :
                                           Desired(m) # 0 => maps'[m] = maps[m]
                   THEN "hash" ELSE "idle"
         /\ slips' = IF k < Len(Order) THEN slips - 1 ELSE slips
    /\ UNCHANGED <<user, tmpl, pods, hashes>>

\* getFirstExisting
Effective == IF secret # 0 THEN <<"secret", secret>>
             ELSE IF maps["pxc"].owner # "nobody" THEN <<"map", maps["pxc"].data>>
             ELSE NoHash

\* A mutant: only the ConfigMap is hashed.
getConfigHashOfMap ==
    IF maps["pxc"].owner # "nobody" THEN <<"map", maps["pxc"].data>> ELSE NoHash

getConfigHash == Effective
getSecretHash == env

ReadHashes ==
    /\ cpc = "hash" /\ cpc' = "set"
    /\ hashes' = [conf |-> getConfigHash, env |-> getSecretHash]
    /\ UNCHANGED <<user, maps, tmpl, pods, slips>>

\* The annotations of the template are merged with the hashes: an empty one
\* replaces nothing, except that of the configuration.
Merged(old) == IF hashes.env # 0 THEN hashes.env ELSE old.env

\* getConfigVolume, with useDefaultVolume.
getConfigVolume == IF secret # 0 THEN "secret" ELSE "map"

WriteSet ==
    /\ cpc = "set" /\ cpc' = "idle"
    /\ tmpl' = [conf |-> hashes.conf, env |-> Merged(tmpl), vol |-> getConfigVolume]
    /\ UNCHANGED <<user, maps, pods, hashes, slips>>

FailUpdate == /\ cpc # "idle" /\ slips > 0 /\ cpc' = "idle" /\ slips' = slips - 1
              /\ UNCHANGED <<user, maps, tmpl, pods, hashes>>

\* What a pod of the template finds in its volume.
Content == IF tmpl.vol = "secret" THEN <<"secret", secret>>
           ELSE IF maps["pxc"].owner # "nobody" THEN <<"map", maps["pxc"].data>>
           ELSE NoHash

\* A pod starts from the template; without its Secret it cannot.
StartPod(p) ==
    /\ tmpl.vol # "" /\ (tmpl.vol = "secret" => secret # 0)
    /\ pods' = [pods EXCEPT ![p] =
                  [tmpl |-> tmpl, conf |-> Content, env |-> env, up |-> TRUE,
                   odd |-> Content # tmpl.conf \/ env # tmpl.env]]
    /\ UNCHANGED <<user, maps, tmpl, cpc, hashes>>

\* The update of the StatefulSet (applyNWait of SmartUpdate, or the StatefulSet's
\* own controller): a pod of another revision is replaced; and the loss of a pod.
Roll(p)    == pods[p].tmpl # tmpl /\ StartPod(p) /\ UNCHANGED slips
LosePod(p) == /\ pods[p].up /\ pods[p].tmpl = tmpl /\ slips > 0
              /\ slips' = slips - 1 /\ StartPod(p)

EditConfiguration ==
    /\ edits > 0 /\ edits' = edits - 1
    /\ \/ \E m \in Maps, v \in Values : /\ v # want[m] /\ want' = [want EXCEPT ![m] = v]
                                        /\ UNCHANGED <<proxyOn, secret, env>>
       \/ proxyOn' = ~proxyOn /\ UNCHANGED <<want, secret, env>>
       \/ \E v \in Values : v # secret /\ secret' = v /\ UNCHANGED <<want, proxyOn, env>>
       \/ \E v \in Values : v # env /\ env' = v /\ UNCHANGED <<want, proxyOn, secret>>
    /\ UNCHANGED <<maps, tmpl, pods, cpc, hashes, slips>>

UpdatePass == reconcileConfigMaps \/ ReadHashes \/ WriteSet
ConfigurationNext ==
    \/ UpdatePass \/ FailUpdate \/ EditConfiguration
    \/ \E p \in CPods : Roll(p) \/ LosePod(p)
\* The work queue repeats the pass; the StatefulSet is rolled out.
ConfigurationSpec == /\ ConfigurationInit /\ [][ConfigurationNext]_kvars
                     /\ WF_kvars(UpdatePass) /\ \A p \in CPods : WF_kvars(Roll(p))

-----------------------------------------------------------------------------

\* In the end every pod runs with the configuration in force, and with the
\* environment unless that was taken away, whatever was changed between the
\* calls of updatePod.  Excepted are pods that started while what they read
\* and the hash of their template were apart: if the change is then taken
\* back, nothing restarts them.
ConfigurationArrived ==
    /\ \A m \in Maps : Desired(m) # 0 => maps[m].data = Desired(m)
    /\ tmpl.conf = Effective /\ (env # 0 => tmpl.env = env)
    /\ \A p \in CPods : /\ pods[p].tmpl = tmpl
                        /\ pods[p].odd \/ pods[p].conf = Effective
                        /\ pods[p].odd \/ env = 0 \/ pods[p].env = env
ConfigurationArrives == <>[]ConfigurationArrived
=============================================================================
