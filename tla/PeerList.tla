------------------------------ MODULE PeerList ------------------------------
(***************************************************************************)
(* peer-list (cmd/peer-list/main.go): polls the SRV records of a headless  *)
(* service and hands the list of peers to a script.  A PXC pod runs it     *)
(* with -on-start to configure the node before mysqld starts; the monitor  *)
(* container of a HAProxy or ProxySQL pod runs it with -on-change to keep  *)
(* the backends.  Time is counted in polls (pollPeriod); a container that  *)
(* ends is started again and finds the files its script wrote.             *)
(***************************************************************************)
EXTENDS Naturals

CONSTANTS Peers,        \* the names a record may have
          WaitPeriod,   \* waitPeriod / pollPeriod, 30 in the code
          MaxChurn,     \* changes of the records
          MaxGlitches   \* failed lookups, failed scripts and kills

ASSUME PeerListBounds == WaitPeriod \in Nat

VARIABLES mode,      \* the flags given: "start", "change" or "both"
          records,   \* the endpoints of the service
          process,   \* runs, down (to be started again), exited
          script,    \* the script the next change is handed to
          peers,     \* the list as last handed over
          isFirst,   \* isFirstUpdate
          since,     \* time.Since(lastChangeTime), at most WaitPeriod
          started,   \* has on-start run, in this process?
          backends,  \* what the script made of the lists, the last one with peers
          stable,    \* polls since the records changed or a glitch, at most
                     \* WaitPeriod + 1
          failed,    \* has a lookup failed, other than by not finding a record?
          churn, glitches

lvars == <<mode, records, process, script, peers, isFirst, since, started,
           backends, stable, failed, churn, glitches>>

\* The scripts given; "none" is the empty string of a flag that is not.
onStart  == IF mode = "change" THEN "none" ELSE "start"
onChange == IF mode = "start" THEN "none" ELSE "change"

PeerListTypeOK ==
    /\ mode \in {"start", "change", "both"} /\ records \subseteq Peers
    /\ process \in {"runs", "down", "exited"} /\ script \in {"none", "start", "change"}
    /\ peers \subseteq Peers /\ backends \subseteq Peers
    /\ since \in 0..WaitPeriod /\ stable \in 0..WaitPeriod + 1
    /\ isFirst \in BOOLEAN /\ started \in BOOLEAN /\ failed \in BOOLEAN
    /\ churn \in 0..MaxChurn /\ glitches \in 0..MaxGlitches

\* main up to the loop: on-change stands in for an on-start that is not given.
Enter ==
    /\ process' = "runs" /\ peers' = {} /\ isFirst' = TRUE /\ since' = 0
    /\ script' = IF onStart = "none" THEN onChange ELSE onStart
    /\ started' = FALSE

PeerListInit ==
    /\ mode \in {"start", "change", "both"} /\ records \in SUBSET Peers
    /\ process = "runs" /\ peers = {} /\ isFirst = TRUE /\ since = 0
    /\ script = IF onStart = "none" THEN onChange ELSE onStart
    /\ started = FALSE /\ backends = {} /\ stable = 0 /\ failed = FALSE
    /\ churn = MaxChurn /\ glitches = MaxGlitches

Later(n, bound) == IF n < bound THEN n + 1 ELSE bound

\* lookup: the endpoints, "notFound" when there is none, "error" when the
\* resolver fails otherwise.
lookup == {IF records = {} THEN "notFound" ELSE "found"} \union
          (IF glitches > 0 THEN {"error"} ELSE {})

\* haproxy_add_pxc_nodes.sh takes a list with no peer for no list at all.
Applied(list) ==
    /\ started' = (started \/ script = "start")
    /\ backends' = IF list # {} THEN list ELSE backends

\* The list differs and may be handed over: the script takes it.
HandOver(newPeers) ==
    /\ peers' = newPeers /\ since' = 0 /\ isFirst' = FALSE
    /\ Applied(newPeers)

Ignored == /\ since' = Later(since, WaitPeriod)
           /\ UNCHANGED <<peers, isFirst, started, backends>>

\* A mutant: an update that comes too soon is remembered as handed over.
IgnoredRemembers(newPeers) ==
    /\ since' = Later(since, WaitPeriod) /\ peers' = newPeers
    /\ UNCHANGED <<isFirst, started, backends>>

CompareRemembers(newPeers) ==
    IF peers # newPeers /\ (isFirst \/ since = WaitPeriod)
    THEN HandOver(newPeers)
    ELSE IgnoredRemembers(newPeers)

Compare(newPeers) ==
    IF peers # newPeers /\ (isFirst \/ since = WaitPeriod)
    THEN HandOver(newPeers)
    ELSE Ignored

\* Having looked at the list once, the loop goes on with on-change, or ends.
GoOn == /\ script' = onChange
        /\ process' = IF onChange = "none" THEN "exited" ELSE "runs"

\* No record: the peers are forgotten and nothing else happens (continue).
NotFound == /\ peers' = {} /\ since' = Later(since, WaitPeriod)
            /\ UNCHANGED <<script, process, isFirst, started, backends>>

\* One turn of the loop.  After an error other than not found the list is
\* empty, and treated like any other.
Poll ==
    /\ process = "runs"
    /\ \E found \in lookup :
         /\ \/ found = "notFound" /\ NotFound
            \/ found = "found" /\ Compare(records) /\ GoOn
            \/ found = "error" /\ Compare({}) /\ GoOn
         /\ stable' = IF found = "error" THEN 0 ELSE Later(stable, WaitPeriod + 1)
         /\ glitches' = IF found = "error" THEN glitches - 1 ELSE glitches
         /\ failed' = (failed \/ found = "error")
    /\ UNCHANGED <<mode, records, churn>>

\* The script fails (log.Fatalf), or the process is told to stop (SIGUSR1).
End == /\ process = "runs" /\ glitches > 0
       /\ process' = "down" /\ glitches' = glitches - 1 /\ stable' = 0
       /\ UNCHANGED <<mode, records, script, peers, isFirst, since, started,
                      backends, failed, churn>>

\* The container is started again.
Restart == /\ process = "down" /\ Enter /\ stable' = 0
           /\ UNCHANGED <<mode, records, backends, failed, churn, glitches>>

\* A pod joins or leaves the service.
Churn == /\ churn > 0 /\ process # "exited"
         /\ \E r \in SUBSET Peers : r # records /\ records' = r
         /\ churn' = churn - 1 /\ stable' = 0
         /\ UNCHANGED <<mode, process, script, peers, isFirst, since, started,
                        backends, failed, glitches>>

PeerListNext == Poll \/ End \/ Restart \/ Churn
PeerListSpec == PeerListInit /\ [][PeerListNext]_lvars

-----------------------------------------------------------------------------
\* A pod goes on to start mysqld only when the script that configures its node
\* has run (pxc-entrypoint.sh runs peer-list to its end first): an unresolved
\* service is waited for.  It does not hold after a lookup that failed
\* otherwise, which counts as a list without peers.
OnStartHasRun == process = "exited" => started \/ failed

\* However often the records changed, disappeared or could not be looked up
\* before, once they have stayed the same for waitPeriod the proxy has exactly
\* these backends: an update ignored for coming too soon is not lost.
UpdatesArrive == script = "change" /\ records # {} /\ stable > WaitPeriod
                    => backends = records

\* The list of peers reaches the script it is for (main of peer-list).
PeersReachTheScript == OnStartHasRun /\ UpdatesArrive
=============================================================================
