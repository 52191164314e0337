---------------------------- MODULE CrashRecovery ----------------------------
(***************************************************************************)
(* The recovery from a crash of the whole cluster                          *)
(* (pkg/controller/pxc/full_crash_recovery.go).  A node that finds no      *)
(* primary component when it starts prints a banner with the sequence      *)
(* number of its last transaction and waits (build/pxc-entrypoint.sh); the *)
(* operator reads the logs of all the pods, one call at a time, and tells  *)
(* the node with the largest number to start a new primary component.      *)
(***************************************************************************)
EXTENDS Integers

CONSTANTS LastPod,     \* the highest ordinal of the pods that exist
          MaxSeq,      \* transactions ever committed
          MaxFalls,    \* crashes of a node
          MaxOperator, \* restarts of the operator, failed calls
          MaxResize    \* changes of spec.pxc.size

ASSUME RecoveryBounds ==
    /\ LastPod \in Nat /\ MaxSeq \in Nat \ {0}
    /\ MaxFalls \in Nat /\ MaxOperator \in Nat /\ MaxResize \in Nat

Nodes == 0..LastPod

VARIABLES node,     \* per node: down, waiting, bootstrapping, primary
          seqno,    \* per node: its last transaction
          tail,     \* per node: the number in the last lines of its log
          component,\* the component a primary node is in, a number
          newest,   \* components started so far
          size,     \* spec.pxc.size
          scan,     \* the operator: idle, reading pod scan, signalling, asleep
          best,     \* maxSeq and maxSeqPod
          budget,   \* faults left
          odd       \* which assumptions have been broken

rvars == <<node, seqno, tail, component, newest, size, scan, best, budget,
           odd>>

NoBanner == -2
Idle     == -1
Asleep   == -2

None         == [seq |-> -100, pod |-> -1]

RecoveryTypeOK ==
    /\ node \in [Nodes -> {"down", "waiting", "bootstrapping", "primary"}]
    /\ seqno \in [Nodes -> 0..MaxSeq] /\ tail \in [Nodes -> NoBanner..MaxSeq]
    /\ component \in [Nodes -> Nat] /\ newest \in Nat
    /\ size \in 1..LastPod + 1 /\ scan \in Asleep..LastPod + 1
    /\ best \in [seq : -100..MaxSeq, pod : -1..LastPod]
    /\ budget \in [{"fall", "operator", "resize"} -> Nat]
    /\ odd \subseteq {"resized", "hasty", "rejoined"}

RecoveryInit ==
    /\ node = [n \in Nodes |-> "primary"] /\ seqno = [n \in Nodes |-> 1]
    /\ tail = [n \in Nodes |-> NoBanner]
    /\ component = [n \in Nodes |-> 1] /\ newest = 1
    /\ size = LastPod + 1 /\ scan = Idle /\ best = None
    /\ budget = [fall |-> MaxFalls, operator |-> MaxOperator, resize |-> MaxResize]
    /\ odd = {}

Use(kind) == budget[kind] > 0 /\ budget' = [budget EXCEPT ![kind] = @ - 1]
Primaries == {n \in Nodes : node[n] = "primary"}

-----------------------------------------------------------------------------
\* The nodes.

\* A transaction commits on all the members of the primary component.
Commit ==
    /\ Primaries # {}
    /\ \E c \in {component[n] : n \in Primaries} :
         LET members == {n \in Primaries : component[n] = c}
         IN  /\ \A n \in members : seqno[n] < MaxSeq
             /\ seqno' = [n \in Nodes |-> IF n \in members THEN seqno[n] + 1
                                                           ELSE seqno[n]]
    /\ UNCHANGED <<node, tail, component, newest, size, scan, best, budget,
                   odd>>

\* A node crashes and its container restarts with an empty log.
Fall(n) ==
    /\ node[n] # "down" /\ Use("fall")
    /\ node' = [node EXCEPT ![n] = "down"]
    /\ tail' = [tail EXCEPT ![n] = NoBanner]
    /\ UNCHANGED <<seqno, component, newest, size, scan, best, odd>>

\* The whole cluster loses power.
FallAll ==
    /\ Primaries = Nodes /\ Use("fall")
    /\ node' = [n \in Nodes |-> "down"]
    /\ tail' = [n \in Nodes |-> NoBanner]
    /\ UNCHANGED <<seqno, component, newest, size, scan, best, odd>>

\* The entrypoint: it joins a primary component it can see (and is brought up
\* to date), or prints the banner and waits.  A pod the operator has already
\* read may so get transactions the scan does not know of.
Start(n) ==
    /\ node[n] = "down"
    /\ IF Primaries # {}
       THEN \E p \in Primaries :
              /\ node' = [node EXCEPT ![n] = "primary"]
              /\ seqno' = [seqno EXCEPT ![n] = seqno[p]]
              /\ component' = [component EXCEPT ![n] = component[p]]
              /\ odd' = IF scan > n THEN odd \union {"rejoined"} ELSE odd
              /\ UNCHANGED tail
       ELSE /\ node' = [node EXCEPT ![n] = "waiting"]
            /\ tail' = [tail EXCEPT ![n] = seqno[n]]
            /\ UNCHANGED <<seqno, component, odd>>
    /\ UNCHANGED <<newest, size, scan, best, budget>>

\* A waiting node sees a primary component and exits, to start again.
LeaveWait(n) ==
    /\ node[n] = "waiting" /\ Primaries # {}
    /\ node' = [node EXCEPT ![n] = "down"]
    /\ tail' = [tail EXCEPT ![n] = NoBanner]
    /\ UNCHANGED <<seqno, component, newest, size, scan, best, budget, odd>>

\* node_recovery after the signal: a new primary component.
Bootstrap(n) ==
    /\ node[n] = "bootstrapping"
    /\ node' = [node EXCEPT ![n] = "primary"]
    /\ newest' = newest + 1 /\ component' = [component EXCEPT ![n] = newest + 1]
    /\ UNCHANGED <<seqno, tail, size, scan, best, budget, odd>>

\* The server's own messages push the banner out of the last lines.
Scroll(n) ==
    /\ node[n] \in {"bootstrapping", "primary"} /\ tail[n] # NoBanner
    /\ tail' = [tail EXCEPT ![n] = NoBanner]
    /\ UNCHANGED <<node, seqno, component, newest, size, scan, best, budget,
                   odd>>

-----------------------------------------------------------------------------
\* The operator.

isPodWaitingForRecovery(n) == tail[n] # NoBanner

\* recoverFullClusterCrashIfNeeded: all the pods run, and pod 0 is waiting.
\* (A container that restarts counts as running or not; a pod of this model
\* that is down may be either.)
BeginScan ==
    /\ scan = Idle
    /\ isPodWaitingForRecovery(0)
    /\ scan' = 0 /\ best' = None
    /\ UNCHANGED <<node, seqno, tail, component, newest, size, budget, odd>>

\* The first pod with a larger number than those before it.
Better(n) == IF tail[n] > best.seq THEN [seq |-> tail[n], pod |-> n] ELSE best

\* A mutant: a pod that is not waiting is passed over.
ReadPodSkips ==
    /\ scan \in 0..size - 1
    /\ best' = IF isPodWaitingForRecovery(scan) THEN Better(scan) ELSE best
    /\ scan' = scan + 1
    /\ UNCHANGED <<node, seqno, tail, component, newest, size, budget, odd>>

\* One round of the loop of doFullCrashRecovery; a pod that is not waiting
\* ends it.
ReadPod ==
    /\ scan \in 0..size - 1
    /\ IF isPodWaitingForRecovery(scan)
       THEN best' = Better(scan) /\ scan' = scan + 1
       ELSE best' = None /\ scan' = Idle
    /\ UNCHANGED <<node, seqno, tail, component, newest, size, budget, odd>>

\* kill -s USR1 1: the trap of a waiting entrypoint; mysqld, which has taken
\* its place after an earlier signal, only flushes its logs, and a container
\* that is just starting has no trap yet.  Then the operator sleeps.
Signal ==
    /\ scan >= size
    /\ IF best.pod \in Nodes /\ node[best.pod] = "waiting"
       THEN node' = [node EXCEPT ![best.pod] = "bootstrapping"]
       ELSE UNCHANGED node
    /\ scan' = Asleep /\ best' = None
    /\ UNCHANGED <<seqno, tail, component, newest, size, budget, odd>>

\* A mutant: nothing is waited for.
SleptAtAll == TRUE

SleptEnough == \A n \in Nodes : tail[n] # NoBanner => node[n] = "waiting"

\* The 30 seconds are over.  They are meant to be enough for the server to
\* start and to write more than the banner's lines to its log.
Wake ==
    /\ scan = Asleep /\ SleptEnough
    /\ scan' = Idle
    /\ UNCHANGED <<node, seqno, tail, component, newest, size, best, budget, odd>>

\* A call fails or the operator restarts: the scan is forgotten, or the sleep
\* after a signal is cut short.
Forget ==
    /\ scan # Idle /\ Use("operator")
    /\ scan' = Idle /\ best' = None
    /\ odd' = IF scan = Asleep /\ ~SleptEnough THEN odd \union {"hasty"} ELSE odd
    /\ UNCHANGED <<node, seqno, tail, component, newest, size>>

\* The user lowers the size while all the pods are still there; the pass
\* works with the size it has read, so this happens between two scans.
Resize ==
    /\ scan = Idle /\ Use("resize") /\ size > 1
    /\ size' = size - 1 /\ odd' = odd \union {"resized"}
    /\ UNCHANGED <<node, seqno, tail, component, newest, scan, best>>

Recover == BeginScan \/ ReadPod \/ Signal \/ Wake
NodeStep(n) == Start(n) \/ LeaveWait(n) \/ Bootstrap(n) \/ Scroll(n)
RecoveryNext ==
    \/ Recover \/ Forget \/ Resize \/ Commit \/ FallAll
    \/ \E n \in Nodes : Fall(n) \/ NodeStep(n)
RecoverySpec == RecoveryInit /\ [][RecoveryNext]_rvars

-----------------------------------------------------------------------------
\* No committed transaction is lost: a node is told to start a new component
\* only when none of the others has more than it has, although the logs were
\* read one after the other and nodes fall and return meanwhile, as long as
\* spec.pxc.size counts all the pods that exist, the sleep after the last
\* signal was not cut short and no pod joined a primary component after its
\* log had been read.
NothingLostStep ==
    \A n \in Nodes : node[n] = "waiting" /\ node'[n] = "bootstrapping" /\ odd = {}
      => \A m \in Nodes : seqno[m] <= seqno[n]
NothingLost == [][NothingLostStep]_rvars

\* There is never more than one primary component, under the first two of
\* these assumptions (doFullCrashRecovery).
NoSplitBrain ==
    odd \intersect {"resized", "hasty"} = {} =>
      \A n, m \in Primaries \union {k \in Nodes : node[k] = "bootstrapping"} :
        n # m => /\ node[n] = "primary" /\ node[m] = "primary"
                 /\ component[n] = component[m]

\* When the crashes end, all the nodes are in the primary component again.
Recovered ==
    Primaries = Nodes
Recovers == <>[]Recovered
=============================================================================
