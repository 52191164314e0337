---------------------------- MODULE ClusterProofs ----------------------------
(***************************************************************************)
(* Safety of three parts of the cluster controller, for any number of pods *)
(* and of faults: the smart update, the recovery from a full crash, and    *)
(* the change of TLS.  The parts share no state.                           *)
(***************************************************************************)
EXTENDS SmartUpdate, CrashRecovery, TLSToggle, TLAPS

-----------------------------------------------------------------------------
(***************************************************************************)
(* The smart update.                                                       *)
(***************************************************************************)

\* The smart update has its list, and waits for a pod of it.
Applying == pc \in {"apply", "restart", "synced", "online"}
Waiting  == pc \in {"restart", "synced", "online"}

\* Every pod of the list but the primary is still to come or has been updated,
\* the pod that is waited for is updated once it has been seen to be.
OrderInv ==
    /\ Applying =>
         /\ todo \subseteq DOMAIN list \cup {Last(chosen)}
         /\ \A q \in DOMAIN list \ {chosen} : q \in todo \/ Updated(q)
    /\ Waiting => \E p \in Pods : IsNext(p)
    /\ pc \in {"synced", "online"} => \A p \in todo : IsNext(p) => Updated(p)

\* Undisturbed, only the pod that is waited for is down.
AloneInv ==
    failures = 0 =>
        \A p \in Pods : phase[p] \in Started \/ (pc = "restart" /\ IsNext(p))

\* The inductive invariant of the update.
UpdateInv == TypeOK /\ OrderInv /\ AloneInv

-----------------------------------------------------------------------------
\* One pod comes next.
LEMMA NextIsOne ==
    ASSUME TypeOK, OrderInv, Applying, NEW p, NEW q, IsNext(p), IsNext(q)
    PROVE  p = q
<1>1. CASE p = Last(chosen) \/ q = Last(chosen)
  BY <1>1 DEF IsNext
<1>2. CASE p # Last(chosen) /\ q # Last(chosen)
  <2>1. p <= q /\ q <= p /\ p \in Nat /\ q \in Nat
    BY <1>2 DEF IsNext, OrderInv, TypeOK, Pods
  <2> QED BY <2>1
<1> QED BY Zenon, <1>1, <1>2

\* Init establishes the invariant.
LEMMA UpdateInvInit == Init => UpdateInv
  BY SmartUpdateAssumption
     DEF Init, UpdateInv, TypeOK, OrderInv, AloneInv, Applying, Waiting, NoList,
         Started, Phases, Revisions

\* What a reconcile holds when it has ended is of its type.
LEMMA ForgetTyped ==
    ASSUME ForgetList
    PROVE  /\ target' \in Revisions
           /\ DOMAIN list' \subseteq Pods /\ \A p \in DOMAIN list' : list'[p] \in Revisions
           /\ todo' \subseteq Pods \cup {NoPod} /\ chosen' \in Pods \cup {NoPod}
  BY SmartUpdateAssumption DEF ForgetList, NoList, Revisions

\* The steps of a reconcile keep the types.
LEMMA ReconcileKeepsTypes ==
    ASSUME TypeOK, Reconcile
    PROVE  TypeOK'
<1>1. CASE UpdatePod
  BY Zenon, <1>1 DEF UpdatePod, Goto, processVars, kubeVars, TypeOK
<1>2. CASE ListPods
  BY Zenon, <1>2 DEF ListPods, Listed, Goto, specVars, processVars, kubeVars,
       TypeOK
<1>3. CASE IsBackupRunning
  BY Zenon, <1>3, ForgetTyped DEF IsBackupRunning, Goto, End, specVars,
       processVars,
       kubeVars,
     TypeOK
<1>4. CASE GetPrimaryPod
  BY Zenon, <1>4, ForgetTyped DEF GetPrimaryPod, Last, End, specVars,
       processVars,
       kubeVars, TypeOK
<1>5. CASE ApplyChanges
  BY Zenon, <1>5, ForgetTyped DEF ApplyChanges, Goto, End, specVars,
       processVars,
       TypeOK, Phases
<1>6. CASE WaitPodRestart
  BY Zenon, <1>6 DEF WaitPodRestart, Goto, specVars, processVars, kubeVars,
       TypeOK
<1>7. CASE WaitPXCSynced
  BY Zenon, <1>7 DEF WaitPXCSynced, Goto, specVars, processVars, kubeVars,
       TypeOK
<1>8. CASE WaitUntilOnline
  BY Zenon, <1>8 DEF WaitUntilOnline, specVars, processVars, kubeVars, TypeOK
<1>9. CASE SmartUpdateFinished
  BY Zenon, <1>9, ForgetTyped DEF SmartUpdateFinished, End, specVars,
       processVars,
       kubeVars, TypeOK
<1>10. CASE UpdateStatus
  BY Zenon, <1>10 DEF UpdateStatus, Goto, specVars, processVars, kubeVars,
       TypeOK
<1> QED BY Zenon, <1>1, <1>2, <1>3, <1>4, <1>5, <1>6, <1>7, <1>8, <1>9, <1>10
     DEF
     Reconcile

\* A call that fails, a wait at its limit, a restart of the operator.
Cut == WaitLimit \/ APIError \/ Crash

\* What goes on around the reconcile.
Around ==
    \/ ChangeTemplate \/ ObserveRevision \/ SwitchPrimary \/ BackupSteps
    \/ \E p \in Pods : PodSteps(p)

\* So do failures, edits, pods, the proxy and backups.
LEMMA OthersKeepTypes ==
    ASSUME TypeOK, Cut \/ Around
    PROVE  TypeOK'
<1>1. CASE Cut
  BY <1>1, ForgetTyped, SmartUpdateAssumption DEF Cut, WaitLimit, APIError,
       Crash, Fails, End,
     specVars, kubeVars, TypeOK
<1>2. CASE ChangeTemplate \/ ObserveRevision \/ SwitchPrimary
  BY <1>2, SmartUpdateAssumption DEF ChangeTemplate, ObserveRevision,
       SwitchPrimary, Revisions,
     specVars, kubeVars, processVars, TypeOK
<1>3. CASE BackupSteps
  BY Zenon, <1>3 DEF BackupSteps, CheckBackup, StartBackup, SuspendBackup,
       ResumeBackup,
     EndBackup, specVars, kubeVars, processVars, TypeOK
<1>4. ASSUME NEW p \in Pods, PodSteps(p) PROVE TypeOK'
  <2>1. CASE CreatePod(p)
    BY Zenon, <2>1 DEF CreatePod, specVars, processVars, TypeOK, Phases
  <2>2. CASE PodGone(p) \/ PodReady(p) \/ PodSynced(p) \/ PodOnline(p)
    BY Zenon, <2>2 DEF PodGone, PodReady, PodSynced, PodOnline, Move, specVars,
         processVars,
       TypeOK, Phases
  <2> QED BY Zenon, <1>4, <2>1, <2>2 DEF PodSteps
<1> QED BY Zenon, <1>1, <1>2, <1>3, <1>4 DEF Around

\* What goes on around the reconcile leaves it alone and leaves updated pods
\* updated: a pod that is created was absent.
LEMMA AroundLeaves ==
    ASSUME TypeOK, Around
    PROVE  /\ UNCHANGED <<pc, target, list, todo, chosen, failures>>
           /\ \A q \in Pods : /\ phase[q] \in Started => phase'[q] \in Started
                              /\ Updated(q) => Updated(q)'
<1>1. CASE ChangeTemplate \/ ObserveRevision \/ SwitchPrimary
  BY Zenon, <1>1 DEF ChangeTemplate, ObserveRevision, SwitchPrimary, kubeVars,
       processVars, Updated
<1>2. CASE BackupSteps
  BY Zenon, <1>2 DEF BackupSteps, CheckBackup, StartBackup, SuspendBackup,
       ResumeBackup,
     EndBackup, kubeVars, processVars, Updated
<1>3. ASSUME NEW p \in Pods, PodSteps(p)
      PROVE  /\ UNCHANGED <<pc, target, list, todo, chosen, failures>>
             /\ \A q \in Pods : /\ phase[q] \in Started => phase'[q] \in Started
                                /\ Updated(q) => Updated(q)'
  BY Zenon, <1>3 DEF PodSteps, CreatePod, PodGone, PodReady, PodSynced,
       PodOnline,
       Move,
     Updated, Started, processVars, TypeOK
<1> QED BY Zenon, <1>1, <1>2, <1>3 DEF Around

\* It keeps the order.
LEMMA AroundKeepsOrder ==
    ASSUME TypeOK, OrderInv, Around
    PROVE  OrderInv'
<1>1. /\ UNCHANGED <<pc, target, list, todo, chosen>>
      /\ \A q \in Pods : Updated(q) => Updated(q)'
  BY Zenon, AroundLeaves
<1>2. /\ DOMAIN list \subseteq Pods
      /\ \A p : IsNext(p)' <=> IsNext(p)
  BY Zenon, <1>1 DEF TypeOK, IsNext, Last
<1>3. Waiting => \A p \in todo : IsNext(p) => p \in Pods
  BY Zenon, NextIsOne DEF OrderInv, Waiting, Applying
<1> QED BY Zenon, <1>1, <1>2, <1>3 DEF OrderInv, Applying, Waiting, Last

\* A reconcile has no order before it has a list, nor when it has ended.
LEMMA NoOrder ==
    ASSUME pc' \in {"idle", "list", "backups", "primary", "status", "failed"}
    PROVE  OrderInv'
  BY Zenon DEF OrderInv, Applying, Waiting

\* Every step of a reconcile keeps the order.
LEMMA ReconcileKeepsOrder ==
    ASSUME TypeOK, OrderInv, Reconcile
    PROVE  OrderInv'
<1>1. CASE UpdatePod \/ ListPods \/ IsBackupRunning \/ SmartUpdateFinished \/ UpdateStatus
  BY Zenon, <1>1, NoOrder DEF UpdatePod, ListPods, IsBackupRunning,
       SmartUpdateFinished,
     UpdateStatus, Goto, End
<1>2. CASE GetPrimaryPod
  <2>1. CASE pc' = "failed"
    BY Zenon, <2>1, NoOrder
  <2>2. CASE pc' # "failed"
    BY Zenon, <1>2, <2>2 DEF GetPrimaryPod, End, OrderInv, Waiting, Last
  <2> QED BY Zenon, <2>1, <2>2
<1>3. CASE ApplyChanges
  <2>1. CASE pc' = "failed"
    BY Zenon, <2>1, NoOrder
  <2>2. CASE pc' # "failed"
    <3>1. PICK p \in todo : /\ IsNext(p) /\ p # NoPod /\ pc = "apply" /\ pc' = "restart"
                            /\ UNCHANGED <<target, list, todo, chosen, podRevision>>
                            /\ phase' = phase \/ phase' = [phase EXCEPT ![p] = "terminating"]
      BY Zenon, <1>3, <2>2 DEF ApplyChanges, Goto, End, processVars
    <3>2. p \in Pods /\ IsNext(p)'
      BY Zenon, <3>1 DEF TypeOK, IsNext, Last
    <3>3. \A q \in DOMAIN list : q # p => (Updated(q) <=> Updated(q)')
      BY Zenon, <3>1 DEF TypeOK, Updated
    <3> QED BY Zenon, <3>1, <3>2, <3>3 DEF OrderInv, Applying, Waiting, Last
  <2> QED BY Zenon, <2>1, <2>2
<1>4. CASE WaitPodRestart
  <2>1. /\ UNCHANGED <<target, list, todo, chosen, phase, podRevision>>
        /\ pc = "restart" /\ pc' \in {"restart", "synced"}
        /\ pc' = "synced" => \E p \in todo : IsNext(p) /\ Updated(p)
    BY Zenon, <1>4 DEF WaitPodRestart, Goto, kubeVars, processVars
  <2>2. \A p : (IsNext(p) <=> IsNext(p)') /\ (Updated(p) <=> Updated(p)')
    BY Zenon, <2>1 DEF IsNext, Last, Updated
  <2>3. pc' = "synced" => \A p \in todo : IsNext(p) => Updated(p)
    BY Zenon, <2>1, NextIsOne DEF Applying
  <2> QED BY Zenon, <2>1, <2>2, <2>3 DEF OrderInv, Applying, Waiting, Last
<1>5. CASE WaitPXCSynced
  <2>1. /\ UNCHANGED <<target, list, todo, chosen, phase, podRevision>>
        /\ pc = "synced" /\ pc' = "online"
    BY Zenon, <1>5 DEF WaitPXCSynced, Goto, kubeVars, processVars
  <2>2. \A p : (IsNext(p) <=> IsNext(p)') /\ (Updated(p) <=> Updated(p)')
    BY Zenon, <2>1 DEF IsNext, Last, Updated
  <2> QED BY Zenon, <2>1, <2>2 DEF OrderInv, Applying, Waiting, Last
<1>6. CASE WaitUntilOnline
  <2>1. PICK p \in todo : /\ IsNext(p) /\ todo' = todo \ {p} /\ pc = "online" /\ pc' = "apply"
                          /\ UNCHANGED <<target, list, chosen, phase, podRevision>>
    BY Zenon, <1>6 DEF WaitUntilOnline, kubeVars
  <2>2. Updated(p) /\ \A q : Updated(q) <=> Updated(q)'
    BY Zenon, <2>1 DEF OrderInv, Updated
  <2> QED BY Zenon, <2>1, <2>2 DEF OrderInv, Applying, Waiting, Last
<1> QED BY Zenon, <1>1, <1>2, <1>3, <1>4, <1>5, <1>6 DEF Reconcile

\* Undisturbed, the pod that is waited for stays the only one that is down.
LEMMA AloneNext ==
    ASSUME TypeOK, OrderInv, AloneInv, Reconcile \/ Cut \/ Around
    PROVE  AloneInv'
<1> SUFFICES ASSUME failures' = 0, NEW q \in Pods
             PROVE  phase'[q] \in Started \/ (pc' = "restart" /\ IsNext(q)')
  BY Zenon DEF AloneInv
<1>1. CASE Cut
  BY <1>1, SmartUpdateAssumption DEF Cut, WaitLimit, APIError, Crash, Fails,
       TypeOK
<1>2. CASE Around
  BY Zenon, <1>2, AroundLeaves DEF AloneInv, IsNext, Last
<1>3. CASE UpdatePod \/ ListPods \/ IsBackupRunning \/ GetPrimaryPod
           \/ SmartUpdateFinished \/ UpdateStatus
  BY Zenon, <1>3 DEF UpdatePod, ListPods, IsBackupRunning, GetPrimaryPod,
       SmartUpdateFinished,
     UpdateStatus, kubeVars, AloneInv
<1>4. CASE ApplyChanges
  <2>1. failures = 0 /\ phase[q] \in Started
    BY Zenon, <1>4 DEF ApplyChanges, AloneInv
  <2> QED BY <1>4, <2>1 DEF ApplyChanges, Goto, processVars, TypeOK, IsNext,
       Last
<1>5. CASE WaitPodRestart
  <2>1. /\ failures = 0 /\ UNCHANGED <<list, todo, chosen, phase>> /\ pc' \in {"restart", "synced"}
        /\ pc' = "synced" => \E p \in todo : IsNext(p) /\ phase[p] \in Started
        /\ pc = "restart"
    BY Zenon, <1>5 DEF WaitPodRestart, Goto, kubeVars, processVars, Updated
  <2>2. pc' = "synced" => \A p : IsNext(p) => phase[p] \in Started
    BY Zenon, <2>1, NextIsOne DEF Applying
  <2> QED BY Zenon, <2>1, <2>2 DEF AloneInv, IsNext, Last
<1>6. CASE WaitPXCSynced \/ WaitUntilOnline
  BY Zenon, <1>6 DEF WaitPXCSynced, WaitUntilOnline, kubeVars, AloneInv
<1> QED BY Zenon, <1>1, <1>2, <1>3, <1>4, <1>5, <1>6 DEF Reconcile

\* The invariant is inductive.
LEMMA UpdateInvNext == UpdateInv /\ [Next]_vars => UpdateInv'
<1> SUFFICES ASSUME UpdateInv, [Next]_vars PROVE UpdateInv'
  OBVIOUS
<1>1. CASE UNCHANGED vars
  BY <1>1 DEF vars, specVars, kubeVars, processVars, UpdateInv, TypeOK,
       OrderInv, AloneInv,
     Applying, Waiting, Updated, IsNext, Last
<1>2. CASE Reconcile
  BY Zenon, <1>2, ReconcileKeepsTypes, ReconcileKeepsOrder, AloneNext DEF
       UpdateInv
<1>3. CASE Cut
  <2>1. OrderInv'
    BY Zenon, <1>3, NoOrder DEF Cut, WaitLimit, APIError, Crash, End
  <2> QED BY Zenon, <1>3, <2>1, OthersKeepTypes, AloneNext DEF UpdateInv
<1>4. CASE Around
  BY Zenon, <1>4, OthersKeepTypes, AroundKeepsOrder, AloneNext DEF UpdateInv
<1> QED BY Zenon, <1>1, <1>2, <1>3, <1>4 DEF Next, Cut, Around

\* Whatever the number of pods, revisions and backups, as long as no reconcile
\* is cut short the smart update has at most one pod down (applyNWait).
THEOREM OneDownAtATime == Spec => []OnePodDown
<1>1. UpdateInv => OnePodDown
  BY Zenon, NextIsOne DEF UpdateInv, AloneInv, OnePodDown, Down, Applying
<1> QED BY <1>1, UpdateInvInit, UpdateInvNext, PTL DEF Spec

\* Whatever the number of pods, however the primary moves, reconciles are cut
\* short and pods come and go, the pod that had the writes when the pods were
\* listed is deleted only after all others of the list run the update revision.
THEOREM PrimaryComesLast == Spec => PrimaryLast
<1>1. UpdateInv /\ [Next]_vars => [PrimaryLastStep]_vars
  <2> SUFFICES ASSUME UpdateInv, Next, NEW p \in Pods, Deletes(p), p = chosen,
                      NEW q \in DOMAIN list \ {p}
               PROVE  podRevision[q] = target
    BY Zenon DEF PrimaryLastStep
  <2>1. ApplyChanges
    BY Zenon DEF Next, Reconcile, UpdatePod, ListPods, IsBackupRunning,
         GetPrimaryPod,
       SmartUpdateFinished, UpdateStatus, WaitPodRestart, WaitPXCSynced, WaitUntilOnline,
       WaitLimit, APIError, Crash, ChangeTemplate, ObserveRevision, SwitchPrimary,
       PodSteps, CreatePod, PodGone, PodReady, PodSynced, PodOnline, Move,
       BackupSteps, CheckBackup, StartBackup, SuspendBackup, ResumeBackup, EndBackup,
       kubeVars, Deletes, UpdateInv, TypeOK
  <2>2. IsNext(p) /\ p # NoPod
    BY Zenon, <2>1, SmartUpdateAssumption DEF ApplyChanges, Deletes, UpdateInv,
         TypeOK,
         Pods
  <2>3. p = Last(chosen)
    BY Zenon, <2>1, <2>2 DEF ApplyChanges, IsNext, UpdateInv, OrderInv,
         Applying, Last
  <2> QED BY Zenon, <2>1, <2>2, <2>3 DEF IsNext, ApplyChanges, UpdateInv,
       OrderInv, Applying, Updated
<1> QED BY <1>1, UpdateInvInit, UpdateInvNext, PTL DEF Spec, PrimaryLast

-----------------------------------------------------------------------------
(***************************************************************************)
(* The recovery from a full crash.                                         *)
(***************************************************************************)

Booting == {n \in Nodes : node[n] = "bootstrapping"}
Counted == odd \intersect {"resized", "hasty"} = {}

\* The banner of a waiting node tells its last transaction.
BannerIsTrue == \A n \in Nodes : node[n] = "waiting" => tail[n] = seqno[n]

\* While the operator is awake only waiting nodes show a banner.
BannersWait ==
    scan # Asleep => \A n \in Nodes : tail[n] # NoBanner => node[n] = "waiting"

\* A scan that goes on after a component has come up has not yet read a node
\* that will end it.
ScanWillEnd ==
    scan >= 0 =>
      /\ \A b \in Booting : b >= scan
      /\ Primaries # {} => \E m \in Nodes : m >= scan /\ node[m] # "waiting"

\* The pods already read stand still, and best is the largest number of them.
ScanKnows ==
    odd = {} /\ scan >= 0 =>
      /\ \A j \in Nodes :
           j < scan => node[j] \in {"waiting", "down"} /\ seqno[j] <= best.seq
      /\ scan = 0 => best = None
      /\ scan > 0 =>
           best.pod \in Nodes /\ best.pod < scan /\ seqno[best.pod] = best.seq

\* The inductive invariant of the recovery.
CrashInv ==
    /\ RecoveryTypeOK /\ BannerIsTrue /\ NoSplitBrain
    /\ Counted => size = LastPod + 1 /\ BannersWait /\ ScanWillEnd
    /\ ScanKnows

\* The invariant holds at first,
LEMMA CrashInit == RecoveryInit => CrashInv
  <1> SUFFICES ASSUME RecoveryInit PROVE CrashInv
    OBVIOUS
  <1> USE RecoveryBounds DEF RecoveryInit, Nodes
  <1>1. RecoveryTypeOK
    BY DEF RecoveryTypeOK, NoBanner, Idle, Asleep, None
  <1>2. BannerIsTrue /\ NoSplitBrain
    BY Zenon DEF BannerIsTrue, NoSplitBrain, Primaries
  <1>3. size = LastPod + 1 /\ BannersWait /\ ScanWillEnd /\ ScanKnows
    BY DEF BannersWait, ScanWillEnd, ScanKnows, Idle
  <1> QED BY Zenon, <1>1, <1>2, <1>3 DEF CrashInv

\* every step keeps the types,
LEMMA CrashType ==
    ASSUME RecoveryTypeOK, [RecoveryNext]_rvars
    PROVE  RecoveryTypeOK'
  <1> USE RecoveryBounds DEF RecoveryTypeOK, NoBanner, Idle, Asleep
  <1>1. CASE BeginScan
    BY <1>1 DEF BeginScan, None
  <1>2. CASE ReadPod
    <2>1. scan \in Nodes /\ scan + 1 \in Asleep..LastPod + 1
      BY <1>2 DEF ReadPod, Nodes
    <2>2. Better(scan) \in [seq : -100..MaxSeq, pod : -1..LastPod]
      <3>0. tail[scan] \in -100..MaxSeq
        BY <2>1
      <3>1. tail[scan] \in -100..MaxSeq /\ scan \in -1..LastPod
        BY <2>1, <3>0 DEF Nodes
      <3>2. [seq |-> tail[scan], pod |-> scan]
               \in [seq : -100..MaxSeq, pod : -1..LastPod]
        BY Zenon, <3>1
      <3> QED BY Zenon, <3>2 DEF Better
    <2>3. best' \in [seq : -100..MaxSeq, pod : -1..LastPod]
          /\ scan' \in Asleep..LastPod + 1
      BY <1>2, <2>1, <2>2 DEF ReadPod, None
    <2> QED BY Zenon, <1>2, <2>3 DEF ReadPod
  <1>3. CASE Signal
    BY <1>3 DEF Signal, None
  <1>4. CASE Wake
    BY <1>4 DEF Wake
  <1>5. CASE Forget
    BY <1>5 DEF Forget, Use, None
  <1>6. CASE Resize
    BY <1>6 DEF Resize, Use
  <1>7. CASE Commit
    <2> PICK c \in {component[n] : n \in Primaries} :
            /\ \A n \in Primaries : component[n] = c => seqno[n] < MaxSeq
            /\ seqno' = [n \in Nodes |->
                           IF n \in {k \in Primaries : component[k] = c}
                           THEN seqno[n] + 1 ELSE seqno[n]]
      BY Zenon, <1>7 DEF Commit
    <2>1. seqno' \in [Nodes -> 0..MaxSeq]
      BY DEF Primaries
    <2> QED BY Zenon, <1>7, <2>1 DEF Commit
  <1>8. CASE FallAll
    BY <1>8 DEF FallAll, Use
  <1>9. ASSUME NEW n \in Nodes, Fall(n) PROVE RecoveryTypeOK'
    BY <1>9 DEF Fall, Use
  <1>10. ASSUME NEW n \in Nodes, Start(n) PROVE RecoveryTypeOK'
    <2>1. CASE Primaries # {}
      <3> PICK p \in Primaries :
              /\ node' = [node EXCEPT ![n] = "primary"]
              /\ seqno' = [seqno EXCEPT ![n] = seqno[p]]
              /\ component' = [component EXCEPT ![n] = component[p]]
        BY Zenon, <1>10, <2>1 DEF Start
      <3>1. p \in Nodes
        BY Zenon DEF Primaries
      <3>2. odd' \subseteq {"resized", "hasty", "rejoined"}
        BY Zenon, <1>10, <2>1 DEF Start
      <3> QED BY Zenon, <1>10, <2>1, <3>1, <3>2 DEF Start
    <2>2. CASE Primaries = {}
      <3>1. seqno[n] \in NoBanner..MaxSeq
        OBVIOUS
      <3> QED BY Zenon, <1>10, <2>2, <3>1 DEF Start
    <2> QED BY Zenon, <2>1, <2>2
  <1>11. ASSUME NEW n \in Nodes, LeaveWait(n) PROVE RecoveryTypeOK'
    BY <1>11 DEF LeaveWait
  <1>12. ASSUME NEW n \in Nodes, Bootstrap(n) PROVE RecoveryTypeOK'
    BY <1>12 DEF Bootstrap
  <1>13. ASSUME NEW n \in Nodes, Scroll(n) PROVE RecoveryTypeOK'
    BY <1>13 DEF Scroll
  <1>14. CASE UNCHANGED rvars
    BY Zenon, <1>14 DEF rvars
  <1> QED
    BY Zenon, <1>1, <1>2, <1>3, <1>4, <1>5, <1>6, <1>7, <1>8, <1>9, <1>10,
         <1>11,
       <1>12, <1>13, <1>14 DEF RecoveryNext, Recover, NodeStep

\* A scan that has read every pod has found them all waiting or down: nothing
\* is up when the operator sends its signal.
LEMMA NothingUpAtSignal ==
    ASSUME CrashInv, Counted, scan >= size
    PROVE  Primaries = {} /\ Booting = {}
  <1>1. scan = LastPod + 1 /\ scan >= 0 /\ \A m \in Nodes : ~(m >= scan)
    BY RecoveryBounds DEF CrashInv, RecoveryTypeOK, Nodes, Asleep
  <1> QED BY Zenon, <1>1 DEF CrashInv, ScanWillEnd, Booting

\* and every step keeps it.
LEMMA CrashStep ==
    ASSUME CrashInv, [RecoveryNext]_rvars
    PROVE  CrashInv'
  <1> USE RecoveryBounds DEF Counted
  <1>0. RecoveryTypeOK /\ RecoveryTypeOK'
    BY Zenon, CrashType DEF CrashInv
  <1> SUFFICES /\ BannerIsTrue' /\ NoSplitBrain' /\ ScanKnows'
               /\ Counted' => (size = LastPod + 1 /\ BannersWait /\ ScanWillEnd)'
    BY Zenon, <1>0 DEF CrashInv
  <1>1. CASE BeginScan
    <2> USE <1>1 DEF BeginScan
    <2>1. BannerIsTrue' /\ NoSplitBrain'
      BY Zenon DEF CrashInv, BannerIsTrue, NoSplitBrain, Primaries
    <2>2. ScanKnows'
      BY DEF ScanKnows, Nodes
    <2>3. ASSUME Counted PROVE (size = LastPod + 1 /\ BannersWait)'
      BY <2>3 DEF CrashInv, BannersWait, Idle, Asleep
    <2>4. ScanWillEnd'
      BY DEF ScanWillEnd, Booting, Primaries, Nodes
    <2> QED BY Zenon, <2>1, <2>2, <2>3, <2>4
  <1>2. CASE ReadPod /\ isPodWaitingForRecovery(scan)
    <2> USE <1>2 DEF ReadPod
    <2>1. scan \in Nodes /\ scan' = scan + 1 /\ best' = Better(scan) /\ scan # Asleep
      BY <1>0 DEF RecoveryTypeOK, Nodes, Asleep
    <2>2. BannerIsTrue' /\ NoSplitBrain'
      BY Zenon DEF CrashInv, BannerIsTrue, NoSplitBrain, Primaries
    <2>3. ASSUME Counted
          PROVE  node[scan] = "waiting" /\ tail[scan] = seqno[scan]
      BY Zenon, <2>1, <2>3 DEF CrashInv, BannersWait, BannerIsTrue,
           isPodWaitingForRecovery
    <2>4. ASSUME Counted PROVE (size = LastPod + 1 /\ BannersWait /\ ScanWillEnd)'
      <3>1. (size = LastPod + 1 /\ BannersWait)'
        BY Zenon, <2>1, <2>4 DEF CrashInv, BannersWait
      <3>2. scan >= 0 /\ \A m \in Nodes : m >= scan /\ m # scan => m >= scan + 1
        BY <2>1 DEF Nodes
      <3>3. ScanWillEnd'
        BY Zenon, <2>1, <2>3, <2>4, <3>2 DEF CrashInv, ScanWillEnd, Booting,
             Primaries
      <3> QED BY Zenon, <3>1, <3>3
    <2>5. ASSUME odd = {} PROVE ScanKnows'
      <3>1. node[scan] = "waiting" /\ tail[scan] = seqno[scan]
        BY Zenon, <2>3, <2>5
      <3>2. scan \in Nat /\ \A j \in Nodes : j \in Nat /\ seqno[j] \in Nat
        <4>1. scan \in Nat /\ \A j \in Nodes : j \in Nat
          BY <2>1 DEF Nodes
        <4>2. \A j \in Nodes : seqno[j] \in Nat
          BY <1>0 DEF RecoveryTypeOK
        <4> QED BY Zenon, <4>1, <4>2
      <3>3. best.seq \in Int /\ (scan = 0 => best.seq = -100)
        BY <1>0, <2>5 DEF CrashInv, ScanKnows, None, RecoveryTypeOK
      <3>4. /\ \A j \in Nodes :
                 j < scan => node[j] \in {"waiting", "down"} /\ seqno[j] <= best.seq
            /\ scan > 0 =>
                 best.pod \in Nodes /\ best.pod < scan /\ seqno[best.pod] = best.seq
        BY <2>5, <3>2 DEF CrashInv, ScanKnows
      <3>5. CASE tail[scan] > best.seq
        <4>1. best' = [seq |-> seqno[scan], pod |-> scan]
          BY Zenon, <2>1, <3>1, <3>5 DEF Better
        <4> QED BY <2>1, <3>1, <3>2, <3>3, <3>4, <3>5, <4>1 DEF
             ScanKnows
      <3>6. CASE ~(tail[scan] > best.seq)
        <4>1. best' = best /\ scan > 0
          BY <2>1, <3>1, <3>2, <3>3, <3>6 DEF Better
        <4>2. \A j \in Nodes : j < scan + 1 => j < scan \/ j = scan
          BY <3>2
        <4>3. seqno[scan] <= best.seq
          BY <2>1, <3>1, <3>2, <3>3, <3>6
        <4>4. best.pod \in Nodes /\ best.pod < scan + 1 /\ scan + 1 # 0
          BY <3>2, <3>4, <4>1
        <4> QED BY Zenon, <2>1, <3>1, <3>4, <4>1, <4>2, <4>3, <4>4 DEF ScanKnows
      <3> QED BY Zenon, <3>5, <3>6
    <2>6. odd # {} => ScanKnows'
      BY Zenon DEF ScanKnows
    <2> QED BY Zenon, <2>2, <2>4, <2>5, <2>6
  <1>3. CASE ReadPod /\ ~isPodWaitingForRecovery(scan)
    <2> USE <1>3 DEF ReadPod
    <2>1. BannerIsTrue' /\ NoSplitBrain' /\ ScanKnows' /\ ScanWillEnd'
      BY DEF CrashInv, BannerIsTrue, NoSplitBrain, Primaries, ScanKnows,
           ScanWillEnd, Idle
    <2>2. ASSUME Counted PROVE (size = LastPod + 1 /\ BannersWait)'
      BY <2>2 DEF CrashInv, BannersWait, Asleep
    <2> QED BY Zenon, <2>1, <2>2
  <1>4. CASE Signal
    <2> USE <1>4 DEF Signal
    <2>1. ScanKnows' /\ ScanWillEnd' /\ BannersWait' /\ UNCHANGED <<size, odd>>
      BY DEF ScanKnows, ScanWillEnd, BannersWait, Asleep
    <2>2. ~Counted \/ (size = LastPod + 1)'
      BY Zenon DEF CrashInv
    <2>3. CASE best.pod \in Nodes /\ node[best.pod] = "waiting"
      <3>1. node' = [node EXCEPT ![best.pod] = "bootstrapping"]
        BY Zenon, <2>3
      <3>2. BannerIsTrue'
        BY Zenon, <1>0, <2>3, <3>1 DEF CrashInv, BannerIsTrue, RecoveryTypeOK
      <3>3. ASSUME Counted PROVE \A k \in Nodes :
              node'[k] \in {"primary", "bootstrapping"} => k = best.pod
        BY Zenon, <1>0, <2>3, <3>1, <3>3, NothingUpAtSignal
        DEF Primaries, Booting, RecoveryTypeOK
      <3>4. NoSplitBrain'
        BY Zenon, <2>1, <3>3 DEF NoSplitBrain, Primaries
      <3> QED BY Zenon, <2>1, <2>2, <3>2, <3>4
    <2>4. CASE ~(best.pod \in Nodes /\ node[best.pod] = "waiting")
      <3>1. BannerIsTrue' /\ NoSplitBrain'
        BY Zenon, <2>4 DEF CrashInv, BannerIsTrue, NoSplitBrain, Primaries
      <3> QED BY Zenon, <2>1, <2>2, <3>1
    <2> QED BY Zenon, <2>3, <2>4
  <1>5. CASE Wake
    <2> USE <1>5 DEF Wake
    <2>1. BannerIsTrue' /\ NoSplitBrain' /\ ScanKnows' /\ ScanWillEnd'
      BY DEF CrashInv, BannerIsTrue, NoSplitBrain, Primaries,
           ScanKnows,
           ScanWillEnd, Idle
    <2>2. Counted => (size = LastPod + 1 /\ BannersWait)'
      BY Zenon DEF CrashInv, BannersWait, SleptEnough
    <2> QED BY Zenon, <2>1, <2>2
  <1>6. CASE Forget
    <2> USE <1>6 DEF Forget
    <2>1. BannerIsTrue' /\ ScanKnows' /\ ScanWillEnd'
      BY DEF CrashInv, BannerIsTrue, ScanKnows, ScanWillEnd, Idle
    <2>2. odd \subseteq odd'
      OBVIOUS
    <2>3. NoSplitBrain'
      BY Zenon, <2>2 DEF CrashInv, NoSplitBrain, Primaries
    <2>4. ASSUME Counted' PROVE (size = LastPod + 1 /\ BannersWait)'
      <3>1. Counted
        BY Zenon, <2>2, <2>4
      <3>2. scan = Asleep => SleptEnough
        BY Zenon, <2>4
      <3> QED BY Zenon, <3>1, <3>2 DEF CrashInv, BannersWait, SleptEnough
    <2> QED BY Zenon, <2>1, <2>3, <2>4
  <1>7. CASE Resize
    <2> USE <1>7 DEF Resize
    <2>1. BannerIsTrue' /\ ScanKnows'
      BY Zenon DEF CrashInv, BannerIsTrue, ScanKnows
    <2>2. ~Counted'
      OBVIOUS
    <2> QED BY Zenon, <2>1, <2>2 DEF NoSplitBrain
  <1>8. CASE Commit
    <2> USE <1>8 DEF Commit
    <2>1. \A n \in Nodes : node[n] # "primary" => seqno'[n] = seqno[n]
      BY ZenonT(90) DEF Primaries
    <2>2. BannerIsTrue' /\ NoSplitBrain'
      BY Zenon, <2>1 DEF CrashInv, BannerIsTrue, NoSplitBrain, Primaries
    <2>3. ScanKnows'
      BY Zenon, <2>1 DEF CrashInv, ScanKnows
    <2>4. Counted => (size = LastPod + 1 /\ BannersWait /\ ScanWillEnd)'
      BY Zenon DEF CrashInv, BannersWait, ScanWillEnd, Primaries, Booting
    <2> QED BY Zenon, <2>2, <2>3, <2>4
  <1>9. CASE FallAll
    <2> USE <1>9 DEF FallAll
    <2>1. \A n \in Nodes : node'[n] = "down" /\ tail'[n] = NoBanner
      OBVIOUS
    <2>2. BannerIsTrue' /\ NoSplitBrain'
      BY Zenon, <2>1 DEF BannerIsTrue, NoSplitBrain, Primaries
    <2>3. ScanKnows'
      BY Zenon, <2>1 DEF CrashInv, ScanKnows
    <2>4. Counted => (size = LastPod + 1 /\ BannersWait /\ ScanWillEnd)'
      BY Zenon, <2>1 DEF CrashInv, BannersWait, ScanWillEnd, Primaries,
           Booting
    <2> QED BY Zenon, <2>2, <2>3, <2>4
  <1>10. ASSUME NEW n \in Nodes, Fall(n) \/ LeaveWait(n)
         PROVE  CrashInv'
    <2>1. /\ UNCHANGED <<seqno, component, size, scan, best, odd>>
          /\ node'[n] = "down" /\ tail'[n] = NoBanner
          /\ \A k \in Nodes : k # n => node'[k] = node[k] /\ tail'[k] = tail[k]
      BY Zenon, <1>0, <1>10 DEF Fall, LeaveWait, RecoveryTypeOK
    <2>2. BannerIsTrue' /\ NoSplitBrain'
      BY <2>1 DEF CrashInv, BannerIsTrue, NoSplitBrain, Primaries
    <2>3. ScanKnows'
      BY Zenon, <2>1 DEF CrashInv, ScanKnows
    <2>4. Counted => (size = LastPod + 1 /\ BannersWait)'
      BY Zenon, <2>1 DEF CrashInv, BannersWait
    <2>5. Counted => ScanWillEnd'
      BY Zenon, <2>1 DEF CrashInv, ScanWillEnd, Primaries, Booting
    <2> QED BY Zenon, <1>0, <2>1, <2>2, <2>3, <2>4, <2>5 DEF CrashInv
  <1>11. ASSUME NEW n \in Nodes, Start(n), Primaries # {}
         PROVE  CrashInv'
    <2> PICK p \in Primaries :
            /\ node' = [node EXCEPT ![n] = "primary"]
            /\ seqno' = [seqno EXCEPT ![n] = seqno[p]]
            /\ component' = [component EXCEPT ![n] = component[p]]
            /\ odd' = IF scan > n THEN odd \union {"rejoined"} ELSE odd
            /\ UNCHANGED tail
      BY Zenon, <1>11 DEF Start
    <2>0. p \in Nodes /\ node[p] = "primary"
      BY Zenon DEF Primaries
    <2>1. /\ node[n] = "down" /\ node'[n] = "primary" /\ component'[n] = component[p]
          /\ \A k \in Nodes : k # n => /\ node'[k] = node[k]
                                       /\ seqno'[k] = seqno[k]
                                       /\ component'[k] = component[k]
          /\ UNCHANGED <<tail, size, scan, best>>
      BY Zenon, <1>0, <1>11 DEF Start, RecoveryTypeOK
    <2>2. Counted' = Counted
      OBVIOUS
    <2>3. BannerIsTrue'
      BY Zenon, <2>1 DEF CrashInv, BannerIsTrue
    <2>4. NoSplitBrain'
      BY <2>0, <2>1, <2>2 DEF CrashInv, NoSplitBrain, Primaries
    <2>5. Counted => (size = LastPod + 1 /\ BannersWait)'
      BY Zenon, <2>1 DEF CrashInv, BannersWait
    <2>6. Counted => ScanWillEnd'
      BY <1>11, <2>1 DEF CrashInv, ScanWillEnd, Primaries, Booting
    <2>7. ASSUME odd' = {}, scan >= 0 PROVE odd = {} /\ ~(n < scan)
      BY Zenon, <1>0, <2>7 DEF RecoveryTypeOK, Nodes
    <2>8. ScanKnows'
      BY Zenon, <2>1, <2>7 DEF CrashInv, ScanKnows
    <2> QED BY Zenon, <1>0, <2>2, <2>3, <2>4, <2>5, <2>6, <2>8 DEF CrashInv
  <1>12. ASSUME NEW n \in Nodes, Start(n), Primaries = {}
         PROVE  CrashInv'
    <2>1. /\ node[n] = "down" /\ node'[n] = "waiting" /\ tail'[n] = seqno[n]
          /\ \A k \in Nodes : k # n => node'[k] = node[k] /\ tail'[k] = tail[k]
          /\ UNCHANGED <<seqno, component, size, scan, best, odd>>
      BY Zenon, <1>0, <1>12 DEF Start, RecoveryTypeOK
    <2>2. BannerIsTrue' /\ NoSplitBrain'
      BY <2>1 DEF CrashInv, BannerIsTrue, NoSplitBrain, Primaries
    <2>3. ScanKnows'
      BY Zenon, <2>1 DEF CrashInv, ScanKnows
    <2>4. Counted => (size = LastPod + 1 /\ BannersWait)'
      BY ZenonT(90), <2>1 DEF CrashInv, BannersWait
    <2>5. Counted => ScanWillEnd'
      BY Zenon, <1>12, <2>1 DEF CrashInv, ScanWillEnd, Primaries, Booting
    <2> QED BY Zenon, <1>0, <2>1, <2>2, <2>3, <2>4, <2>5 DEF CrashInv
  <1>13. ASSUME NEW n \in Nodes, Bootstrap(n)
         PROVE  CrashInv'
    <2>1. /\ node[n] = "bootstrapping" /\ node'[n] = "primary"
          /\ \A k \in Nodes : k # n => node'[k] = node[k] /\ component'[k] = component[k]
          /\ UNCHANGED <<seqno, tail, size, scan, best, odd>>
      BY Zenon, <1>0, <1>13 DEF Bootstrap, RecoveryTypeOK
    <2>2. BannerIsTrue'
      BY Zenon, <2>1 DEF CrashInv, BannerIsTrue
    <2>3. NoSplitBrain'
      BY Zenon, <2>1 DEF CrashInv, NoSplitBrain, Primaries
    <2>4. Counted => (size = LastPod + 1 /\ BannersWait)'
      BY Zenon, <2>1 DEF CrashInv, BannersWait
    <2>5. Counted => ScanWillEnd'
      BY Zenon, <2>1 DEF CrashInv, ScanWillEnd, Primaries, Booting
    <2>6. ScanKnows'
      BY Zenon, <2>1 DEF CrashInv, ScanKnows
    <2> QED BY Zenon, <1>0, <2>1, <2>2, <2>3, <2>4, <2>5, <2>6 DEF CrashInv
  <1>14. ASSUME NEW n \in Nodes, Scroll(n)
         PROVE  CrashInv'
    <2>1. /\ node[n] # "waiting" /\ tail'[n] = NoBanner
          /\ \A k \in Nodes : k # n => tail'[k] = tail[k]
          /\ UNCHANGED <<node, seqno, component, size, scan, best, odd>>
      BY Zenon, <1>0, <1>14 DEF Scroll, RecoveryTypeOK
    <2>2. BannerIsTrue' /\ NoSplitBrain' /\ ScanKnows'
      BY <2>1 DEF CrashInv, BannerIsTrue, NoSplitBrain, Primaries,
           ScanKnows
    <2>3. Counted => (size = LastPod + 1 /\ BannersWait /\ ScanWillEnd)'
      BY Zenon, <2>1 DEF CrashInv, BannersWait, ScanWillEnd, Primaries, Booting
    <2> QED BY Zenon, <1>0, <2>1, <2>2, <2>3 DEF CrashInv
  <1>15. CASE UNCHANGED rvars
    <2>1. BannerIsTrue' /\ NoSplitBrain' /\ ScanKnows'
      BY <1>15 DEF rvars, CrashInv, BannerIsTrue, NoSplitBrain, Primaries,
           ScanKnows
    <2>2. Counted => (size = LastPod + 1 /\ BannersWait /\ ScanWillEnd)'
      BY Zenon, <1>15 DEF rvars, CrashInv, BannersWait, ScanWillEnd, Primaries,
           Booting
    <2> QED BY Zenon, <1>15, <2>1, <2>2 DEF rvars
  <1> QED
    BY Zenon, <1>1, <1>2, <1>3, <1>4, <1>5, <1>6, <1>7, <1>8, <1>9, <1>10,
         <1>11,
         <1>12,
       <1>13, <1>14, <1>15 DEF RecoveryNext, Recover, NodeStep, CrashInv

\* There is never more than one primary component (doFullCrashRecovery), for
\* any number of pods, crashes and restarts.
THEOREM OneComponent == RecoverySpec => []NoSplitBrain
  <1>1. CrashInv => NoSplitBrain
    BY Zenon DEF CrashInv
  <1> QED BY <1>1, CrashInit, CrashStep, PTL DEF RecoverySpec

\* The signal goes to a node that has every committed transaction
\* (doFullCrashRecovery).
LEMMA SignalLosesNothing ==
    ASSUME CrashInv, [RecoveryNext]_rvars
    PROVE  NothingLostStep
  <1> SUFFICES ASSUME NEW n \in Nodes, node[n] = "waiting",
                      node'[n] = "bootstrapping", odd = {}
               PROVE  \A m \in Nodes : seqno[m] <= seqno[n]
    BY Zenon DEF NothingLostStep
  <1> USE RecoveryBounds
  <1>0. RecoveryTypeOK
    BY Zenon DEF CrashInv
  <1>1. Signal
    BY Zenon, <1>0 DEF RecoveryNext, Recover, NodeStep, rvars, BeginScan,
         ReadPod,
         Wake, Forget,
       Resize, Commit, FallAll, Fall, Start, LeaveWait, Bootstrap, Scroll, RecoveryTypeOK
  <1>2. best.pod = n
    BY Zenon, <1>0, <1>1 DEF Signal, RecoveryTypeOK
  <1>3. scan = LastPod + 1 /\ scan > 0
    BY <1>0, <1>1 DEF CrashInv, Counted, Signal, RecoveryTypeOK, Asleep
  <1>4. \A m \in Nodes : m < scan
    BY <1>3 DEF Nodes
  <1> QED BY <1>2, <1>3, <1>4 DEF CrashInv, ScanKnows

\* No committed transaction is lost in a recovery (doFullCrashRecovery), for
\* any number of pods, transactions, crashes and restarts.
THEOREM RecoveryLosesNothing == RecoverySpec => NothingLost
  <1> QED BY CrashInit, CrashStep, SignalLosesNothing, PTL DEF RecoverySpec,
       NothingLost

-----------------------------------------------------------------------------
(***************************************************************************)
(* The change of TLS.                                                      *)
(***************************************************************************)

Mode(on) == IF on THEN "tls" ELSE "plain"

\* The pods that run are of this mode, and so are those that may still start.
Shows(m) ==
    /\ \A p \in TLSPods : mode[p] \in {"none", m}
    /\ scaled => template = m

Usual  == unusual \intersect {"unrecorded", "reverted", "notStarted"} = {}
Halted == {"certs", "secret", "secretInternal", "unsafe", "unpause"}

\* Without a change under way the pods are in the mode of the spec, and a pass
\* works on that spec.
Established ==
    condition \in {"none", State(enabled)} =>
        Shows(Mode(enabled)) /\ (tpc # "idle" => (cr.enabled <=> enabled))

\* A pass that is not about to stop the cluster finds the pods in the mode of
\* its object; one that is works on the latest spec, and asks for no pods.
PassAgrees ==
    tpc # "idle" =>
      /\ cr.enabled \/ cr.unsafe
      /\ cr.condition = "none" => condition = "none" /\ tpc \in {"toggle", "status"}
      /\ cr.condition = State(~cr.enabled) =>
           /\ condition = cr.condition /\ (cr.enabled <=> enabled)
           /\ tpc \in {"toggle", "status"} \/ cr.pause
      /\ cr.condition # State(~cr.enabled) => Shows(Mode(cr.enabled))

\* Past the check for pods the cluster is stopped.
StoppedInBetween ==
    tpc \in Halted => ~scaled /\ PodsGone /\ cr.condition = State(~cr.enabled)

\* The inductive invariant of the toggle.
ToggleInv ==
    /\ ToggleTypeOK
    /\ Usual => /\ Shows("tls") \/ Shows("plain")
                /\ enabled \/ unsafe
                /\ Established /\ PassAgrees /\ StoppedInBetween

\* It holds when the cluster comes into being,
LEMMA ToggleStart == ToggleInit => ToggleInv
  <1> SUFFICES ASSUME ToggleInit PROVE ToggleInv
    OBVIOUS
  <1>1. ToggleTypeOK
    BY Zenon DEF ToggleInit, ToggleTypeOK, NoCR, CRs
  <1>2. Shows("tls") /\ Shows("plain")
    BY Zenon DEF ToggleInit, Shows
  <1> QED BY Zenon, <1>1, <1>2 DEF ToggleInit, ToggleInv, Established,
       PassAgrees,
             StoppedInBetween, Halted, Mode

\* every step keeps the types,
LEMMA ToggleType ==
    ASSUME ToggleTypeOK, [ToggleNext]_tvars
    PROVE  ToggleTypeOK'
  <1> USE DEF ToggleTypeOK, CRs
  <1> DEFINE Places ==
             {"idle", "toggle", "certs", "secret", "secretInternal", "unsafe",
              "unpause", "ssl", "request", "requestInternal", "wait", "manual",
              "manualInternal", "deploy", "status"}
  <1> USE DEF tspec, tsecrets, tpods
  <1>1. CASE BeginPass
    BY <1>1 DEF BeginPass
  <1>2. CASE reconcileTLSToggle
    <2>1. cr' \in CRs
      BY Zenon, <1>2 DEF reconcileTLSToggle, State
    <2>2. pause' \in BOOLEAN
      BY Zenon, <1>2 DEF reconcileTLSToggle
    <2>3. tpc' \in Places
      BY Zenon, <1>2 DEF reconcileTLSToggle
    <2>4. unusual' \subseteq {"unrecorded", "reverted", "toggledInPause", "notStarted", "cut"}
      BY Zenon, <1>2 DEF reconcileTLSToggle
    <2>5. UNCHANGED <<certManager, enabled, unsafe, wanted, condition, tsecrets, tpods>>
      BY Zenon, <1>2 DEF reconcileTLSToggle
    <2> QED BY <2>1, <2>2, <2>3, <2>4, <2>5
  <1>3. CASE DeleteCerts
    <2>1. /\ requested' \subseteq {"ssl", "internal"} /\ internal' \in {"none", "operator"}
          /\ ssl' \in {"none", "user", "operator"} /\ tpc' \in Places
      BY Zenon, <1>3 DEF DeleteCerts
    <2>2. UNCHANGED <<tspec, condition, tpods, cr, unusual>>
      BY Zenon, <1>3 DEF DeleteCerts
    <2> QED BY <2>1, <2>2
  <1>4. CASE SetUnsafe
    <2>1. cr' \in CRs
      BY Zenon, <1>4 DEF SetUnsafe
    <2>2. unsafe' \in BOOLEAN /\ tpc' \in Places
      BY Zenon, <1>4 DEF SetUnsafe
    <2>3. UNCHANGED <<certManager, enabled, pause, wanted, condition, tsecrets,
                      tpods, unusual>>
      BY Zenon, <1>4 DEF SetUnsafe
    <2> QED BY <2>1, <2>2, <2>3
  <1>5. CASE UnpauseCluster
    <2>1. cr' \in CRs
      BY Zenon, <1>5 DEF UnpauseCluster, Toggled, State
    <2>2. pause' \in BOOLEAN /\ tpc' \in Places
      BY Zenon, <1>5 DEF UnpauseCluster, Toggled
    <2>3. UNCHANGED <<certManager, enabled, unsafe, wanted, condition, tsecrets,
                      tpods, unusual>>
      BY Zenon, <1>5 DEF UnpauseCluster
    <2> QED BY <2>1, <2>2, <2>3
  <1>6. CASE reconcileSSL
    BY <1>6 DEF reconcileSSL
  <1>7. CASE createSSLByCertManager \/ waitForCerts \/ Issue
    <2>1. /\ requested' \subseteq {"ssl", "internal"} /\ internal' \in {"none", "operator"}
          /\ ssl' \in {"none", "user", "operator"} /\ tpc' \in Places
      BY ZenonT(90), <1>7 DEF createSSLByCertManager, waitForCerts, Issue
    <2>2. UNCHANGED <<tspec, condition, tpods, cr, unusual>>
      BY Zenon, <1>7 DEF createSSLByCertManager, waitForCerts, Issue
    <2> QED BY <2>1, <2>2
  <1>8. CASE createSSLManualy
    BY <1>8 DEF createSSLManualy, Made
  <1>9. CASE deployTLS
    BY <1>9 DEF deployTLS, TLSEnabled
  <1>10. CASE writeTLSStatus
    BY <1>10 DEF writeTLSStatus, NoCR
  <1>11. CASE FailCall
    <2>0. NoCR \in CRs
      BY Zenon DEF NoCR
    <2>1. cr' \in CRs
      BY Zenon, <1>11, <2>0 DEF FailCall
    <2>2. tpc' \in Places
      BY Zenon, <1>11 DEF FailCall
    <2>3. unusual' \subseteq {"unrecorded", "reverted", "toggledInPause", "notStarted", "cut"}
      BY Zenon, <1>11 DEF FailCall, MayBeCut
    <2>4. UNCHANGED <<tspec, condition, tsecrets, tpods>>
      BY Zenon, <1>11 DEF FailCall
    <2> QED BY <2>1, <2>2, <2>3, <2>4
  <1>12. CASE RestartOperator
    BY <1>12 DEF RestartOperator, MayBeCut, NoCR
  <1>13. CASE ToggleTLS
    BY <1>13 DEF ToggleTLS
  <1>14. CASE PauseByUser
    BY <1>14 DEF PauseByUser
  <1>15. CASE Prune
    BY <1>15 DEF Prune
  <1>16. ASSUME NEW p \in TLSPods, PodStep(p) PROVE ToggleTypeOK'
    <2>1. mode' \in [TLSPods -> {"none", "tls", "plain"}]
      BY Zenon, <1>16 DEF PodStep, StopPod, StartPod
    <2>2. UNCHANGED <<tspec, condition, tsecrets, scaled, template, tpc, cr, unusual>>
      BY Zenon, <1>16 DEF PodStep, StopPod, StartPod
    <2> QED BY <2>1, <2>2
  <1>17. CASE UNCHANGED tvars
    BY <1>17 DEF tvars
  <1> QED
    BY ZenonT(90), <1>1, <1>2, <1>3, <1>4, <1>5, <1>6, <1>7, <1>8, <1>9, <1>10,
         <1>11,
         <1>12,
       <1>13, <1>14, <1>15, <1>16, <1>17 DEF ToggleNext, TogglePass

\* and every step keeps it.
LEMMA ToggleStep ==
    ASSUME ToggleInv, [ToggleNext]_tvars
    PROVE  ToggleInv'
  <1>0. ToggleTypeOK /\ ToggleTypeOK'
    BY Zenon, ToggleType DEF ToggleInv
  <1>a. unusual \subseteq unusual'
    BY Zenon DEF ToggleNext, TogglePass, BeginPass, reconcileTLSToggle,
         DeleteCerts,
         SetUnsafe,
       UnpauseCluster, reconcileSSL, createSSLByCertManager, waitForCerts,
       createSSLManualy, deployTLS, writeTLSStatus, Issue, FailCall, RestartOperator,
       MayBeCut, ToggleTLS, PauseByUser, Prune, PodStep, StopPod, StartPod, tvars
  <1> SUFFICES ASSUME Usual'
               PROVE  /\ (Shows("tls") \/ Shows("plain"))' /\ (enabled \/ unsafe)'
                      /\ Established' /\ PassAgrees' /\ StoppedInBetween'
    BY Zenon, <1>0 DEF ToggleInv
  <1>b. /\ Usual /\ (Shows("tls") \/ Shows("plain")) /\ (enabled \/ unsafe)
        /\ Established /\ PassAgrees /\ StoppedInBetween
    BY Zenon, <1>a DEF ToggleInv, Usual
  <1> USE DEF tspec, tsecrets, tpods
  <1>1. CASE BeginPass
    <2>1. /\ UNCHANGED <<enabled, unsafe, condition, scaled, template, mode>>
          /\ tpc = "idle" /\ tpc' = "toggle" /\ cr'.condition = condition
          /\ (cr'.enabled <=> enabled) /\ (cr'.unsafe <=> unsafe)
      BY Zenon, <1>1 DEF BeginPass
    <2>2. (Shows("tls") \/ Shows("plain"))' /\ (enabled \/ unsafe)'
      BY Zenon, <1>b, <2>1 DEF Shows
    <2>3. Established' /\ StoppedInBetween'
      BY Zenon, <1>b, <2>1 DEF Established, StoppedInBetween, Shows, Halted
    <2>4. PassAgrees'
      BY Zenon, <1>0, <1>b, <2>1 DEF PassAgrees, Established, Shows, State,
           Mode,
           ToggleTypeOK
    <2> QED BY Zenon, <2>2, <2>3, <2>4
  <1>2. CASE DeleteCerts \/ reconcileSSL \/ createSSLByCertManager \/ waitForCerts
             \/ Issue \/ createSSLManualy
    <2>1. /\ UNCHANGED <<enabled, unsafe, condition, scaled, template, mode, cr>>
          /\ tpc = "idle" <=> tpc' = "idle"
          /\ tpc' \in {"toggle", "status"} => tpc' = tpc
          /\ tpc' \in Halted => tpc \in Halted
          /\ tpc \in {"toggle", "status"} => tpc' = tpc
      BY Zenon, <1>2 DEF DeleteCerts, reconcileSSL, createSSLByCertManager,
           waitForCerts,
             Issue, createSSLManualy, Halted
    <2>2. (Shows("tls") \/ Shows("plain"))' /\ (enabled \/ unsafe)'
      BY Zenon, <1>b, <2>1 DEF Shows
    <2>3. Established' /\ StoppedInBetween'
      BY Zenon, <1>b, <2>1 DEF Established, StoppedInBetween, Shows, PodsGone
    <2>4. PassAgrees'
      BY Zenon, <1>b, <2>1 DEF PassAgrees, Shows, Halted
    <2> QED BY Zenon, <2>2, <2>3, <2>4
  <1>3. CASE reconcileTLSToggle /\ cr.condition \in {"none", State(cr.enabled)}
    <2>1. /\ UNCHANGED <<enabled, unsafe, condition, scaled, template, mode>>
          /\ tpc = "toggle" /\ tpc' = "ssl" /\ cr'.condition = State(cr.enabled)
      BY Zenon, <1>0, <1>3 DEF reconcileTLSToggle, State, ToggleTypeOK, CRs
    <2>2. (cr'.enabled <=> cr.enabled) /\ (cr'.unsafe <=> cr.unsafe)
      BY Zenon, <1>0, <1>3 DEF reconcileTLSToggle, ToggleTypeOK, CRs
    <2>3. (Shows("tls") \/ Shows("plain"))' /\ (enabled \/ unsafe)'
      BY Zenon, <1>b, <2>1 DEF Shows
    <2>4. Established' /\ StoppedInBetween'
      BY Zenon, <1>b, <2>1, <2>2 DEF Established, StoppedInBetween, Shows,
           Halted
    <2>5. Shows(Mode(cr.enabled))
      BY Zenon, <1>b, <1>3, <2>1 DEF PassAgrees, State
    <2>6. PassAgrees'
      BY Zenon, <1>b, <2>1, <2>2, <2>5 DEF PassAgrees, Shows, State, Mode
    <2> QED BY Zenon, <2>3, <2>4, <2>6
  <1>4. CASE reconcileTLSToggle /\ cr.condition \notin {"none", State(cr.enabled)}
    <2>1. /\ UNCHANGED <<enabled, unsafe, condition, scaled, template, mode>>
          /\ tpc = "toggle" /\ tpc' \in Halted \union {"ssl"} /\ cr'.pause
          /\ cr'.condition = cr.condition
      BY Zenon, <1>0, <1>4 DEF reconcileTLSToggle, ToggleTypeOK, CRs, Halted
    <2>2. (cr'.enabled <=> cr.enabled) /\ (cr'.unsafe <=> cr.unsafe)
      BY Zenon, <1>0, <1>4 DEF reconcileTLSToggle, ToggleTypeOK, CRs
    <2>3. cr.condition = State(~cr.enabled) /\ cr'.condition = State(~cr'.enabled)
      BY Zenon, <1>0, <1>4, <2>1, <2>2 DEF ToggleTypeOK, CRs, State
    <2>4. tpc' \in Halted => PodsGone /\ ~scaled
      BY Zenon, <1>4 DEF reconcileTLSToggle, Halted, Usual
    <2>5. (Shows("tls") \/ Shows("plain"))' /\ (enabled \/ unsafe)'
      BY Zenon, <1>b, <2>1 DEF Shows
    <2>6. Established'
      BY Zenon, <1>b, <2>1, <2>2 DEF Established, Shows
    <2>7. StoppedInBetween'
      BY Zenon, <2>1, <2>3, <2>4 DEF StoppedInBetween, PodsGone
    <2>8. PassAgrees'
      BY Zenon, <1>b, <2>1, <2>2, <2>3 DEF PassAgrees, State
    <2> QED BY Zenon, <2>5, <2>6, <2>7, <2>8
  <1>5. CASE SetUnsafe
    <2>1. /\ UNCHANGED <<enabled, condition, scaled, template, mode>>
          /\ tpc = "unsafe" /\ tpc' = "unpause"
      BY Zenon, <1>5 DEF SetUnsafe
    <2>2. /\ (cr'.enabled <=> cr.enabled) /\ (cr'.pause <=> cr.pause)
          /\ (cr'.unsafe <=> ~cr.enabled) /\ cr'.condition = cr.condition
          /\ (unsafe' <=> unsafe) \/ (unsafe' <=> ~cr.enabled)
      BY Zenon, <1>0, <1>5 DEF SetUnsafe, ToggleTypeOK, CRs
    <2>3. /\ cr.condition = State(~cr.enabled) /\ (cr.enabled <=> enabled)
          /\ cr'.condition = State(~cr'.enabled) /\ cr.pause
      BY Zenon, <1>b, <2>1, <2>2 DEF StoppedInBetween, PassAgrees, Halted,
           State
    <2>4. (Shows("tls") \/ Shows("plain"))' /\ (enabled \/ unsafe)'
      BY Zenon, <1>b, <2>1, <2>2, <2>3 DEF Shows
    <2>5. Established'
      BY Zenon, <1>b, <2>1, <2>2 DEF Established, Shows
    <2>6. StoppedInBetween'
      BY Zenon, <1>b, <2>1, <2>3 DEF StoppedInBetween, PodsGone, Halted
    <2>7. PassAgrees'
      BY Zenon, <1>b, <2>1, <2>2, <2>3 DEF PassAgrees, State
    <2> QED BY Zenon, <2>4, <2>5, <2>6, <2>7
  <1>6. CASE UnpauseCluster
    <2>1. /\ UNCHANGED <<enabled, unsafe, condition, scaled, template, mode>>
          /\ tpc = "unpause" /\ tpc' = "ssl"
      BY Zenon, <1>6 DEF UnpauseCluster
    <2>2. /\ (cr'.enabled <=> cr.enabled) /\ (cr'.unsafe <=> cr.unsafe)
          /\ cr'.condition = State(cr.enabled)
      BY Zenon, <1>0, <1>6 DEF UnpauseCluster, Toggled, ToggleTypeOK, CRs
    <2>3. ~scaled /\ PodsGone
      BY Zenon, <1>b, <2>1 DEF StoppedInBetween, Halted
    <2>4. Shows("tls")' /\ Shows("plain")' /\ (enabled \/ unsafe)'
      BY Zenon, <1>b, <2>1, <2>3 DEF Shows, PodsGone
    <2>5. Established' /\ StoppedInBetween'
      BY Zenon, <1>b, <2>1, <2>2 DEF Established, Shows, StoppedInBetween,
           Halted
    <2>6. PassAgrees'
      BY Zenon, <1>b, <2>1, <2>2, <2>4 DEF PassAgrees, State, Mode
    <2> QED BY Zenon, <2>4, <2>5, <2>6
  <1>7. CASE deployTLS
    <2>1. /\ UNCHANGED <<enabled, unsafe, condition, mode, cr>>
          /\ tpc = "deploy" /\ tpc' = "status" /\ (scaled' <=> ~cr.pause)
      BY Zenon, <1>7 DEF deployTLS
    <2>2. template' = Mode(cr.enabled)
      BY Zenon, <1>b, <1>7, <2>1 DEF deployTLS, PassAgrees, TLSEnabled, Mode
    <2>3. CASE cr.condition = State(~cr.enabled)
      <3>1. ~scaled'
        BY Zenon, <1>b, <2>1, <2>3 DEF PassAgrees
      <3>2. \A m : Shows(m) => Shows(m)'
        BY Zenon, <2>1, <3>1 DEF Shows
      <3>3. Established'
        BY Zenon, <1>b, <2>1, <3>2 DEF Established, Mode
      <3>4. PassAgrees' /\ StoppedInBetween'
        BY Zenon, <1>b, <2>1, <2>3 DEF PassAgrees, StoppedInBetween, Halted
      <3> QED BY Zenon, <1>b, <2>1, <3>2, <3>3, <3>4
    <2>4. CASE cr.condition # State(~cr.enabled)
      <3>1. Shows(Mode(cr.enabled))'
        BY Zenon, <1>b, <2>1, <2>2, <2>4 DEF PassAgrees, Shows, Mode
      <3>2. Established'
        BY Zenon, <1>b, <2>1, <3>1 DEF Established, Mode
      <3>3. PassAgrees' /\ StoppedInBetween'
        BY Zenon, <1>b, <2>1, <2>4, <3>1 DEF PassAgrees, StoppedInBetween,
             Halted, Mode
      <3>4. (Shows("tls") \/ Shows("plain"))'
        BY Zenon, <3>1 DEF Mode
      <3> QED BY Zenon, <1>b, <2>1, <3>2, <3>3, <3>4
    <2> QED BY Zenon, <2>3, <2>4
  <1>8. CASE writeTLSStatus
    <2>1. /\ UNCHANGED <<enabled, unsafe, scaled, template, mode>>
          /\ tpc = "status" /\ tpc' = "idle" /\ condition' = cr.condition
      BY Zenon, <1>8 DEF writeTLSStatus
    <2>2. (Shows("tls") \/ Shows("plain"))' /\ (enabled \/ unsafe)'
      BY Zenon, <1>b, <2>1 DEF Shows
    <2>3. ASSUME cr.condition \in {"none", State(enabled)}
          PROVE  cr.condition # State(~cr.enabled) /\ (cr.enabled <=> enabled)
      <3>1. cr.condition # State(~cr.enabled)
        BY Zenon, <1>b, <2>1, <2>3 DEF PassAgrees, State
      <3>2. cr.condition = "none" => (cr.enabled <=> enabled)
        BY Zenon, <1>b, <2>1 DEF PassAgrees, Established
      <3>3. cr.condition = State(enabled) => (cr.enabled <=> enabled)
        BY Zenon, <3>1 DEF State
      <3> QED BY Zenon, <2>3, <3>1, <3>2, <3>3
    <2>4. Established'
      BY Zenon, <1>b, <2>1, <2>3 DEF Established, PassAgrees, Shows, Mode
    <2>5. PassAgrees' /\ StoppedInBetween'
      BY Zenon, <2>1 DEF PassAgrees, StoppedInBetween, Halted
    <2> QED BY Zenon, <2>2, <2>4, <2>5
  <1>9. CASE FailCall \/ RestartOperator
    <2>1. /\ UNCHANGED <<enabled, unsafe, condition, scaled, template, mode>>
          /\ tpc # "idle"
          /\ \/ tpc' = "idle"
             \/ tpc' = "status" /\ UNCHANGED cr
             \/ /\ tpc' = "manual" /\ UNCHANGED cr
                /\ tpc \in {"request", "requestInternal", "wait"}
      BY Zenon, <1>9 DEF FailCall, RestartOperator, FallsBack
    <2>2. (Shows("tls") \/ Shows("plain"))' /\ (enabled \/ unsafe)'
      BY Zenon, <1>b, <2>1 DEF Shows
    <2>3. Established' /\ StoppedInBetween'
      BY Zenon, <1>b, <2>1 DEF Established, Shows, StoppedInBetween, Halted
    <2>4. PassAgrees'
      BY Zenon, <1>b, <2>1 DEF PassAgrees, Shows
    <2> QED BY Zenon, <2>2, <2>3, <2>4
  <1>10. CASE ToggleTLS
    <2>1. /\ UNCHANGED <<condition, scaled, template, mode, tpc, cr>>
          /\ (enabled' <=> ~enabled) /\ (unsafe' <=> unsafe \/ enabled)
      BY Zenon, <1>10 DEF ToggleTLS
    <2>2. condition # "none" /\ condition # State(~enabled)
      BY Zenon, <1>10 DEF ToggleTLS, Usual
    <2>3. condition = State(enabled) /\ condition \notin {"none", State(enabled')}
      BY Zenon, <1>0, <2>1, <2>2 DEF ToggleTypeOK, State
    <2>4. (Shows("tls") \/ Shows("plain"))' /\ (enabled \/ unsafe)'
      BY Zenon, <1>b, <2>1 DEF Shows
    <2>5. Established'
      BY Zenon, <2>1, <2>3 DEF Established
    <2>6. StoppedInBetween'
      BY Zenon, <1>b, <2>1 DEF StoppedInBetween, PodsGone
    <2>7. tpc # "idle" => cr.condition # State(~cr.enabled)
      BY Zenon, <1>b, <2>3 DEF PassAgrees, Established, State
    <2>8. PassAgrees'
      BY Zenon, <1>b, <2>1, <2>7 DEF PassAgrees, Shows
    <2> QED BY Zenon, <2>4, <2>5, <2>6, <2>8
  <1>11. CASE PauseByUser
    <2>1. /\ UNCHANGED <<enabled, unsafe, condition, scaled, template, mode, tpc, cr>>
          /\ tpc = "idle"
      BY Zenon, <1>11 DEF PauseByUser
    <2> QED BY Zenon, <1>b, <2>1 DEF Established, Shows, PassAgrees,
         StoppedInBetween,
         Halted
  <1>12. CASE Prune
    <2>1. /\ UNCHANGED <<enabled, unsafe, scaled, template, mode, tpc, cr>>
          /\ tpc = "idle" /\ condition' = "none"
      BY Zenon, <1>12 DEF Prune
    <2>2. condition = State(enabled)
      BY Zenon, <1>12 DEF Prune, Usual
    <2> QED BY Zenon, <1>b, <2>1, <2>2 DEF Established, Shows, PassAgrees,
         StoppedInBetween, Halted
  <1>13. ASSUME NEW p \in TLSPods, PodStep(p)
         PROVE  /\ (Shows("tls") \/ Shows("plain"))' /\ (enabled \/ unsafe)'
                /\ Established' /\ PassAgrees' /\ StoppedInBetween'
    <2>0. mode \in [TLSPods -> {"none", "tls", "plain"}]
      BY Zenon, <1>0 DEF ToggleTypeOK
    <2>1. /\ UNCHANGED <<enabled, unsafe, condition, scaled, template, tpc, cr>>
          /\ mode'[p] = "none" \/ (scaled /\ mode'[p] = template)
          /\ \A q \in TLSPods : q # p => mode'[q] = mode[q]
      <3>1. CASE StopPod(p)
        BY Zenon, <2>0, <3>1 DEF StopPod
      <3>2. CASE StartPod(p)
        BY Zenon, <2>0, <3>2 DEF StartPod
      <3> QED BY Zenon, <1>13, <3>1, <3>2 DEF PodStep
    <2>2. \A m : Shows(m) => Shows(m)'
      BY Zenon, <2>1 DEF Shows
    <2>3. Established' /\ PassAgrees'
      BY Zenon, <1>b, <2>1, <2>2 DEF Established, PassAgrees, Mode
    <2>4. StoppedInBetween'
      BY Zenon, <1>b, <2>1 DEF StoppedInBetween, PodsGone
    <2> QED BY Zenon, <1>b, <2>1, <2>2, <2>3, <2>4
  <1>14. CASE UNCHANGED tvars
    BY Zenon, <1>b, <1>14 DEF tvars, Established, Shows, PassAgrees,
         StoppedInBetween,
         PodsGone
  <1> QED
    BY Zenon, <1>1, <1>2, <1>3, <1>4, <1>5, <1>6, <1>7, <1>8, <1>9, <1>10,
         <1>11,
         <1>12,
       <1>13, <1>14 DEF ToggleNext, TogglePass

\* Nodes with TLS and nodes without never run side by side
\* (reconcileTLSToggle), for any number of pods, changes, pauses and faults,
\* but for the three deviations NeverMixed names.
THEOREM TLSNeverMixed == ToggleSpec => []NeverMixed
  <1>1. ToggleInv => NeverMixed
    BY Zenon DEF ToggleInv, NeverMixed, Usual, Shows
  <1> QED BY <1>1, ToggleStart, ToggleStep, PTL DEF ToggleSpec
=============================================================================
