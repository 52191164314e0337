-------------------------- MODULE RetentionProofs --------------------------
(***************************************************************************)
(* The retention of scheduled backups keeps to its plan, for any number of *)
(* backups and any plans.                                                  *)
(***************************************************************************)
EXTENDS ScheduledBackups, FiniteSetTheorems, WellFoundedInduction, TLAPS

Backup == [state : {"none", "running", "succeeded", "failed", "deleted"},
           marked : {"no", "plan", "hand"}, volume : BOOLEAN,
           finalizer : BOOLEAN, data : BOOLEAN, asked : BOOLEAN, switched : BOOLEAN]
Plan == Plans \union {NoPlan}
Cron == [registered : BOOLEAN, plan : Plan, finalizer : BOOLEAN]

\* The registered job is the one the plan the last pass saw asks for, as far as
\* shouldRecreateBackupJob compares them.
CronFollows ==
    cron.registered =>
      /\ cron.finalizer = backupFinalizers(cron.plan)
      /\ Known(lastPlan) => ~shouldRecreateBackupJob(lastPlan, cron.plan)

\* A backup that deletes its data was asked to, and only a deleted one has none.
Sound(r) ==
    /\ r.state = "none" => r.marked = "no"
    /\ r.state = "succeeded" /\ ~r.data => r.marked # "no" /\ r.finalizer
    /\ r.state = "deleted" => r.data = ~r.finalizer
    /\ r.state # "none" /\ ~r.switched => r.finalizer = r.asked

\* The good backups that stay and are younger than b.
Younger(bs, b) == {c \in Staying(bs) : c > b}

\* Every backup that retention has deleted leaves enough younger ones, for as
\* long as the user deletes none.
EnoughStay ==
    ByHand(backup) = {} =>
      \A b \in 1..MaxBackups :
        backup[b].marked = "plan" => Cardinality(Younger(backup, b)) >= least

RetentionInv ==
    /\ plan \in Plan /\ lastPlan \in Plan /\ cron \in Cron /\ least \in Nat
    /\ backup \in [1..MaxBackups -> Backup] /\ made \in 0..MaxBackups
    /\ \A b \in 1..MaxBackups : b > made => backup[b].state = "none"
    /\ CronFollows
    /\ \A b \in 1..MaxBackups : Sound(backup[b])
    /\ EnoughStay

\* A finite set of numbers with n or more elements after b has n or more that
\* have fewer than n after them, and they come after b.
LEMMA NewestAreEnough ==
    ASSUME NEW N \in Nat, NEW done \in SUBSET (1..N), NEW n \in Nat, NEW b \in done,
           minHeap(done, b) >= n
    PROVE  LET young == {c \in done : minHeap(done, c) < n}
           IN  /\ Cardinality(young) >= n
               /\ \A c \in young : c > b
  <1> DEFINE after(c) == {d \in done : d > c}
             young == {c \in done : minHeap(done, c) < n}
             old == done \ young
  <1>1. IsFiniteSet(1..N)
    BY FS_Interval
  <1>2. IsFiniteSet(done)
    BY Zenon, <1>1, FS_Subset
  <1>3. \A c \in done : IsFiniteSet(after(c)) /\ Cardinality(after(c)) \in Nat
    <2>1. \A c \in done : after(c) \subseteq done
      OBVIOUS
    <2> QED BY Zenon, <1>2, <2>1, FS_Subset, FS_CardinalityType
  <1>4. \A c \in young : c > b
    <2> SUFFICES ASSUME NEW c \in young, ~(c > b) PROVE FALSE
      OBVIOUS
    <2>1. c \in Nat /\ b \in Nat /\ c <= b
      OBVIOUS
    <2>2. after(b) \subseteq after(c)
      <3> SUFFICES ASSUME NEW d \in done, d > b PROVE d > c
        BY Zenon
      <3> QED BY <2>1
    <2>3. Cardinality(after(b)) <= Cardinality(after(c))
      BY Zenon, <1>3, <2>2, FS_Subset
    <2>4. Cardinality(after(c)) < n /\ Cardinality(after(b)) >= n
      BY Zenon DEF minHeap
    <2> QED BY <1>3, <2>3, <2>4
  <1>5. Cardinality(young) >= n
    <2> SUFFICES ASSUME Cardinality(young) < n PROVE FALSE
      BY <1>2, FS_Subset, FS_CardinalityType
    <2>1. b \in old
      BY <1>4
    <2> DEFINE back == {N - c : c \in old}
    <2>2. back \in SUBSET Nat /\ N - b \in back
      BY <2>1
    <2>3. PICK m \in back : \A k \in back : m <= k
      <3> DEFINE R == OpToRel(<, Nat)
      <3>1. \E m \in back : \A k \in back : ~(<<k, m>> \in R)
        <4> HIDE DEF R, back
        <4>1. IsWellFoundedOn(R, Nat)
          BY Zenon, NatLessThanWellFounded DEF R
        <4> QED BY Zenon, <2>2, <4>1, WFMin
      <3>2. \A k, m \in Nat : k < m => <<k, m>> \in R
        BY Zenon DEF OpToRel
      <3>3. PICK m \in back : \A k \in back : ~(<<k, m>> \in R)
        BY Zenon, <3>1
      <3> SUFFICES ASSUME NEW k \in back PROVE m <= k
        OBVIOUS
      <3>4. m \in Nat /\ k \in Nat
        BY Zenon, <2>2
      <3>5. ~(k < m)
        <4> HIDE DEF R, back
        <4> QED BY Zenon, <3>2, <3>3, <3>4
      <3> QED BY <3>4, <3>5
    <2>4. PICK c \in old : m = N - c
      BY Zenon, <2>3
    <2>5. \A d \in old : d <= c
      <3> SUFFICES ASSUME NEW d \in old PROVE d <= c
        OBVIOUS
      <3>1. N - c <= N - d
        BY Zenon, <2>3, <2>4
      <3>2. c \in Nat /\ d \in Nat
        OBVIOUS
      <3> HIDE DEF old
      <3> QED BY <3>1, <3>2
    <2>6. after(c) \subseteq young
      <3> SUFFICES ASSUME NEW d \in done, d > c, d \notin young PROVE FALSE
        BY Zenon
      <3>1. d <= c /\ d \in Nat /\ c \in Nat
        BY <2>5
      <3> QED BY <3>1
    <2>7. Cardinality(after(c)) <= Cardinality(young)
      BY Zenon, <1>2, <2>6, FS_Subset
    <2>8. ~(minHeap(done, c) < n) /\ minHeap(done, c) \in Nat
      BY Zenon, <1>3, <2>4 DEF minHeap
    <2>9. Cardinality(young) \in Nat
      BY Zenon, <1>2, FS_Subset, FS_CardinalityType
    <2> QED BY <2>7, <2>8, <2>9 DEF minHeap
  <1> QED BY Zenon, <1>4, <1>5

\* With one of the newest come all later ones.
LEMMA LaterAreNewer ==
    ASSUME NEW N \in Nat, NEW done \in SUBSET (1..N), NEW n \in Nat,
           NEW c \in done, NEW d \in done, d > c, minHeap(done, c) < n
    PROVE  minHeap(done, d) < n
  <1> DEFINE after(e) == {x \in done : x > e}
  <1>1. IsFiniteSet(1..N)
    BY FS_Interval
  <1>2. after(c) \subseteq 1..N /\ after(d) \subseteq 1..N
    OBVIOUS
  <1>3. after(d) \subseteq after(c)
    <2> SUFFICES ASSUME NEW e \in done, e > d PROVE e > c
      BY Zenon
    <2>1. c \in Nat /\ d \in Nat /\ e \in Nat
      OBVIOUS
    <2> QED BY <2>1
  <1>4. IsFiniteSet(after(c)) /\ IsFiniteSet(after(d))
    BY Zenon, <1>1, <1>2, FS_Subset
  <1>5. /\ Cardinality(after(d)) <= Cardinality(after(c))
        /\ Cardinality(after(d)) \in Nat /\ Cardinality(after(c)) \in Nat
    BY Zenon, <1>3, <1>4, FS_Subset, FS_CardinalityType
  <1> HIDE DEF after
  <1>6. Cardinality(after(c)) < n
    BY Zenon DEF minHeap, after
  <1>7. Cardinality(after(d)) < n
    BY <1>5, <1>6
  <1> QED BY Zenon, <1>7 DEF minHeap, after

\* The backups are finitely many.
LEMMA FewBackups == IsFiniteSet(1..MaxBackups)
  <1>1. 1 \in Int /\ MaxBackups \in Int
    BY ScheduleBounds
  <1> QED BY Zenon, <1>1, FS_Interval

\* The sets the invariant counts are finite, and larger ones count for more.
LEMMA YoungerFinite ==
    ASSUME NEW bs \in [1..MaxBackups -> Backup], NEW b
    PROVE  /\ IsFiniteSet(Younger(bs, b)) /\ Cardinality(Younger(bs, b)) \in Nat
           /\ \A S \in SUBSET Younger(bs, b) :
                Cardinality(S) \in Nat /\ Cardinality(S) <= Cardinality(Younger(bs, b))
  <1>1. Younger(bs, b) \subseteq 1..MaxBackups
    BY Zenon DEF Younger, Staying, Succeeded
  <1>2. IsFiniteSet(Younger(bs, b))
    BY Zenon, <1>1, FewBackups, FS_Subset
  <1> QED BY Zenon, <1>2, FS_Subset, FS_CardinalityType

\* What every plan has, the missing one included.
LEMMA PlanFields ==
    /\ \A p \in Plan : /\ p.storage \in {"s3", "volume", "unknown", "none"}
                       /\ p.legacy \in BOOLEAN /\ p.delete \in BOOLEAN
                       /\ p.parses \in BOOLEAN /\ p.count \in Nat
    /\ ~Known(NoPlan) /\ NoPlan \in Plan
  <1>1. ASSUME NEW p \in Plans
        PROVE  /\ p.storage \in {"s3", "volume", "unknown", "none"}
               /\ p.legacy \in BOOLEAN /\ p.delete \in BOOLEAN
               /\ p.parses \in BOOLEAN /\ p.count \in Nat
    BY Zenon, ScheduleBounds
  <1>2. /\ NoPlan.storage \in {"s3", "volume", "unknown", "none"}
        /\ NoPlan.legacy \in BOOLEAN /\ NoPlan.delete \in BOOLEAN
        /\ NoPlan.parses \in BOOLEAN /\ NoPlan.count = 0
    BY Zenon DEF NoPlan
  <1>3. ~Known(NoPlan) /\ NoPlan \in Plan
    BY Zenon DEF Plan, NoPlan, Known
  <1>4. 0 \in Nat
    OBVIOUS
  <1> QED BY Zenon, <1>1, <1>2, <1>3, <1>4 DEF Plan

\* A step that marks nothing, deletes no mark and loses no backup that stays
\* leaves enough of them.
LEMMA StayingIsKept ==
    ASSUME RetentionInv, least' = least,
           backup' \in [1..MaxBackups -> Backup],
           Staying(backup) \subseteq Staying(backup'),
           \A b \in 1..MaxBackups : backup'[b].marked = "plan" => backup[b].marked = "plan",
           \A b \in 1..MaxBackups : backup[b].marked = "hand" => backup'[b].marked = "hand"
    PROVE  EnoughStay' /\ NewestStayStep
  <1>1. backup \in [1..MaxBackups -> Backup] /\ least \in Nat /\ EnoughStay
    BY Zenon DEF RetentionInv
  <1>2. DOMAIN backup = 1..MaxBackups /\ DOMAIN backup' = 1..MaxBackups
    BY Zenon, <1>1
  <1>3. NewestStayStep
    BY Zenon, <1>2 DEF NewestStayStep
  <1>4. ASSUME ByHand(backup') = {}, NEW b \in 1..MaxBackups, backup'[b].marked = "plan"
        PROVE  Cardinality(Younger(backup', b)) >= least'
    <2>1. ByHand(backup) = {}
      BY Zenon, <1>2, <1>4 DEF ByHand
    <2>2. Cardinality(Younger(backup, b)) >= least
      BY Zenon, <1>1, <1>4, <2>1 DEF EnoughStay
    <2>3. Younger(backup, b) \subseteq Younger(backup', b)
      BY Zenon DEF Younger
    <2>4. /\ Cardinality(Younger(backup, b)) <= Cardinality(Younger(backup', b))
          /\ Cardinality(Younger(backup, b)) \in Nat
          /\ Cardinality(Younger(backup', b)) \in Nat
      BY Zenon, <2>3, YoungerFinite
    <2> QED BY <1>1, <2>2, <2>4
  <1>5. EnoughStay' = (ByHand(backup') = {} =>
          \A b \in 1..MaxBackups :
            backup'[b].marked = "plan" => Cardinality(Younger(backup', b)) >= least')
    BY Zenon DEF EnoughStay, ByHand, Younger, Staying, Succeeded
  <1> QED BY Zenon, <1>3, <1>4, <1>5

\* NewCron keeps what the plan asks for, or registers it.
LEMMA CronIsNew ==
    ASSUME RetentionInv, reconcileBackups
    PROVE  cron' \in Cron /\ CronFollows' /\ lastPlan' \in Plan
  <1>1. /\ cron' = NewCron /\ lastPlan' = (IF given THEN plan ELSE NoPlan)
        /\ plan' = plan
    BY Zenon DEF reconcileBackups, crbVars
  <1>2. ~Known(NoPlan) /\ plan \in Plan /\ NoPlan \in Plan /\ lastPlan' \in Plan
    BY Zenon, <1>1, PlanFields DEF RetentionInv
  <1>3. CASE ~given \/ ~Known(plan)
    <2>1. NewCron = NoCron \/ NewCron = cron
      <3>1. CASE ~given \/ plan = NoPlan
        BY Zenon, <3>1 DEF NewCron
      <3>2. CASE given /\ plan # NoPlan
        BY Zenon, <1>3, <3>2 DEF NewCron
      <3> QED BY Zenon, <3>1, <3>2
    <2>2. ~Known(lastPlan')
      BY Zenon, <1>1, <1>2, <1>3
    <2>3. CASE NewCron = NoCron
      BY Zenon, <1>1, <1>2, <2>3 DEF CronFollows, NoCron, Cron
    <2>4. CASE NewCron = cron
      <3>1. cron' = cron
        BY Zenon, <1>1, <2>4
      <3>2. cron \in Cron
            /\ (cron.registered => cron.finalizer = backupFinalizers(cron.plan))
        BY Zenon DEF RetentionInv, CronFollows
      <3>3. Cron' = Cron /\ (backupFinalizers(cron.plan))' = backupFinalizers(cron'.plan)
            /\ (Known(lastPlan))' = Known(lastPlan')
        BY Zenon DEF Plan, Cron, backupFinalizers, Known, DeletesData
      <3> QED BY Zenon, <1>2, <2>2, <3>1, <3>2, <3>3 DEF CronFollows
    <2> QED BY Zenon, <2>1, <2>3, <2>4
  <1>4. CASE given /\ Known(plan)
    <2>1. plan # NoPlan /\ lastPlan' = plan
      BY Zenon, <1>1, <1>2, <1>4
    <2>2. NewCron = IF cron.registered /\ ~shouldRecreateBackupJob(plan, cron.plan)
                    THEN cron
                    ELSE IF plan.parses
                         THEN [registered |-> TRUE, plan |-> plan,
                               finalizer |-> backupFinalizers(plan)]
                         ELSE NoCron
      BY Zenon, <1>4, <2>1 DEF NewCron
    <2>3. backupFinalizers(plan) \in BOOLEAN /\ ~shouldRecreateBackupJob(plan, plan)
      BY Zenon DEF backupFinalizers, shouldRecreateBackupJob
    <2>4. CASE cron.registered /\ ~shouldRecreateBackupJob(plan, cron.plan)
      BY Zenon, <1>1, <1>2, <2>1, <2>2, <2>4 DEF RetentionInv, CronFollows,
           Known, shouldRecreateBackupJob
    <2>5. CASE ~(cron.registered /\ ~shouldRecreateBackupJob(plan, cron.plan)) /\ plan.parses
      <3>1. cron' = [registered |-> TRUE, plan |-> plan, finalizer |-> backupFinalizers(plan)]
        BY Zenon, <1>1, <2>2, <2>5
      <3>2. cron'.plan = plan /\ cron'.finalizer = backupFinalizers(plan)
        BY Zenon, <3>1
      <3>3. cron' \in Cron
        BY Zenon, <1>2, <2>3, <3>1 DEF Cron
      <3> QED BY Zenon, <1>2, <2>1, <2>3, <3>2, <3>3 DEF CronFollows,
           backupFinalizers, Known, DeletesData, shouldRecreateBackupJob
    <2>6. CASE ~(cron.registered /\ ~shouldRecreateBackupJob(plan, cron.plan)) /\ ~plan.parses
      BY Zenon, <1>1, <1>2, <2>2, <2>6 DEF CronFollows, NoCron, Cron
    <2> QED BY Zenon, <2>4, <2>5, <2>6
  <1> QED BY Zenon, <1>2, <1>3, <1>4

\* The invariant holds at first.
LEMMA RetentionStart == ScheduleInit => RetentionInv
  <1> SUFFICES ASSUME ScheduleInit PROVE RetentionInv
    OBVIOUS
  <1>1. NoBackup \in Backup /\ Sound(NoBackup) /\ NoBackup.state = "none"
        /\ NoBackup.marked = "no"
    BY Zenon DEF NoBackup, Backup, Sound
  <1>2. NoCron \in Cron /\ lastPlan \in Plan /\ plan \in Plan
    BY Zenon DEF NoCron, Plan, Cron, ScheduleInit
  <1>3. \A b \in 1..MaxBackups : backup[b] = NoBackup
    BY Zenon DEF ScheduleInit
  <1>4. backup \in [1..MaxBackups -> Backup]
    BY Zenon, <1>1 DEF ScheduleInit
  <1>5. CronFollows
    BY Zenon DEF ScheduleInit, CronFollows, NoCron
  <1>6. made \in 0..MaxBackups /\ cron = NoCron /\ least \in Nat
    BY ScheduleBounds DEF ScheduleInit
  <1>7. EnoughStay
    BY Zenon, <1>1, <1>3 DEF EnoughStay
  <1> QED BY Zenon, <1>1, <1>2, <1>3, <1>4, <1>5, <1>6, <1>7 DEF RetentionInv

\* What a pass of reconcileBackups does to the records of the backups.
LEMMA PassMarks ==
    ASSUME RetentionInv, NEW gone \in SUBSET Outdated,
           backup' = [b \in DOMAIN backup |->
                        IF b \in gone THEN Mark(backup[b], "plan") ELSE backup[b]]
    PROVE  /\ backup' \in [1..MaxBackups -> Backup]
           /\ gone \subseteq Succeeded(backup)
           /\ \A b \in 1..MaxBackups :
                /\ b \notin gone \/ backup[b].marked # "no" => backup'[b] = backup[b]
                /\ b \in gone /\ backup[b].marked = "no" => backup'[b].marked = "plan"
                /\ backup'[b].state = backup[b].state
                /\ Sound(backup'[b])
  <1>1. backup \in [1..MaxBackups -> Backup] /\ \A b \in 1..MaxBackups : Sound(backup[b])
    BY Zenon DEF RetentionInv
  <1>2. \A b \in 1..MaxBackups :
          backup'[b] = IF b \in gone THEN Mark(backup[b], "plan") ELSE backup[b]
    BY Zenon, <1>1
  <1>3. gone \subseteq Succeeded(backup)
    BY Zenon DEF Outdated, oldScheduledBackups
  <1>4. ASSUME NEW r \in Backup
        PROVE  /\ Mark(r, "plan") \in Backup /\ Mark(r, "plan").state = r.state
               /\ Mark(r, "plan").data = r.data
               /\ Mark(r, "plan").finalizer = r.finalizer
               /\ Mark(r, "plan").asked = r.asked
               /\ Mark(r, "plan").switched = r.switched
               /\ r.marked # "no" => Mark(r, "plan") = r
               /\ r.marked = "no" => Mark(r, "plan").marked = "plan"
    <2>1. CASE r.marked = "no"
      BY Zenon, <2>1 DEF Backup, Mark
    <2>2. CASE r.marked # "no"
      BY Zenon, <2>2 DEF Mark
    <2> QED BY Zenon, <2>1, <2>2
  <1>5. backup' \in [1..MaxBackups -> Backup]
    BY Zenon, <1>1, <1>4
  <1>6. ASSUME NEW b \in 1..MaxBackups
        PROVE  /\ b \notin gone \/ backup[b].marked # "no" => backup'[b] = backup[b]
               /\ b \in gone /\ backup[b].marked = "no" => backup'[b].marked = "plan"
               /\ backup'[b].state = backup[b].state
               /\ Sound(backup'[b])
    <2>1. CASE b \notin gone
      BY Zenon, <1>1, <1>2, <2>1
    <2>2. CASE b \in gone
      <3>1. backup'[b] = Mark(backup[b], "plan") /\ backup[b] \in Backup
            /\ Sound(backup[b]) /\ backup[b].state = "succeeded"
        BY Zenon, <1>1, <1>2, <1>3, <2>2 DEF Succeeded
      <3>2. CASE backup[b].marked # "no"
        BY Zenon, <1>4, <2>2, <3>1, <3>2
      <3>3. CASE backup[b].marked = "no"
        <4> DEFINE r == backup[b]
                   n == Mark(r, "plan")
        <4>1. /\ n.state = "succeeded" /\ n.finalizer = r.finalizer
              /\ n.data = r.data /\ n.asked = r.asked /\ n.switched = r.switched
              /\ n.marked = "plan"
          BY Zenon, <1>4, <3>1, <3>3
        <4>2. r.data /\ (~r.switched => r.finalizer = r.asked)
          BY Zenon, <3>1, <3>3 DEF Sound
        <4> HIDE DEF n
        <4>3. Sound(n)
          BY Zenon, <4>1, <4>2 DEF Sound
        <4> QED BY Zenon, <2>2, <3>1, <3>3, <4>1, <4>3 DEF n
      <3> QED BY Zenon, <3>2, <3>3
    <2> QED BY Zenon, <2>1, <2>2
  <1> QED BY Zenon, <1>3, <1>5, <1>6

\* The heart of the matter: a backup that a pass deletes leaves as many younger
\* ones listed as the plan keeps, and enough of them stay.
LEMMA NewestStay ==
    ASSUME RetentionInv, NEW gone \in SUBSET Outdated,
           backup' = [b \in DOMAIN backup |->
                        IF b \in gone THEN Mark(backup[b], "plan") ELSE backup[b]],
           least' = IF plan.count < least /\ \E b \in gone : backup[b].marked = "no"
                    THEN plan.count ELSE least,
           NEW b \in gone, backup[b].marked = "no"
    PROVE  /\ Cardinality({c \in Succeeded(backup') : c > b}) >= plan.count
           /\ ByHand(backup') = {} => Cardinality(Younger(backup', b)) >= least'
  <1> DEFINE done == Succeeded(backup)
             young == {c \in done : minHeap(done, c) < plan.count}
             listed == {c \in Succeeded(backup') : c > b}
  <1>1. /\ backup \in [1..MaxBackups -> Backup] /\ plan \in Plan /\ least \in Nat
        /\ EnoughStay
    BY Zenon DEF RetentionInv
  <1>2. /\ backup' \in [1..MaxBackups -> Backup] /\ gone \subseteq done
        /\ \A c \in 1..MaxBackups :
             /\ c \notin gone \/ backup[c].marked # "no" => backup'[c] = backup[c]
             /\ backup'[c].state = backup[c].state
    BY Zenon, PassMarks
  <1>3. plan.count > 0 /\ Outdated = {c \in done : minHeap(done, c) >= plan.count}
    BY Zenon DEF Outdated, oldScheduledBackups
  <1>4. plan.count \in Nat /\ MaxBackups \in Nat
    BY Zenon, <1>1, PlanFields, ScheduleBounds
  <1>5. done \in SUBSET (1..MaxBackups) /\ Succeeded(backup') = done
    BY Zenon, <1>1, <1>2 DEF Succeeded
  <1>6. b \in done /\ minHeap(done, b) >= plan.count
    BY Zenon, <1>3
  <1>7. /\ Cardinality(young) >= plan.count
        /\ \A c \in young : c > b
        /\ \A c \in young, d \in done : d > c => d \in young
    <2> HIDE DEF done
    <2>1. Cardinality(young) >= plan.count /\ \A c \in young : c > b
      BY Zenon, <1>4, <1>5, <1>6, NewestAreEnough
    <2>2. ASSUME NEW c \in young, NEW d \in done, d > c
          PROVE  d \in young
      <3>1. c \in done /\ minHeap(done, c) < plan.count
        OBVIOUS
      <3>2. minHeap(done, d) < plan.count
        BY Zenon, <1>4, <1>5, <2>2, <3>1, LaterAreNewer
      <3> QED BY Zenon, <3>2
    <2> QED BY Zenon, <2>1, <2>2
  <1>8. \A c \in young : c \in 1..MaxBackups /\ c \notin gone
    <2> SUFFICES ASSUME NEW c \in young PROVE c \notin gone
      BY Zenon, <1>5
    <2>1. minHeap(done, c) < plan.count /\ minHeap(done, c) \in Nat
      <3>1. {d \in done : d > c} \subseteq 1..MaxBackups
        BY Zenon, <1>5
      <3> QED BY Zenon, <3>1, FewBackups, FS_Subset, FS_CardinalityType DEF
           minHeap
    <2>2. ~(minHeap(done, c) >= plan.count)
      <3> HIDE DEF done
      <3> QED BY <1>4, <2>1
    <2> QED BY Zenon, <1>3, <2>2
  <1>9. IsFiniteSet(young) /\ Cardinality(young) \in Nat /\ young \subseteq 1..MaxBackups
    BY Zenon, <1>8, FewBackups, FS_Subset, FS_CardinalityType
  <1>10. Cardinality(listed) >= plan.count
    <2>1. young \subseteq listed /\ listed \subseteq 1..MaxBackups
      BY Zenon, <1>5, <1>7
    <2>2. IsFiniteSet(listed)
      BY Zenon, <2>1, FewBackups, FS_Subset
    <2>3. Cardinality(young) <= Cardinality(listed) /\ Cardinality(listed) \in Nat
      <3> HIDE DEF young, listed
      <3> QED BY Zenon, <2>1, <2>2, FS_Subset, FS_CardinalityType
    <2> HIDE DEF young, listed
    <2> QED BY <1>4, <1>7, <1>9, <2>3
  <1>11. least' <= plan.count /\ least' <= least /\ least' \in Nat
    BY <1>1, <1>4
  <1>12. ASSUME ByHand(backup') = {}
         PROVE  Cardinality(Younger(backup', b)) >= least'
    <2>1. CASE \E m \in young : backup[m].marked # "no"
      <3>1. PICK m \in young : backup[m].marked # "no"
        BY Zenon, <2>1
      <3>2. ByHand(backup) = {}
        <4> SUFFICES ASSUME NEW c \in 1..MaxBackups, backup[c].marked = "hand"
                     PROVE  FALSE
          BY Zenon, <1>1 DEF ByHand
        <4>1. backup'[c].marked = "hand"
          BY Zenon, <1>2
        <4> QED BY Zenon, <1>2, <1>12, <4>1 DEF ByHand
      <3>3. backup[m].marked = "plan"
        <4>1. backup[m] \in Backup
          BY Zenon, <1>1, <1>8
        <4>2. backup[m].marked \in {"no", "plan", "hand"}
          BY Zenon, <4>1 DEF Backup
        <4> QED BY Zenon, <1>1, <1>8, <3>1, <3>2, <4>2 DEF ByHand
      <3>4. Cardinality(Younger(backup, m)) >= least
        BY Zenon, <1>1, <1>8, <3>2, <3>3 DEF EnoughStay
      <3>5. Younger(backup, m) \subseteq Younger(backup', b)
        <4> SUFFICES ASSUME NEW d \in done, d > m, backup[d].marked = "no"
                     PROVE  d \in Staying(backup') /\ d > b
          BY Zenon DEF Younger, Staying
        <4>1. d \in young
          BY Zenon, <1>7
        <4>2. backup'[d] = backup[d] /\ d > b
          BY Zenon, <1>2, <1>7, <1>8, <4>1
        <4> QED BY Zenon, <1>5, <4>2 DEF Staying
      <3>6. /\ Cardinality(Younger(backup, m)) <= Cardinality(Younger(backup', b))
            /\ Cardinality(Younger(backup, m)) \in Nat
            /\ Cardinality(Younger(backup', b)) \in Nat
        BY Zenon, <1>2, <3>5, YoungerFinite
      <3> QED BY <1>1, <1>11, <3>4, <3>6
    <2>2. CASE \A m \in young : backup[m].marked = "no"
      <3>1. young \subseteq Younger(backup', b)
        <4> SUFFICES ASSUME NEW c \in young PROVE c \in Younger(backup', b)
          OBVIOUS
        <4>1. c \in Succeeded(backup') /\ backup'[c] = backup[c] /\ c > b
          BY Zenon, <1>2, <1>5, <1>7, <1>8
        <4> QED BY Zenon, <2>2, <4>1 DEF Younger, Staying
      <3>2. /\ Cardinality(young) <= Cardinality(Younger(backup', b))
            /\ Cardinality(Younger(backup', b)) \in Nat
        <4> HIDE DEF young
        <4> QED BY Zenon, <1>2, <3>1, YoungerFinite
      <3> HIDE DEF young
      <3> QED BY <1>4, <1>7, <1>9, <1>11, <3>2
    <2> QED BY Zenon, <2>1, <2>2
  <1> QED BY Zenon, <1>10, <1>12

\* A pass keeps the invariant.
LEMMA PruningKeeps ==
    ASSUME RetentionInv, reconcileBackups
    PROVE  RetentionInv' /\ NewestStayStep
  <1>1. PICK gone \in SUBSET Outdated :
          /\ backup' = [b \in DOMAIN backup |->
                          IF b \in gone THEN Mark(backup[b], "plan") ELSE backup[b]]
          /\ least' = IF plan.count < least /\ \E b \in gone : backup[b].marked = "no"
                      THEN plan.count ELSE least
    BY Zenon DEF reconcileBackups
  <1>2. /\ backup' \in [1..MaxBackups -> Backup]
        /\ \A b \in 1..MaxBackups :
             /\ b \notin gone \/ backup[b].marked # "no" => backup'[b] = backup[b]
             /\ backup'[b].state = backup[b].state
             /\ Sound(backup'[b])
    BY Zenon, <1>1, PassMarks
  <1>3. /\ backup \in [1..MaxBackups -> Backup] /\ plan \in Plan /\ least \in Nat
        /\ plan.count \in Nat /\ EnoughStay
        /\ made \in 0..MaxBackups
        /\ \A b \in 1..MaxBackups : b > made => backup[b].state = "none"
    BY Zenon, PlanFields DEF RetentionInv
  <1>4. plan' = plan /\ made' = made /\ least' \in Nat /\ least' <= least
    <2>1. plan' = plan /\ made' = made
      BY Zenon DEF reconcileBackups, crbVars
    <2>2. least' \in Nat /\ least' <= least
      BY <1>1, <1>3
    <2> QED BY Zenon, <2>1, <2>2
  <1>5. cron' \in Cron /\ CronFollows' /\ lastPlan' \in Plan
    BY Zenon, CronIsNew
  <1>6. \A b \in gone : backup[b].marked = "no" =>
           /\ Cardinality({c \in Succeeded(backup') : c > b}) >= plan.count
           /\ ByHand(backup') = {} => Cardinality(Younger(backup', b)) >= least'
    BY Zenon, <1>1, NewestStay
  <1>7. NewestStayStep
    <2> SUFFICES ASSUME NEW b \in 1..MaxBackups,
                        backup[b].marked # "plan", backup'[b].marked = "plan"
                 PROVE  /\ Cardinality({c \in Succeeded(backup') : c > b}) >= plan.count
                        /\ ByHand(backup') = {} =>
                             Cardinality({c \in Staying(backup') : c > b}) >= least'
      BY Zenon, <1>3 DEF NewestStayStep
    <2>1. b \in gone /\ backup[b].marked = "no"
      BY Zenon, <1>2
    <2> QED BY Zenon, <1>6, <2>1 DEF Younger
  <1>8. ASSUME ByHand(backup') = {}, NEW b \in 1..MaxBackups, backup'[b].marked = "plan"
        PROVE  Cardinality(Younger(backup', b)) >= least'
    <2>1. CASE b \in gone /\ backup[b].marked = "no"
      BY Zenon, <1>6, <1>8, <2>1
    <2>2. CASE backup'[b] = backup[b]
      <3>1. ByHand(backup) = {}
        <4> SUFFICES ASSUME NEW c \in 1..MaxBackups, backup[c].marked = "hand"
                     PROVE  FALSE
          BY Zenon, <1>3 DEF ByHand
        <4>1. backup'[c].marked = "hand"
          BY Zenon, <1>2
        <4> QED BY Zenon, <1>2, <1>8, <4>1 DEF ByHand
      <3>2. Cardinality(Younger(backup, b)) >= least
        BY Zenon, <1>3, <1>8, <2>2, <3>1 DEF EnoughStay
      <3>3. CASE Younger(backup, b) \subseteq Younger(backup', b)
        <4>1. /\ Cardinality(Younger(backup, b)) <= Cardinality(Younger(backup', b))
              /\ Cardinality(Younger(backup, b)) \in Nat
              /\ Cardinality(Younger(backup', b)) \in Nat
          BY Zenon, <1>2, <1>3, <3>3, YoungerFinite
        <4> QED BY <1>3, <1>4, <3>2, <4>1
      <3>4. CASE ~(Younger(backup, b) \subseteq Younger(backup', b))
        <4>1. PICK d \in Younger(backup, b) : d \notin Younger(backup', b)
          BY Zenon, <3>4
        <4>2. d \in 1..MaxBackups /\ backup[d].state = "succeeded"
              /\ backup[d].marked = "no" /\ d > b
          BY Zenon, <1>3 DEF Younger, Staying, Succeeded
        <4>3. d \in gone
          BY Zenon, <1>2, <4>1, <4>2 DEF Younger, Staying, Succeeded
        <4>4. Cardinality(Younger(backup', d)) >= least'
          BY Zenon, <1>6, <1>8, <4>2, <4>3
        <4>5. Younger(backup', d) \subseteq Younger(backup', b)
          <5> SUFFICES ASSUME NEW e \in Staying(backup'), e > d PROVE e > b
            BY Zenon DEF Younger
          <5>1. e \in 1..MaxBackups
            BY Zenon, <1>2 DEF Staying, Succeeded
          <5> QED BY <4>2, <5>1
        <4>6. /\ Cardinality(Younger(backup', d)) <= Cardinality(Younger(backup', b))
              /\ Cardinality(Younger(backup', d)) \in Nat
              /\ Cardinality(Younger(backup', b)) \in Nat
          BY Zenon, <1>2, <4>5, YoungerFinite
        <4> QED BY <1>4, <4>4, <4>6
      <3> QED BY Zenon, <3>3, <3>4
    <2> QED BY Zenon, <1>2, <2>1, <2>2
  <1>9. EnoughStay'
    BY Zenon, <1>8 DEF EnoughStay, ByHand, Younger, Staying, Succeeded
  <1> QED BY Zenon, <1>2, <1>3, <1>4, <1>5, <1>7, <1>9 DEF RetentionInv, Plan,
       Backup, Cron, Sound

\* A job that fires gives its backup the finalizer it was registered with.
LEMMA FiringKeeps ==
    ASSUME RetentionInv, Fire
    PROVE  RetentionInv' /\ NewestStayStep
  <1> DEFINE new == [state |-> "running", marked |-> "no",
                     volume |-> cron.plan.storage = "volume",
                     finalizer |-> cron.finalizer, data |-> FALSE,
                     asked |-> DeletesData(lastPlan),
                     switched |-> lastPlan.legacy # cron.plan.legacy \/ ~Known(lastPlan)]
  <1>1. /\ cron.registered /\ made < MaxBackups /\ made' = made + 1
        /\ backup' = [backup EXCEPT ![made + 1] = new]
        /\ UNCHANGED <<plan, cron, lastPlan, least>>
    BY Zenon DEF Fire, crbVars
  <1>2. /\ backup \in [1..MaxBackups -> Backup] /\ made \in 0..MaxBackups
        /\ cron \in Cron /\ plan \in Plan /\ lastPlan \in Plan /\ CronFollows
        /\ \A b \in 1..MaxBackups : b > made => backup[b].state = "none"
        /\ \A b \in 1..MaxBackups : Sound(backup[b])
    BY Zenon DEF RetentionInv
  <1>3. made' \in 0..MaxBackups /\ made + 1 \in 1..MaxBackups /\ made + 1 > made
    BY <1>1, <1>2, ScheduleBounds
  <1>4. /\ DeletesData(lastPlan) \in BOOLEAN /\ cron.finalizer \in BOOLEAN
        /\ (cron.plan.storage = "volume") \in BOOLEAN
        /\ (lastPlan.legacy # cron.plan.legacy \/ ~Known(lastPlan)) \in BOOLEAN
    <2>1. lastPlan.legacy \in BOOLEAN /\ lastPlan.delete \in BOOLEAN
      BY Zenon, <1>2, PlanFields
    <2>2. cron.finalizer \in BOOLEAN
      BY Zenon, <1>2 DEF Cron
    <2> QED BY <2>1, <2>2 DEF DeletesData
  <1>5. new \in Backup
    <2> HIDE DEF DeletesData, Known
    <2> QED BY Zenon, <1>4 DEF Backup
  <1>6. ~new.switched => new.finalizer = new.asked
    <2> SUFFICES ASSUME lastPlan.legacy = cron.plan.legacy, Known(lastPlan)
                 PROVE  cron.finalizer = DeletesData(lastPlan)
      BY Zenon
    <2>1. /\ cron.finalizer = backupFinalizers(cron.plan)
          /\ ~shouldRecreateBackupJob(lastPlan, cron.plan)
      BY Zenon, <1>1, <1>2 DEF CronFollows
    <2>2. cron.plan.storage = lastPlan.storage
      BY Zenon, <2>1 DEF shouldRecreateBackupJob
    <2>3. Known(cron.plan)
      BY Zenon, <2>2 DEF Known
    <2>4. /\ lastPlan.delete \in BOOLEAN /\ lastPlan.legacy \in BOOLEAN
          /\ cron.plan.delete \in BOOLEAN /\ cron.plan.legacy \in BOOLEAN
      BY Zenon, <1>2, PlanFields DEF Cron
    <2>5. DeletesData(cron.plan) = DeletesData(lastPlan)
      <3>1. CASE lastPlan.legacy
        BY Zenon, <3>1 DEF DeletesData
      <3>2. CASE ~lastPlan.legacy
        BY Zenon, <2>1, <2>4, <3>2 DEF DeletesData, shouldRecreateBackupJob
      <3> QED BY Zenon, <3>1, <3>2
    <2>6. DeletesData(cron.plan) \in BOOLEAN
      BY <2>4 DEF DeletesData
    <2>7. backupFinalizers(cron.plan) = DeletesData(cron.plan)
      <3> HIDE DEF DeletesData
      <3> QED BY <2>3, <2>6 DEF backupFinalizers
    <2> QED BY Zenon, <2>1, <2>5, <2>7
  <1>7. \A b \in 1..MaxBackups : backup'[b] = IF b = made + 1 THEN new ELSE backup[b]
    BY Zenon, <1>1, <1>2
  <1>8. new.state = "running" /\ new.marked = "no"
    OBVIOUS
  <1>9. backup' \in [1..MaxBackups -> Backup]
    <2> HIDE DEF new
    <2> QED BY Zenon, <1>1, <1>2, <1>5
  <1> HIDE DEF new
  <1>10. Sound(new)
    BY Zenon, <1>6, <1>8 DEF Sound
  <1>11. backup[made + 1].state = "none" /\ backup[made + 1].marked = "no"
    BY Zenon, <1>2, <1>3 DEF Sound
  <1>12. /\ Staying(backup) \subseteq Staying(backup')
         /\ \A b \in 1..MaxBackups : backup'[b].marked = backup[b].marked
    BY Zenon, <1>2, <1>7, <1>8, <1>9, <1>11 DEF Staying, Succeeded
  <1>13. EnoughStay' /\ NewestStayStep
    BY Zenon, <1>1, <1>9, <1>12, StayingIsKept
  <1>14. CronFollows'
    BY Zenon, <1>1, <1>2 DEF CronFollows, backupFinalizers, Known, DeletesData,
       shouldRecreateBackupJob
  <1>15. \A b \in 1..MaxBackups : b > made' => backup'[b].state = "none"
    <2> SUFFICES ASSUME NEW b \in 1..MaxBackups, b > made'
                 PROVE  backup'[b].state = "none"
      OBVIOUS
    <2>1. b > made /\ b # made + 1
      BY <1>1, <1>2
    <2> QED BY Zenon, <1>2, <1>7, <2>1
  <1>16. \A b \in 1..MaxBackups : Sound(backup'[b])
    BY Zenon, <1>2, <1>7, <1>10
  <1>17. plan' \in Plan /\ lastPlan' \in Plan /\ cron' \in Cron /\ least' \in Nat
    BY Zenon, <1>1 DEF RetentionInv
  <1> QED BY Zenon, <1>3, <1>9, <1>13, <1>14, <1>15, <1>16, <1>17 DEF
       RetentionInv, Plan, Cron, Backup, Sound

\* A step of the backup controller or of the user that leaves the operator's
\* state alone, and one record changed.
LEMMA RecordKeeps ==
    ASSUME RetentionInv, NEW x \in 1..MaxBackups, NEW new \in Backup,
           UNCHANGED <<plan, cron, made, lastPlan, least>>,
           backup' = [backup EXCEPT ![x] = new],
           backup[x].state # "none", Sound(new)
    PROVE  /\ EnoughStay' => RetentionInv'
           /\ backup' \in [1..MaxBackups -> Backup]
           /\ \A b \in 1..MaxBackups : backup'[b] = IF b = x THEN new ELSE backup[b]
  <1>1. /\ backup \in [1..MaxBackups -> Backup] /\ CronFollows
        /\ \A b \in 1..MaxBackups : b > made => backup[b].state = "none"
        /\ \A b \in 1..MaxBackups : Sound(backup[b])
    BY Zenon DEF RetentionInv
  <1>2. /\ backup' \in [1..MaxBackups -> Backup]
        /\ \A b \in 1..MaxBackups : backup'[b] = IF b = x THEN new ELSE backup[b]
    BY Zenon, <1>1
  <1>3. CronFollows'
    BY Zenon, <1>1 DEF CronFollows, backupFinalizers, Known, DeletesData,
       shouldRecreateBackupJob
  <1>4. \A b \in 1..MaxBackups : (b > made' => backup'[b].state = "none")
                                 /\ Sound(backup'[b])
    BY Zenon, <1>1, <1>2
  <1>5. plan' \in Plan /\ lastPlan' \in Plan /\ cron' \in Cron /\ least' \in Nat
        /\ made' \in 0..MaxBackups
    BY Zenon DEF RetentionInv
  <1>6. EnoughStay' => RetentionInv'
    BY Zenon, <1>2, <1>3, <1>4, <1>5 DEF RetentionInv, Plan, Cron, Backup, Sound
  <1> QED BY Zenon, <1>2, <1>6

\* A backup that ends well has its data.
LEMMA FinishKeeps ==
    ASSUME RetentionInv, NEW x \in 1..MaxBackups, Finish(x)
    PROVE  RetentionInv' /\ NewestStayStep
  <1>1. UNCHANGED <<plan, cron, made, lastPlan, least>> /\ backup[x].state = "running"
    BY Zenon DEF Finish, crbVars
  <1>2. PICK ok \in BOOLEAN :
          backup' = [backup EXCEPT ![x].state = IF ok THEN "succeeded" ELSE "failed",
                                   ![x].data = ok]
    BY Zenon DEF Finish
  <1>3. backup \in [1..MaxBackups -> Backup] /\ backup[x] \in Backup /\ Sound(backup[x])
    BY Zenon DEF RetentionInv
  <1> DEFINE new == [backup[x] EXCEPT !.state = IF ok THEN "succeeded" ELSE "failed",
                                      !.data = ok]
  <1>4. backup' = [backup EXCEPT ![x] = new]
    BY Zenon, <1>2, <1>3
  <1>5. /\ new \in Backup /\ new.state = (IF ok THEN "succeeded" ELSE "failed")
        /\ new.data = ok /\ new.finalizer = backup[x].finalizer
        /\ new.asked = backup[x].asked /\ new.switched = backup[x].switched
        /\ new.marked = backup[x].marked
    BY Zenon, <1>3 DEF Backup
  <1> HIDE DEF new
  <1>6. ~backup[x].switched => backup[x].finalizer = backup[x].asked
    BY Zenon, <1>1, <1>3 DEF Sound
  <1>7. Sound(new)
    <2>1. CASE ok
      BY Zenon, <1>5, <1>6, <2>1 DEF Sound
    <2>2. CASE ~ok
      BY Zenon, <1>5, <1>6, <2>2 DEF Sound
    <2> QED BY Zenon, <2>1, <2>2
  <1>8. /\ EnoughStay' => RetentionInv'
        /\ backup' \in [1..MaxBackups -> Backup]
        /\ \A b \in 1..MaxBackups : backup'[b] = IF b = x THEN new ELSE backup[b]
    BY Zenon, <1>1, <1>4, <1>5, <1>7, RecordKeeps
  <1>9. /\ Staying(backup) \subseteq Staying(backup')
        /\ \A b \in 1..MaxBackups : backup'[b].marked = backup[b].marked
    BY Zenon, <1>1, <1>3, <1>5, <1>8 DEF Staying, Succeeded
  <1>10. EnoughStay' /\ NewestStayStep
    BY Zenon, <1>1, <1>8, <1>9, StayingIsKept
  <1> QED BY Zenon, <1>8, <1>10

\* The finalizers take the data of a deleted backup and then the backup.
LEMMA FinalizeKeeps ==
    ASSUME RetentionInv, NEW x \in 1..MaxBackups, Finalize(x)
    PROVE  RetentionInv' /\ NewestStayStep
  <1> DEFINE r == backup[x]
             left == [r EXCEPT !.data = @ /\ ~r.finalizer]
             gone == [r EXCEPT !.data = @ /\ ~r.finalizer, !.state = "deleted"]
  <1>1. /\ UNCHANGED <<plan, cron, made, lastPlan, least>>
        /\ r.state = "succeeded" /\ r.marked # "no"
    BY Zenon DEF Finalize, crbVars
  <1>2. backup \in [1..MaxBackups -> Backup] /\ r \in Backup /\ Sound(r)
    BY Zenon DEF RetentionInv
  <1>3. backup' = [backup EXCEPT ![x] = left] \/ backup' = [backup EXCEPT ![x] = gone]
    BY Zenon, <1>2 DEF Finalize
  <1>4. /\ ~r.data => r.finalizer
        /\ ~r.switched => r.finalizer = r.asked
    BY Zenon, <1>1, <1>2 DEF Sound
  <1>5. r.data \in BOOLEAN /\ r.finalizer \in BOOLEAN
    BY Zenon, <1>2 DEF Backup
  <1>6. (r.data /\ ~r.finalizer) = ~r.finalizer /\ (r.data /\ ~r.finalizer) \in BOOLEAN
    BY <1>4, <1>5
  <1>7. \A n \in {left, gone} :
          /\ n \in Backup /\ n.data = (r.data /\ ~r.finalizer)
          /\ n.finalizer = r.finalizer /\ n.asked = r.asked
          /\ n.switched = r.switched /\ n.marked = r.marked
          /\ n.state \in {"succeeded", "deleted"}
    <2>1. /\ left \in Backup /\ left.data = (r.data /\ ~r.finalizer)
          /\ left.finalizer = r.finalizer /\ left.asked = r.asked
          /\ left.switched = r.switched /\ left.marked = r.marked
          /\ left.state = "succeeded"
      <3> HIDE DEF r
      <3> QED BY Zenon, <1>1, <1>2, <1>6 DEF Backup
    <2>2. /\ gone \in Backup /\ gone.data = (r.data /\ ~r.finalizer)
          /\ gone.finalizer = r.finalizer /\ gone.asked = r.asked
          /\ gone.switched = r.switched /\ gone.marked = r.marked
          /\ gone.state = "deleted"
      <3> HIDE DEF r
      <3> QED BY Zenon, <1>1, <1>2, <1>6 DEF Backup
    <2> HIDE DEF left, gone
    <2> QED BY Zenon, <2>1, <2>2
  <1>8. PICK n \in {left, gone} : backup' = [backup EXCEPT ![x] = n]
    BY Zenon, <1>3
  <1>9. /\ n \in Backup /\ n.data = ~r.finalizer /\ n.marked = r.marked
        /\ n.finalizer = r.finalizer /\ n.asked = r.asked /\ n.switched = r.switched
        /\ n.state \in {"succeeded", "deleted"}
    BY Zenon, <1>6, <1>7
  <1>10. Sound(n)
    <2>1. n.data = ~n.finalizer /\ (~n.data => n.finalizer)
      BY Zenon, <1>9
    <2>2. ~n.switched => n.finalizer = n.asked
      BY Zenon, <1>4, <1>9
    <2>3. n.marked # "no" /\ n.state # "none"
      BY Zenon, <1>1, <1>9
    <2> QED BY Zenon, <2>1, <2>2, <2>3 DEF Sound
  <1> HIDE DEF left, gone
  <1>11. /\ EnoughStay' => RetentionInv'
         /\ backup' \in [1..MaxBackups -> Backup]
         /\ \A b \in 1..MaxBackups : backup'[b] = IF b = x THEN n ELSE backup[b]
    BY Zenon, <1>1, <1>8, <1>9, <1>10, RecordKeeps
  <1>12. /\ Staying(backup) \subseteq Staying(backup')
         /\ \A b \in 1..MaxBackups : backup'[b].marked = backup[b].marked
    BY Zenon, <1>1, <1>2, <1>9, <1>11 DEF Staying, Succeeded
  <1>13. EnoughStay' /\ NewestStayStep
    BY Zenon, <1>1, <1>11, <1>12, StayingIsKept
  <1> QED BY Zenon, <1>11, <1>13

\* The user may take any backup: what stays is then theirs to answer for.
LEMMA DeletionByHandKeeps ==
    ASSUME RetentionInv, NEW x \in 1..MaxBackups, DeleteByHand(x)
    PROVE  RetentionInv' /\ NewestStayStep
  <1> DEFINE r == backup[x]
             new == [r EXCEPT !.marked = "hand"]
  <1>1. /\ UNCHANGED <<plan, cron, made, lastPlan, least>>
        /\ r.state = "succeeded" /\ r.marked = "no"
        /\ backup' = [backup EXCEPT ![x] = Mark(@, "hand")]
    BY Zenon DEF DeleteByHand, crbVars
  <1>2. backup \in [1..MaxBackups -> Backup] /\ r \in Backup /\ Sound(r)
    BY Zenon DEF RetentionInv
  <1>3. backup' = [backup EXCEPT ![x] = new]
    BY Zenon, <1>1, <1>2 DEF Mark
  <1>4. /\ new \in Backup /\ new.state = "succeeded" /\ new.marked = "hand"
        /\ new.data = r.data /\ new.finalizer = r.finalizer
        /\ new.asked = r.asked /\ new.switched = r.switched
    <2> HIDE DEF r
    <2> QED BY Zenon, <1>1, <1>2 DEF Backup
  <1> HIDE DEF new
  <1>5. r.data /\ (~r.switched => r.finalizer = r.asked)
    BY Zenon, <1>1, <1>2 DEF Sound
  <1>6. Sound(new)
    BY Zenon, <1>4, <1>5 DEF Sound
  <1>7. /\ EnoughStay' => RetentionInv'
        /\ backup' \in [1..MaxBackups -> Backup]
        /\ \A b \in 1..MaxBackups : backup'[b] = IF b = x THEN new ELSE backup[b]
    BY Zenon, <1>1, <1>3, <1>4, <1>6, RecordKeeps
  <1>8. x \in ByHand(backup')
    BY Zenon, <1>4, <1>7 DEF ByHand
  <1>9. EnoughStay'
    BY Zenon, <1>8 DEF EnoughStay, ByHand
  <1>10. NewestStayStep
    BY Zenon, <1>2, <1>4, <1>7 DEF NewestStayStep
  <1> QED BY Zenon, <1>7, <1>9, <1>10

\* Steps that leave the backups alone.
LEMMA QuietKeeps ==
    ASSUME RetentionInv, UNCHANGED <<backup, made, lastPlan, least>>,
           plan' \in Plan, cron' = cron \/ cron' = NoCron
    PROVE  RetentionInv' /\ NewestStayStep
  <1>1. backup' \in [1..MaxBackups -> Backup] /\ Staying(backup) \subseteq Staying(backup')
    BY Zenon DEF RetentionInv
  <1>2. EnoughStay' /\ NewestStayStep
    BY Zenon, <1>1, StayingIsKept
  <1>3. cron' \in Cron /\ CronFollows'
    <2>1. CASE cron' = cron
      BY Zenon, <2>1 DEF RetentionInv, CronFollows, Cron, Plan, backupFinalizers,
         Known, DeletesData, shouldRecreateBackupJob
    <2>2. CASE cron' = NoCron
      BY Zenon, <2>2 DEF CronFollows, NoCron, Cron, Plan
    <2> QED BY Zenon, <2>1, <2>2
  <1> QED BY Zenon, <1>1, <1>2, <1>3 DEF RetentionInv, Plan, Cron, Backup, Sound

\* For any number of backups and any plans: retention deletes a backup only when
\* as many newer good ones are listed as the plan keeps and, unless backups were
\* deleted by hand, as many stay as the smallest count applied so far; and data
\* leaves the storage exactly when the plan asked for it (reconcileBackups,
\* oldScheduledBackups, shouldRecreateBackupJob, runBackupFinalizers).
THEOREM PrunesByThePlan == ScheduleSpec => RetentionKeepsToThePlan
  <1>1. ASSUME RetentionInv, [ScheduleNext]_bvars
        PROVE  RetentionInv' /\ NewestStayStep
    <2> USE <1>1
    <2>0. plan \in Plan
      BY Zenon DEF RetentionInv
    <2>1. CASE UNCHANGED bvars
      BY Zenon, <2>0, <2>1, QuietKeeps DEF bvars, crbVars
    <2>2. CASE reconcileBackups
      BY Zenon, <2>2, PruningKeeps
    <2>3. CASE Fire
      BY Zenon, <2>3, FiringKeeps
    <2>4. CASE \E b \in 1..MaxBackups : Finish(b) \/ Finalize(b) \/ DeleteByHand(b)
      BY Zenon, <2>4, FinishKeeps, FinalizeKeeps, DeletionByHandKeeps
    <2>5. CASE RestartSchedules
      BY Zenon, <2>0, <2>5, QuietKeeps DEF RestartSchedules, crbVars
    <2>6. CASE EditPlan
      <3>1. plan' \in Plan /\ UNCHANGED <<cron, backup, made, lastPlan, least>>
        BY Zenon, <2>6 DEF EditPlan, Plan
      <3> QED BY Zenon, <3>1, QuietKeeps
    <2>7. CASE reconcileBackupsFails \/ Toggle \/ Weaken \/ Heal
      <3>1. UNCHANGED <<plan, cron, backup, made, lastPlan, least>>
        BY Zenon, <2>7 DEF reconcileBackupsFails, Toggle, Weaken, Heal, crbVars
      <3> QED BY Zenon, <2>0, <3>1, QuietKeeps
    <2> QED BY Zenon, <2>1, <2>2, <2>3, <2>4, <2>5, <2>6, <2>7 DEF ScheduleNext
  <1>2. RetentionInv => DataDeletedAsAsked
    <2> SUFFICES ASSUME RetentionInv, NEW b \in 1..MaxBackups
                 PROVE  LET r == backup[b]
                        IN  /\ r.state = "deleted" /\ ~r.switched => r.data = ~r.asked
                            /\ r.state = "succeeded" /\ ~r.data
                               => r.marked # "no" /\ r.finalizer
      BY Zenon DEF RetentionInv, DataDeletedAsAsked
    <2>1. Sound(backup[b])
      BY Zenon DEF RetentionInv
    <2> QED BY Zenon, <2>1 DEF Sound
  <1>3. ASSUME RetentionInv, [ScheduleNext]_bvars
        PROVE  [NewestStayStep /\ DataDeletedAsAsked']_bvars
    <2>1. RetentionInv' => DataDeletedAsAsked'
      BY <1>2, PTL
    <2> QED BY Zenon, <1>1, <1>3, <2>1
  <1> QED BY RetentionStart, <1>1, <1>3, PTL DEF ScheduleSpec,
       RetentionKeepsToThePlan
=============================================================================
