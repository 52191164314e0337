------------------------------- MODULE PodProofs ------------------------------
(***************************************************************************)
(* What the programs in the pods promise, for every instance: the backup a *)
(* Job reports is whole (Sidecar), the scripts get the peers that stay     *)
(* (PeerList), and the probe reads the state mysqld told last              *)
(* (StateMonitor).  The parts share no state.                              *)
(***************************************************************************)
EXTENDS Sidecar, PeerList, StateMonitor, TLAPS

-----------------------------------------------------------------------------
\* The xtrabackup sidecar and its client.
\* A pod makes at least one attempt, and finitely many things go wrong.
SidecarBounds == MaxTries \in Nat \ {0} /\ MaxLosses \in Nat

Whole(a) == [by |-> a, whole |-> TRUE]

\* One request holds the flag, and the configuration is its own.
Exclusive ==
    /\ \A a \in Attempts : handler[a] # "none" => isRunning
    /\ \A a, b \in Attempts : handler[a] # "none" /\ handler[b] # "none" => a = b
    /\ \A a \in Attempts :
         handler[a] \in Stages \ {"none", "entered", "unlock"} => config = a

\* Where a request is says what its commands have done and what it answers.
Stage(a) ==
    /\ client[a] = "none" =>
         handler[a] = "none" /\ answer[a] = "none" /\ xtra[a] = "off"
    /\ handler[a] \in {"none", "entered", "list", "delete"} =>
         xtra[a] # "on" /\ cloud[a] # "on"
    /\ handler[a] \in {"entered", "list", "delete"} => xtra[a] = "off"
    /\ handler[a] \in {"check", "leave", "unlock"} =>
         xtra[a] # "on" /\ cloud[a] # "on"
    /\ handler[a] \in {"entered", "list", "delete", "copy", "check"} =>
         answer[a] = "none"
    /\ (xtra[a] = "off") = (cloud[a] = "off")
    /\ cloud[a] = "done" => xtra[a] # "on"
    /\ client[a] \in {"printing", "ok"} => answer[a] = "ok"
    /\ a[2] > try[Job(a)] => client[a] = "none"

\* The good answer to the current attempt, which may still be lost on its way.
Good(a) ==
    /\ answer[a] = "ok" /\ a[2] = try[Job(a)]
    /\ client[a] \in {"waiting", "printing", "ok"}

\* What the destination holds while and after a request works on it.
Kept(a) ==
    /\ handler[a] = "copy" /\ xtra[a] # "off" => stored[Job(a)].by = a
    /\ handler[a] = "copy" /\ GroupOk(a) => stored[Job(a)].whole
    /\ handler[a] = "check" => stored[Job(a)] = Whole(a)
    /\ Good(a) =>
         /\ stored[Job(a)] = Whole(a)
         /\ \A b \in Attempts : Job(b) = Job(a) /\ b # a => handler[b] = "none"

\* Only an attempt whose client ended well makes a Job succeed.
Earned == \A j \in Jobs : outcome[j] = "succeeded" => client[<<j, try[j]>>] = "ok"

SidecarInv ==
    SidecarTypeOK /\ Exclusive /\ Earned /\ \A a \in Attempts : Stage(a) /\ Kept(a)

-----------------------------------------------------------------------------
\* Attempts are pairs, told apart by their Job and their number.
LEMMA AttemptFacts ==
    ASSUME SidecarBounds
    PROVE  /\ \A a \in Attempts : Job(a) \in Jobs /\ a[2] \in 1..MaxTries
           /\ \A a, b \in Attempts : Job(a) = Job(b) /\ a[2] = b[2] => a = b
           /\ \A j \in Jobs, n \in 1..MaxTries :
                <<j, n>> \in Attempts /\ Job(<<j, n>>) = j /\ <<j, n>>[2] = n
           /\ Nobody \notin Attempts
  BY DEF Attempts, Job, Nobody, SidecarBounds

\* Marking what a destination holds as whole or not leaves the rest.
LEMMA MarkFacts ==
    ASSUME SidecarTypeOK, NEW j \in Jobs, NEW w \in BOOLEAN
    PROVE  /\ [stored EXCEPT ![j].whole = w] \in
                [Jobs -> [by : Attempts \union {Nobody}, whole : BOOLEAN]]
           /\ [stored EXCEPT ![j].whole = w][j].by = stored[j].by
           /\ [stored EXCEPT ![j].whole = w][j].whole = w
           /\ \A k \in Jobs : k # j => [stored EXCEPT ![j].whole = w][k] = stored[k]
<1>1. stored[j] \in [by : Attempts \union {Nobody}, whole : BOOLEAN]
  BY Zenon DEF SidecarTypeOK
<1>2. [stored[j] EXCEPT !.whole = w] \in
        [by : Attempts \union {Nobody}, whole : BOOLEAN]
  BY Zenon, <1>1
<1>3. [stored[j] EXCEPT !.whole = w].by = stored[j].by
  BY Zenon, <1>1
<1>4. [stored[j] EXCEPT !.whole = w].whole = w
  BY Zenon, <1>1
<1> QED BY Zenon, <1>2, <1>3, <1>4 DEF SidecarTypeOK

\* The invariant holds before the first request.
LEMMA SidecarInvInit ==
    ASSUME SidecarBounds, SidecarInit
    PROVE  SidecarInv
<1>1. SidecarTypeOK
  <2>1. /\ isRunning \in BOOLEAN
        /\ stored \in [Jobs -> [by : Attempts \union {Nobody}, whole : BOOLEAN]]
    BY Zenon DEF SidecarInit, Nothing
  <2> QED BY <2>1 DEF SidecarInit, SidecarTypeOK, SidecarBounds, Stages
<1>2. Exclusive /\ Earned
  BY Zenon, AttemptFacts DEF SidecarInit, Exclusive, Earned, Stages
<1>3. ASSUME NEW a \in Attempts PROVE Stage(a) /\ Kept(a)
  BY Zenon, AttemptFacts DEF SidecarInit, Stage, Kept, Good, GroupOk,
       SidecarBounds
<1> QED BY Zenon, <1>1, <1>2, <1>3 DEF SidecarInv

\* A request takes the flag or is refused.
LEMMA RequestKeeps ==
    ASSUME SidecarBounds, SidecarInv, NEW a \in Attempts, Request(a)
    PROVE  SidecarInv'
<1>1. SidecarTypeOK'
  <2>1. CASE isRunning
    BY Zenon, <2>1 DEF SidecarInv, SidecarTypeOK, Request
  <2>2. CASE ~isRunning
    BY Zenon, <2>2 DEF SidecarInv, SidecarTypeOK, Stages, Request
  <2> QED BY Zenon, <2>1, <2>2
<1>2. Exclusive'
  BY AttemptFacts DEF SidecarInv, SidecarTypeOK, Exclusive, Stage, Stages,
       Request
<1>3. Earned'
  BY Zenon, AttemptFacts DEF SidecarInv, SidecarTypeOK, Earned, Request
<1>4. ASSUME NEW c \in Attempts PROVE Stage(c)'
  BY AttemptFacts DEF SidecarInv, SidecarTypeOK, Exclusive, Stage, Stages,
       SidecarBounds, Request
<1>5. ASSUME NEW c \in Attempts PROVE Kept(c)'
  BY AttemptFacts DEF SidecarInv, SidecarTypeOK, Exclusive, Stage, Kept, Good,
       Whole,
       Nothing, GroupOk, SidecarBounds, Request
<1> QED BY Zenon, <1>1, <1>2, <1>3, <1>4, <1>5 DEF SidecarInv

\* The client takes the answer of its own request.
LEMMA ReceiveKeeps ==
    ASSUME SidecarBounds, SidecarInv, NEW a \in Attempts, Receive(a)
    PROVE  SidecarInv'
<1>1. SidecarTypeOK'
  BY Zenon, AttemptFacts DEF SidecarInv, SidecarTypeOK, SidecarBounds, Stages,
       Nothing,
       Receive
<1>2. Exclusive'
  BY AttemptFacts DEF SidecarInv, SidecarTypeOK, Exclusive, Stage, Stages,
       Receive
<1>3. Earned'
  BY AttemptFacts DEF SidecarInv, SidecarTypeOK, Earned, Receive
<1>4. ASSUME NEW c \in Attempts PROVE Stage(c)'
  BY AttemptFacts DEF SidecarInv, SidecarTypeOK, Exclusive, Stage, Stages,
       SidecarBounds, Receive
<1>5. ASSUME NEW c \in Attempts PROVE Kept(c)'
  BY AttemptFacts DEF SidecarInv, SidecarTypeOK, Exclusive, Stage, Kept, Good,
       Whole,
       Nothing, GroupOk, SidecarBounds, Receive
<1> QED BY Zenon, <1>1, <1>2, <1>3, <1>4, <1>5 DEF SidecarInv

\* A client that prints logs has had a good answer.
LEMMA printLogsKeeps ==
    ASSUME SidecarBounds, SidecarInv, NEW a \in Attempts, printLogs(a)
    PROVE  SidecarInv'
<1>1. SidecarTypeOK'
  BY AttemptFacts DEF SidecarInv, SidecarTypeOK, SidecarBounds, Stages, Nothing,
       printLogs, GetLogs
<1>2. Exclusive'
  BY AttemptFacts DEF SidecarInv, SidecarTypeOK, Exclusive, Stage, Stages,
       printLogs, GetLogs
<1>3. Earned'
  BY AttemptFacts DEF SidecarInv, SidecarTypeOK, Earned, printLogs, GetLogs
<1>4. ASSUME NEW c \in Attempts PROVE Stage(c)'
  BY AttemptFacts DEF SidecarInv, SidecarTypeOK, Exclusive, Stage, Stages,
       SidecarBounds, printLogs, GetLogs
<1>5. ASSUME NEW c \in Attempts PROVE Kept(c)'
  BY AttemptFacts DEF SidecarInv, SidecarTypeOK, Exclusive, Stage, Kept, Good,
       Whole,
       Nothing, GroupOk, SidecarBounds, printLogs, GetLogs
<1> QED BY Zenon, <1>1, <1>2, <1>3, <1>4, <1>5 DEF SidecarInv

\* A client that is lost leaves its request where it is.
LEMMA LosePodKeeps ==
    ASSUME SidecarBounds, SidecarInv, NEW a \in Attempts, LosePod(a)
    PROVE  SidecarInv'
<1>1. SidecarTypeOK'
  BY AttemptFacts DEF SidecarInv, SidecarTypeOK, SidecarBounds, Stages, Nothing,
       LosePod
<1>2. Exclusive'
  BY AttemptFacts DEF SidecarInv, SidecarTypeOK, Exclusive, Stage, Stages,
       LosePod
<1>3. Earned'
  BY Zenon, AttemptFacts DEF SidecarInv, SidecarTypeOK, Earned, LosePod
<1>4. ASSUME NEW c \in Attempts PROVE Stage(c)'
  BY AttemptFacts DEF SidecarInv, SidecarTypeOK, Exclusive, Stage, Stages,
       SidecarBounds, LosePod
<1>5. ASSUME NEW c \in Attempts PROVE Kept(c)'
  BY AttemptFacts DEF SidecarInv, SidecarTypeOK, Exclusive, Stage, Kept, Good,
       Whole,
       Nothing, GroupOk, SidecarBounds, LosePod
<1> QED BY Zenon, <1>1, <1>2, <1>3, <1>4, <1>5 DEF SidecarInv

\* The request that holds the flag sets the configuration.
LEMMA setBackupConfigKeeps ==
    ASSUME SidecarBounds, SidecarInv, NEW a \in Attempts, setBackupConfig(a)
    PROVE  SidecarInv'
<1>1. SidecarTypeOK'
  BY Zenon, AttemptFacts DEF SidecarInv, SidecarTypeOK, SidecarBounds, Stages,
       Nothing,
       setBackupConfig
<1>2. Exclusive'
  BY AttemptFacts DEF SidecarInv, SidecarTypeOK, Exclusive, Stage, Stages,
       setBackupConfig
<1>3. Earned'
  BY Zenon, AttemptFacts DEF SidecarInv, SidecarTypeOK, Earned, setBackupConfig
<1>4. ASSUME NEW c \in Attempts PROVE Stage(c)'
  BY AttemptFacts DEF SidecarInv, SidecarTypeOK, Exclusive, Stage, Stages,
       SidecarBounds, setBackupConfig
<1>5. ASSUME NEW c \in Attempts PROVE Kept(c)'
  BY AttemptFacts DEF SidecarInv, SidecarTypeOK, Exclusive, Stage, Kept, Good,
       Whole,
       Nothing, GroupOk, SidecarBounds, setBackupConfig
<1> QED BY Zenon, <1>1, <1>2, <1>3, <1>4, <1>5 DEF SidecarInv

\* Looking for what an earlier attempt stored changes nothing stored.
LEMMA backupExistsKeeps ==
    ASSUME SidecarBounds, SidecarInv, NEW a \in Attempts, backupExists(a)
    PROVE  SidecarInv'
<1>0. /\ \E s \in {"copy", "delete", "leave"} : handler' = [handler EXCEPT ![a] = s]
      /\ handler[a] \in {"list", "delete", "copy", "check"}
      /\ UNCHANGED <<isRunning, config>>
  BY Zenon DEF backupExists, Fails, Err
<1>1. SidecarTypeOK'
  <2>1. /\ handler' \in [Attempts -> Stages]
        /\ isRunning' \in BOOLEAN /\ config' \in Attempts \union {Nobody}
    BY <1>0 DEF SidecarInv, SidecarTypeOK, Stages
  <2>2. losses' \in 0..MaxLosses
    BY DEF SidecarInv, SidecarTypeOK, SidecarBounds, backupExists, Fails, Err
  <2>3. answer' \in [Attempts -> {"none", "ok", "error"}]
    BY Zenon DEF SidecarInv, SidecarTypeOK, backupExists, Fails, Err
  <2> QED BY Zenon, <2>1, <2>2, <2>3 DEF SidecarInv, SidecarTypeOK, backupExists
<1>2. Exclusive'
  BY <1>0 DEF SidecarInv, SidecarTypeOK, Exclusive, Stages
<1>3. Earned'
  BY Zenon, AttemptFacts DEF SidecarInv, SidecarTypeOK, Earned, backupExists,
       Fails,
       Err
<1>4. ASSUME NEW c \in Attempts PROVE Stage(c)'
  BY AttemptFacts DEF SidecarInv, SidecarTypeOK, Exclusive, Stage, Stages,
       SidecarBounds, backupExists, Fails, Err
<1>5. ASSUME NEW c \in Attempts PROVE Kept(c)'
  BY AttemptFacts DEF SidecarInv, SidecarTypeOK, Exclusive, Stage, Kept, Good,
       Whole,
       Nothing, GroupOk, SidecarBounds, backupExists, Fails, Err
<1> QED BY Zenon, <1>1, <1>2, <1>3, <1>4, <1>5 DEF SidecarInv

\* Only the request at work deletes what its Job stored.
LEMMA deleteBackupKeeps ==
    ASSUME SidecarBounds, SidecarInv, NEW a \in Attempts, deleteBackup(a)
    PROVE  SidecarInv'
<1>0. /\ \E s \in {"copy", "leave"} : handler' = [handler EXCEPT ![a] = s]
      /\ handler[a] \in {"list", "delete", "copy", "check"}
      /\ UNCHANGED <<isRunning, config>>
  BY Zenon DEF deleteBackup, Fails, Err
<1>1. SidecarTypeOK'
  <2>1. /\ handler' \in [Attempts -> Stages]
        /\ isRunning' \in BOOLEAN /\ config' \in Attempts \union {Nobody}
    BY <1>0 DEF SidecarInv, SidecarTypeOK, Stages
  <2>2. losses' \in 0..MaxLosses
    BY DEF SidecarInv, SidecarTypeOK, SidecarBounds, deleteBackup, Fails, Err
  <2>3. stored' \in [Jobs -> [by : Attempts \union {Nobody}, whole : BOOLEAN]]
    <3>1. CASE stored' = [stored EXCEPT ![Job(a)] = Nothing]
      BY Zenon, <3>1 DEF SidecarInv, SidecarTypeOK, Nothing
    <3>2. CASE stored' = [stored EXCEPT ![Job(a)].whole = FALSE]
      BY Zenon, <3>2, AttemptFacts, MarkFacts DEF SidecarInv
    <3> QED BY Zenon, <3>1, <3>2 DEF deleteBackup
  <2>4. answer' \in [Attempts -> {"none", "ok", "error"}]
    BY Zenon DEF SidecarInv, SidecarTypeOK, deleteBackup, Fails
  <2> QED BY Zenon, <2>1, <2>2, <2>3, <2>4 DEF SidecarInv, SidecarTypeOK,
       deleteBackup
<1>2. Exclusive'
  BY <1>0 DEF SidecarInv, SidecarTypeOK, Exclusive, Stages
<1>3. Earned'
  BY Zenon, AttemptFacts DEF SidecarInv, SidecarTypeOK, Earned, deleteBackup,
       Fails,
       Err
<1>4. ASSUME NEW c \in Attempts PROVE Stage(c)'
  BY AttemptFacts DEF SidecarInv, SidecarTypeOK, Exclusive, Stage, Stages,
       SidecarBounds, deleteBackup, Fails, Err
<1>5. ASSUME NEW c \in Attempts PROVE Kept(c)'
  BY AttemptFacts DEF SidecarInv, SidecarTypeOK, Exclusive, Stage, Kept, Good,
       Whole,
       Nothing, GroupOk, SidecarBounds, deleteBackup, Fails, Err
<1> QED BY Zenon, <1>1, <1>2, <1>3, <1>4, <1>5 DEF SidecarInv

\* The destination now belongs to the request at work.
LEMMA StartCommandsKeeps ==
    ASSUME SidecarBounds, SidecarInv, NEW a \in Attempts, StartCommands(a)
    PROVE  SidecarInv'
<1>1. SidecarTypeOK'
  BY Zenon, AttemptFacts DEF SidecarInv, SidecarTypeOK, SidecarBounds, Stages,
       Nothing,
       StartCommands
<1>2. Exclusive'
  BY AttemptFacts DEF SidecarInv, SidecarTypeOK, Exclusive, Stage, Stages,
       StartCommands
<1>3. Earned'
  BY Zenon, AttemptFacts DEF SidecarInv, SidecarTypeOK, Earned, StartCommands
<1>4. ASSUME NEW c \in Attempts PROVE Stage(c)'
  BY AttemptFacts DEF SidecarInv, SidecarTypeOK, Exclusive, Stage, Stages,
       SidecarBounds, StartCommands
<1>5. ASSUME NEW c \in Attempts PROVE Kept(c)'
  BY AttemptFacts DEF SidecarInv, SidecarTypeOK, Exclusive, Stage, Kept, Good,
       Whole,
       Nothing, GroupOk, SidecarBounds, StartCommands
<1> QED BY Zenon, <1>1, <1>2, <1>3, <1>4, <1>5 DEF SidecarInv

\* xtrabackup ends before xbcloud has read its pipe to the end.
LEMMA xtrabackupKeeps ==
    ASSUME SidecarBounds, SidecarInv, NEW a \in Attempts, xtrabackup(a)
    PROVE  SidecarInv'
<1>1. SidecarTypeOK'
  BY AttemptFacts DEF SidecarInv, SidecarTypeOK, SidecarBounds, Stages, Nothing,
       xtrabackup, Err, Cancelled
<1>2. Exclusive'
  BY AttemptFacts DEF SidecarInv, SidecarTypeOK, Exclusive, Stage, Stages,
       xtrabackup, Err, Cancelled
<1>3. Earned'
  BY Zenon, AttemptFacts DEF SidecarInv, SidecarTypeOK, Earned, xtrabackup, Err,
       Cancelled
<1>4. ASSUME NEW c \in Attempts PROVE Stage(c)'
  BY AttemptFacts DEF SidecarInv, SidecarTypeOK, Exclusive, Stage, Stages,
       SidecarBounds, xtrabackup, Err, Cancelled
<1>5. ASSUME NEW c \in Attempts PROVE Kept(c)'
  BY AttemptFacts DEF SidecarInv, SidecarTypeOK, Exclusive, Stage, Kept, Good,
       Whole,
       Nothing, GroupOk, SidecarBounds, xtrabackup, Err, Cancelled
<1> QED BY Zenon, <1>1, <1>2, <1>3, <1>4, <1>5 DEF SidecarInv

\* xbcloud marks what it stored as whole only behind a whole xtrabackup.
LEMMA xbcloudKeeps ==
    ASSUME SidecarBounds, SidecarInv, NEW a \in Attempts, xbcloud(a)
    PROVE  SidecarInv'
<1>1. SidecarTypeOK'
  <2>1. losses' \in 0..MaxLosses
    BY DEF SidecarInv, SidecarTypeOK, SidecarBounds, xbcloud, Err
  <2>2. stored' \in [Jobs -> [by : Attempts \union {Nobody}, whole : BOOLEAN]]
    <3>1. CASE stored' = [stored EXCEPT ![Job(a)].whole = xtra[a] = "done"]
      BY Zenon, <3>1, AttemptFacts, MarkFacts DEF SidecarInv
    <3>2. CASE UNCHANGED stored
      BY Zenon, <3>2 DEF SidecarInv, SidecarTypeOK
    <3> QED BY Zenon, <3>1, <3>2 DEF xbcloud
  <2>3. cloud' \in [Attempts -> {"off", "on", "done", "broken"}]
    BY DEF SidecarInv, SidecarTypeOK, xbcloud
  <2> QED BY Zenon, <2>1, <2>2, <2>3 DEF SidecarInv, SidecarTypeOK, xbcloud
<1>2. Exclusive'
  BY AttemptFacts DEF SidecarInv, SidecarTypeOK, Exclusive, Stage, Stages,
       xbcloud, Err, Cancelled
<1>3. Earned'
  BY Zenon, AttemptFacts DEF SidecarInv, SidecarTypeOK, Earned, xbcloud, Err,
       Cancelled
<1>4. ASSUME NEW c \in Attempts PROVE Stage(c)'
  BY AttemptFacts DEF SidecarInv, SidecarTypeOK, Exclusive, Stage, Stages,
       SidecarBounds, xbcloud, Err, Cancelled
<1>5. ASSUME NEW c \in Attempts PROVE Kept(c)'
  <2>1. handler[a] = "copy" /\ UNCHANGED <<handler, answer, client, try, xtra>>
    BY Zenon DEF SidecarInv, SidecarTypeOK, Stage, Stages, xbcloud
  <2>2. CASE c = a
    <3>1. stored'[Job(a)].by = stored[Job(a)].by
      BY Zenon, AttemptFacts, MarkFacts DEF SidecarInv, xbcloud
    <3>2. cloud'[a] = "done" /\ xtra[a] = "done" => stored'[Job(a)].whole
      <4> SUFFICES ASSUME cloud'[a] = "done", xtra[a] = "done"
                   PROVE  stored'[Job(a)].whole
        OBVIOUS
      <4>1. stored' = [stored EXCEPT ![Job(a)].whole = xtra[a] = "done"]
        BY Zenon DEF SidecarInv, SidecarTypeOK, xbcloud
      <4>2. (xtra[a] = "done") = TRUE
        OBVIOUS
      <4>3. stored' = [stored EXCEPT ![Job(a)].whole = TRUE]
        BY <4>1, <4>2, Zenon
      <4> QED BY Zenon, <4>3, AttemptFacts, MarkFacts DEF SidecarInv
    <3>3. answer[a] = "none"
      BY Zenon, <2>1 DEF SidecarInv, Stage
    <3> QED BY Zenon, <2>1, <2>2, <3>1, <3>2, <3>3 DEF SidecarInv, Kept, Good,
         GroupOk
  <2>3. CASE c # a
    <3>1. handler[c] = "none"
      BY Zenon, <2>1, <2>3 DEF SidecarInv, Exclusive
    <3>2. Good(c) => Job(a) # Job(c)
      BY Zenon, <2>1, <2>3 DEF SidecarInv, Kept, Good
    <3>3. Job(a) # Job(c) => stored'[Job(c)] = stored[Job(c)]
      BY Zenon, AttemptFacts, MarkFacts DEF SidecarInv, xbcloud
    <3> QED BY Zenon, <2>1, <3>1, <3>2, <3>3 DEF SidecarInv, Kept, Good
  <2> QED BY Zenon, <2>2, <2>3
<1> QED BY Zenon, <1>1, <1>2, <1>3, <1>4, <1>5 DEF SidecarInv

\* The errgroup passes on only when both commands did well.
LEMMA WaitKeeps ==
    ASSUME SidecarBounds, SidecarInv, NEW a \in Attempts, Wait(a)
    PROVE  SidecarInv'
<1>0. /\ \E s \in {"check", "leave"} : handler' = [handler EXCEPT ![a] = s]
      /\ handler[a] \in {"list", "delete", "copy", "check"}
      /\ UNCHANGED <<isRunning, config>>
  BY Zenon DEF Wait, GroupOk
<1>1. SidecarTypeOK'
  <2>1. /\ handler' \in [Attempts -> Stages]
        /\ isRunning' \in BOOLEAN /\ config' \in Attempts \union {Nobody}
    BY <1>0 DEF SidecarInv, SidecarTypeOK, Stages
  <2>2. losses' \in 0..MaxLosses
    BY Zenon DEF SidecarInv, SidecarTypeOK, SidecarBounds, Wait, GroupOk
  <2>3. answer' \in [Attempts -> {"none", "ok", "error"}]
    BY Zenon DEF SidecarInv, SidecarTypeOK, Wait, GroupOk
  <2> QED BY Zenon, <2>1, <2>2, <2>3 DEF SidecarInv, SidecarTypeOK, Wait
<1>2. Exclusive'
  BY <1>0 DEF SidecarInv, SidecarTypeOK, Exclusive, Stages
<1>3. Earned'
  BY Zenon, AttemptFacts DEF SidecarInv, SidecarTypeOK, Earned, Wait, GroupOk
<1>4. ASSUME NEW c \in Attempts PROVE Stage(c)'
  BY AttemptFacts DEF SidecarInv, SidecarTypeOK, Exclusive, Stage, Stages,
       SidecarBounds, Wait, GroupOk
<1>5. ASSUME NEW c \in Attempts PROVE Kept(c)'
  <2>1. handler[a] = "copy" /\ UNCHANGED <<client, try, xtra, cloud, stored>>
    BY Zenon DEF Wait
  <2>2. CASE c = a
    <3>1. answer'[a] # "ok"
      BY Zenon, <2>1 DEF SidecarInv, SidecarTypeOK, Stage, Wait
    <3>2. GroupOk(a) => stored[Job(a)] = Whole(a)
      <4>1. stored[Job(a)] \in [by : Attempts \union {Nobody}, whole : BOOLEAN]
        BY Zenon, AttemptFacts DEF SidecarInv, SidecarTypeOK
      <4>2. GroupOk(a) => stored[Job(a)].by = a /\ stored[Job(a)].whole = TRUE
        BY Zenon, <2>1, <4>1 DEF SidecarInv, Kept, Good, GroupOk
      <4> QED BY Zenon, <4>1, <4>2 DEF Whole
    <3>3. (handler'[a] = "check" /\ GroupOk(a)) \/ handler'[a] = "leave"
      BY Zenon DEF SidecarInv, SidecarTypeOK, Wait
    <3> QED BY Zenon, <2>1, <2>2, <3>1, <3>2, <3>3 DEF Kept, Good, GroupOk
  <2>3. CASE c # a
    BY <1>0, <2>1, <2>3 DEF SidecarInv, SidecarTypeOK, Exclusive, Kept, Good,
         GroupOk,
         Wait
  <2> QED BY Zenon, <2>2, <2>3
<1> QED BY Zenon, <1>1, <1>2, <1>3, <1>4, <1>5 DEF SidecarInv

\* The good answer is given with the whole backup stored.
LEMMA checkBackupMD5SizeKeeps ==
    ASSUME SidecarBounds, SidecarInv, NEW a \in Attempts, checkBackupMD5Size(a)
    PROVE  SidecarInv'
<1>0. /\ \E s \in {"leave"} : handler' = [handler EXCEPT ![a] = s]
      /\ handler[a] \in {"list", "delete", "copy", "check"}
      /\ UNCHANGED <<isRunning, config>>
  BY Zenon DEF checkBackupMD5Size, Fails, Err
<1>1. SidecarTypeOK'
  <2>1. /\ handler' \in [Attempts -> Stages]
        /\ isRunning' \in BOOLEAN /\ config' \in Attempts \union {Nobody}
    BY <1>0 DEF SidecarInv, SidecarTypeOK, Stages
  <2>2. losses' \in 0..MaxLosses
    BY DEF SidecarInv, SidecarTypeOK, SidecarBounds, checkBackupMD5Size, Fails,
         Err
  <2>3. answer' \in [Attempts -> {"none", "ok", "error"}]
    BY Zenon DEF SidecarInv, SidecarTypeOK, checkBackupMD5Size, Fails, Err
  <2> QED BY Zenon, <2>1, <2>2, <2>3 DEF SidecarInv, SidecarTypeOK,
       checkBackupMD5Size
<1>2. Exclusive'
  BY <1>0 DEF SidecarInv, SidecarTypeOK, Exclusive, Stages
<1>3. Earned'
  BY Zenon, AttemptFacts DEF SidecarInv, SidecarTypeOK, Earned,
       checkBackupMD5Size,
       Fails, Err
<1>4. ASSUME NEW c \in Attempts PROVE Stage(c)'
  BY AttemptFacts DEF SidecarInv, SidecarTypeOK, Exclusive, Stage,
       Stages,
       SidecarBounds, checkBackupMD5Size, Fails, Err
<1>5. ASSUME NEW c \in Attempts PROVE Kept(c)'
  BY AttemptFacts DEF SidecarInv, SidecarTypeOK, Exclusive, Stage,
       Kept, Good,
       Whole,
       Nothing, GroupOk, SidecarBounds, checkBackupMD5Size, Fails, Err
<1> QED BY Zenon, <1>1, <1>2, <1>3, <1>4, <1>5 DEF SidecarInv

\* The deferred calls give up the configuration, then the flag.
LEMMA LeaveKeeps ==
    ASSUME SidecarBounds, SidecarInv, NEW a \in Attempts, Leave(a)
    PROVE  SidecarInv'
<1>1. SidecarTypeOK'
  BY Zenon, AttemptFacts DEF SidecarInv, SidecarTypeOK, SidecarBounds, Stages,
       Nothing,
       Leave
<1>2. Exclusive'
  BY AttemptFacts DEF SidecarInv, SidecarTypeOK, Exclusive, Stage, Stages, Leave
<1>3. Earned'
  BY Zenon, AttemptFacts DEF SidecarInv, SidecarTypeOK, Earned, Leave
<1>4. ASSUME NEW c \in Attempts PROVE Stage(c)'
  BY AttemptFacts DEF SidecarInv, SidecarTypeOK, Exclusive, Stage,
       Stages,
       SidecarBounds, Leave
<1>5. ASSUME NEW c \in Attempts PROVE Kept(c)'
  BY AttemptFacts DEF SidecarInv, SidecarTypeOK, Exclusive, Stage, Kept, Good,
       Whole,
       Nothing, GroupOk, SidecarBounds, Leave
<1> QED BY Zenon, <1>1, <1>2, <1>3, <1>4, <1>5 DEF SidecarInv

\* The Job controller counts an attempt, and so another one becomes the current.
LEMMA JobStepKeeps ==
    ASSUME SidecarBounds, SidecarInv, NEW j \in Jobs, JobStep(j)
    PROVE  SidecarInv'
<1>0. /\ try[j] \in 1..MaxTries /\ <<j, try[j]>> \in Attempts
      /\ UNCHANGED <<client, handler, xtra, cloud, answer, isRunning, config,
                     stored, losses>>
  BY Zenon, AttemptFacts DEF SidecarInv, SidecarTypeOK, JobStep
<1>1. \/ /\ client[<<j, try[j]>>] = "ok" /\ UNCHANGED try
         /\ outcome' = [outcome EXCEPT ![j] = "succeeded"]
      \/ /\ outcome[j] = "running" /\ UNCHANGED outcome
         /\ try[j] < MaxTries /\ try' = [try EXCEPT ![j] = try[j] + 1]
      \/ outcome' = [outcome EXCEPT ![j] = "failed"] /\ UNCHANGED try
  BY Zenon DEF JobStep
<1>2. SidecarTypeOK'
  <2>1. try' \in [Jobs -> 1..MaxTries]
    BY <1>0, <1>1 DEF SidecarInv, SidecarTypeOK, SidecarBounds
  <2>2. outcome' \in [Jobs -> {"running", "succeeded", "failed"}]
    BY Zenon, <1>1 DEF SidecarInv, SidecarTypeOK
  <2> QED BY Zenon, <1>0, <2>1, <2>2 DEF SidecarInv, SidecarTypeOK
<1>3. Exclusive'
  BY Zenon, <1>0 DEF SidecarInv, Exclusive
<1>4. Earned'
  BY Zenon, <1>0, <1>1 DEF SidecarInv, SidecarTypeOK, Earned
<1>5. ASSUME NEW c \in Attempts PROVE Stage(c)' /\ Kept(c)'
  <2>1. Job(c) \in Jobs /\ c[2] \in 1..MaxTries
    BY Zenon, AttemptFacts
  <2>2. try'[Job(c)] = try[Job(c)] \/ try'[Job(c)] = try[Job(c)] + 1
    BY Zenon, <1>1, <2>1 DEF SidecarInv, SidecarTypeOK
  <2>3. try[Job(c)] \in 1..MaxTries
    BY Zenon, <2>1 DEF SidecarInv, SidecarTypeOK
  <2>4. Stage(c)'
    <3>1. Stage(c)
      BY Zenon DEF SidecarInv
    <3> QED BY <1>0, <2>1, <2>2, <2>3, <3>1 DEF Stage
  <2>5. Kept(c)'
    <3>0. Stage(c) /\ Kept(c)
      BY Zenon DEF SidecarInv
    <3>1. CASE try'[Job(c)] = try[Job(c)]
      BY Zenon, <1>0, <3>0, <3>1 DEF Kept, Good, GroupOk
    <3>2. CASE try'[Job(c)] = try[Job(c)] + 1
      <4>1. c[2] = try'[Job(c)] => answer[c] = "none"
        BY <2>1, <2>3, <3>0, <3>2 DEF Stage
      <4> QED BY Zenon, <1>0, <3>0, <4>1 DEF Kept, Good, GroupOk
    <3> QED BY Zenon, <2>2, <3>1, <3>2
  <2> QED BY Zenon, <2>4, <2>5
<1> QED BY Zenon, <1>2, <1>3, <1>4, <1>5 DEF SidecarInv

\* A restart of the sidecar ends all requests; what is stored stays.
LEMMA RestartSidecarKeeps ==
    ASSUME SidecarBounds, SidecarInv, RestartSidecar
    PROVE  SidecarInv'
<1>1. SidecarTypeOK'
  <2>1. losses' \in 0..MaxLosses
    BY DEF SidecarInv, SidecarTypeOK, SidecarBounds, RestartSidecar
  <2>2. /\ answer' \in [Attempts -> {"none", "ok", "error"}]
        /\ handler' \in [Attempts -> Stages]
        /\ xtra' \in [Attempts -> {"off", "on", "done", "broken"}]
        /\ cloud' \in [Attempts -> {"off", "on", "done", "broken"}]
    BY Zenon DEF SidecarInv, SidecarTypeOK, Stages, RestartSidecar
  <2>3. isRunning' \in BOOLEAN /\ config' \in Attempts \union {Nobody}
    BY Zenon DEF RestartSidecar
  <2> QED BY Zenon, <2>1, <2>2, <2>3 DEF SidecarInv, SidecarTypeOK,
       RestartSidecar
<1>2. Exclusive'
  BY Zenon DEF Exclusive, RestartSidecar
<1>3. Earned'
  BY Zenon DEF SidecarInv, Earned, RestartSidecar
<1>4. ASSUME NEW c \in Attempts PROVE Stage(c)' /\ Kept(c)'
  <2>1. handler'[c] = "none" /\ xtra'[c] # "on" /\ cloud'[c] # "on"
    BY Zenon DEF RestartSidecar
  <2>2. answer'[c] = "ok" <=> answer[c] = "ok"
    BY Zenon DEF SidecarInv, SidecarTypeOK, RestartSidecar
  <2>3. client[c] = "none" => answer'[c] = "none"
    BY Zenon DEF SidecarInv, Stage, RestartSidecar
  <2>4. /\ xtra'[c] = "off" <=> xtra[c] = "off"
        /\ cloud'[c] = "off" <=> cloud[c] = "off"
    BY Zenon DEF SidecarInv, SidecarTypeOK, RestartSidecar
  <2>5. UNCHANGED <<try, outcome, client, stored>>
    BY Zenon DEF RestartSidecar
  <2>6. Stage(c)'
    BY Zenon, <2>1, <2>2, <2>3, <2>4, <2>5 DEF SidecarInv, Stage
  <2>7. Kept(c)'
    BY Zenon, <2>1, <2>2, <2>5 DEF SidecarInv, Kept, Good, RestartSidecar
  <2> QED BY Zenon, <2>6, <2>7
<1> QED BY Zenon, <1>1, <1>2, <1>3, <1>4 DEF SidecarInv

\* Every step keeps the invariant.
LEMMA SidecarInvNext ==
    ASSUME SidecarBounds, SidecarInv, [SidecarNext]_svars
    PROVE  SidecarInv'
<1>1. ASSUME NEW a \in Attempts, ClientStep(a) \/ LosePod(a) \/ HandlerStep(a)
      PROVE  SidecarInv'
  BY Zenon, <1>1, RequestKeeps, ReceiveKeeps, printLogsKeeps, LosePodKeeps,
       setBackupConfigKeeps,
     backupExistsKeeps, deleteBackupKeeps, StartCommandsKeeps, xtrabackupKeeps,
     xbcloudKeeps, WaitKeeps, checkBackupMD5SizeKeeps, LeaveKeeps
     DEF ClientStep, HandlerStep
<1>2. ASSUME NEW j \in Jobs, JobStep(j) PROVE SidecarInv'
  BY Zenon, <1>2, JobStepKeeps
<1>3. CASE RestartSidecar
  BY Zenon, <1>3, RestartSidecarKeeps
<1>4. CASE UNCHANGED svars
  BY <1>4 DEF svars, SidecarInv, SidecarTypeOK, Exclusive, Earned, Stage, Kept,
       Good,
       GroupOk
<1> QED BY Zenon, <1>1, <1>2, <1>3, <1>4 DEF SidecarNext

\* The invariant has the whole backup of a Job that has succeeded in the storage.
LEMMA InvGivesStoredWhole ==
    ASSUME SidecarBounds, SidecarInv
    PROVE  StoredWhole
<1> SUFFICES ASSUME NEW j \in Jobs, outcome[j] = "succeeded"
             PROVE  stored[j] = [by |-> <<j, try[j]>>, whole |-> TRUE]
  BY Zenon DEF StoredWhole
<1> DEFINE a == <<j, try[j]>>
<1>0. try[j] \in 1..MaxTries
  BY Zenon DEF SidecarInv, SidecarTypeOK
<1>1. a \in Attempts /\ Job(a) = j /\ a[2] = try[j]
  BY Zenon, <1>0, AttemptFacts
<1>2. client[a] = "ok"
  BY Zenon DEF SidecarInv, Earned
<1>3. answer[a] = "ok"
  BY Zenon, <1>1, <1>2 DEF SidecarInv, Stage
<1> QED BY Zenon, <1>1, <1>2, <1>3 DEF SidecarInv, Kept, Good, Whole

\* It has one request at work at most, with the configuration its own.
LEMMA InvGivesOneRequest ==
    ASSUME SidecarInv
    PROVE  OneRequest
  BY Zenon DEF OneRequest, SidecarInv, Exclusive

\* For any number of Jobs and attempts, the sidecar works on one request at a
\* time, whose configuration is in currentBackupConf from setBackupConfig to
\* removeBackupConfig, and a Job that has succeeded has its whole backup in the
\* storage: CreateBackup admits one request at a time, a retry begins only when
\* the client before it is gone, and no request left over from a lost pod writes
\* after the answer.
THEOREM BackupsAreWhole ==
    ASSUME SidecarBounds
    PROVE  SidecarSpec => []SucceededIsWhole
<1>1. SidecarInv => SucceededIsWhole
  BY Zenon, InvGivesStoredWhole, InvGivesOneRequest DEF SucceededIsWhole
<1> QED BY <1>1, SidecarInvInit, SidecarInvNext, PTL DEF SidecarSpec

-----------------------------------------------------------------------------
\* peer-list.  A node that is started waits for its first list; the backends
\* are the peers last handed over; and while the records stay the same without
\* having been handed over, the time since the last change runs with them.
PeersInv ==
    /\ mode \in {"start", "change", "both"}
    /\ since \in 0..WaitPeriod /\ stable \in 0..WaitPeriod + 1
    /\ mode = "start" /\ process \in {"runs", "down"} =>
         script = "start" /\ isFirst /\ peers = {}
    /\ process = "exited" => started \/ failed
    /\ peers # {} => backends = peers
    /\ peers = records \/ since >= stable \/ since = WaitPeriod
    /\ stable > WaitPeriod => peers = records

\* It holds when the process starts.
LEMMA PeersStart == PeerListInit => PeersInv
  BY PeerListBounds DEF PeerListInit, PeersInv, onStart, onChange

\* A poll that finds the records hands them over or lets time pass; one that
\* fails starts to count anew.
LEMMA PollKeeps ==
    ASSUME PeersInv, Poll
    PROVE  PeersInv'
  <1>0. WaitPeriod \in Nat /\ mode' = mode /\ records' = records /\ process = "runs"
    BY Zenon, PeerListBounds DEF Poll
  <1>1. PICK found \in lookup :
          /\ \/ found = "notFound" /\ NotFound
             \/ found = "found" /\ Compare(records) /\ GoOn
             \/ found = "error" /\ Compare({}) /\ GoOn
          /\ stable' = IF found = "error" THEN 0 ELSE Later(stable, WaitPeriod + 1)
          /\ failed' = (failed \/ found = "error")
    BY Zenon DEF Poll
  <1>2. CASE found = "notFound"
    <2>1. records = {}
      BY Zenon, <1>2 DEF lookup
    <2> QED BY <1>0, <1>1, <1>2, <2>1 DEF PeersInv, NotFound, Later
  <1>3. CASE found = "found"
    <2>1. records # {}
      BY Zenon, <1>3 DEF lookup
    <2>2. CASE peers # records /\ (isFirst \/ since = WaitPeriod)
      <3>1. /\ peers' = records /\ since' = 0 /\ backends' = records
            /\ started' = (started \/ script = "start")
            /\ script' = onChange /\ process' = IF onChange = "none" THEN "exited" ELSE "runs"
            /\ stable' = Later(stable, WaitPeriod + 1)
        BY Zenon, <1>1, <1>3, <2>1, <2>2 DEF Compare, HandOver, Applied, GoOn
      <3>2. /\ stable' \in 0..WaitPeriod + 1
            /\ mode = "start" => process' = "exited"
            /\ mode # "start" => process' = "runs"
        BY <1>0, <3>1 DEF PeersInv, Later, onChange
      <3>3. mode = "start" => started'
        BY Zenon, <1>0, <3>1 DEF PeersInv
      <3> QED BY <1>0, <3>1, <3>2, <3>3 DEF PeersInv
    <2>3. CASE ~(peers # records /\ (isFirst \/ since = WaitPeriod))
      <3>1. /\ UNCHANGED <<peers, isFirst, started, backends>>
            /\ since' = Later(since, WaitPeriod) /\ stable' = Later(stable, WaitPeriod + 1)
            /\ process' = IF onChange = "none" THEN "exited" ELSE "runs"
        BY Zenon, <1>1, <1>3, <2>3 DEF Compare, Ignored, GoOn
      <3>2. mode # "start"
        BY Zenon, <1>0, <2>1, <2>3 DEF PeersInv
      <3> QED BY <1>0, <2>3, <3>1, <3>2 DEF PeersInv, Later, onChange
    <2> QED BY Zenon, <2>2, <2>3
  <1>4. CASE found = "error"
    <2>0. failed'
      BY Zenon, <1>1, <1>4
    <2>1. /\ stable' = 0 /\ since' \in 0..WaitPeriod
          /\ peers' = {} \/ (peers' = peers /\ backends' = backends)
          /\ process' = IF onChange = "none" THEN "exited" ELSE "runs"
      <3>1. Compare({}) /\ GoOn /\ stable' = 0
        BY Zenon, <1>1, <1>4
      <3>2. CASE peers # {} /\ (isFirst \/ since = WaitPeriod)
        <4>1. HandOver({})
          BY Zenon, <3>1, <3>2 DEF Compare
        <4> QED BY <1>0, <3>1, <4>1 DEF HandOver, GoOn
      <3>3. CASE ~(peers # {} /\ (isFirst \/ since = WaitPeriod))
        BY <1>0, <3>1, <3>3 DEF Compare, Ignored, GoOn, PeersInv, Later
      <3> QED BY Zenon, <3>2, <3>3
    <2> QED BY <1>0, <2>0, <2>1 DEF PeersInv, onChange
  <1> QED BY Zenon, <1>1, <1>2, <1>3, <1>4 DEF lookup

\* What peer-list hands over reaches its script, for any set of peers, any
\* waitPeriod and any number of changes, failed lookups and restarts.
THEOREM ScriptsGetThePeers == PeerListSpec => []PeersReachTheScript
  <1>1. PeersInv /\ [PeerListNext]_lvars => PeersInv'
    <2> SUFFICES ASSUME PeersInv, [PeerListNext]_lvars PROVE PeersInv'
      OBVIOUS
    <2>1. CASE Poll
      BY Zenon, <2>1, PollKeeps
    <2>2. CASE End
      BY <2>2, PeerListBounds DEF End, PeersInv
    <2>3. CASE Restart
      BY <2>3, PeerListBounds DEF Restart, Enter, PeersInv, onStart, onChange
    <2>4. CASE Churn
      BY <2>4, PeerListBounds DEF Churn, PeersInv
    <2>5. CASE UNCHANGED lvars
      BY Zenon, <2>5 DEF lvars, PeersInv
    <2> QED BY Zenon, <2>1, <2>2, <2>3, <2>4, <2>5 DEF PeerListNext
  <1>2. PeersInv => PeersReachTheScript
    BY Zenon DEF PeersInv, PeersReachTheScript, OnStartHasRun, UpdatesArrive
  <1> QED BY <1>1, <1>2, PeersStart, PTL DEF PeerListSpec

-----------------------------------------------------------------------------
\* mysql-state-monitor.  What is still to be read ends with the last
\* notification; a file that is being written is empty, any other holds at most
\* one word, in the end that of the last notification.
MonitorInv ==
    /\ socket \in Seq(Data) /\ offset \in Nat
    /\ mpc \in {"off", "read", "truncate", "write"}
    /\ mpc = "write" => file = <<>>
    /\ mpc # "off" => Words = {} \/ \E i \in DOMAIN file : Words = {i}
    /\ heard => mpc # "off" /\ told # "none"
    /\ heard /\ socket # <<>> => socket[Len(socket)] = told
    /\ heard /\ socket = <<>> /\ mpc \in {"truncate", "write"} => datum = told
    /\ UpToDateMonitor => Reads(parseDatum(told))
    /\ phase = "starting" => told = "in progress"
    /\ phase = "none" => told \in {"none", "Server shutdown complete"}

\* A word written at any offset of an empty file is the only one the probe reads.
LEMMA WriteReads ==
    ASSUME NEW w, w # "NUL", offset \in Nat,
           file' = [i \in 1..offset + 1 |-> IF i = offset + 1 THEN w ELSE "NUL"]
    PROVE  /\ offset + 1 \in DOMAIN file' /\ file'[offset + 1] = w
           /\ Words' = {offset + 1}
  <1>1. /\ DOMAIN file' = 1..offset + 1 /\ file'[offset + 1] = w
        /\ \A i \in DOMAIN file' : file'[i] # "NUL" <=> i = offset + 1
    OBVIOUS
  <1> QED BY <1>1 DEF Words

\* What the monitor's socket, a queue of datagrams, does: its last word stays
\* when the first one is read,
LEMMA Queues ==
    ASSUME NEW S
    PROVE  /\ <<>> \in Seq(S)
           /\ \A s \in Seq(S) :
                /\ Len(s) \in Nat
                /\ s # <<>> =>
                     /\ Len(s) > 0 /\ Tail(s) \in Seq(S)
                     /\ Len(Tail(s)) = Len(s) - 1
                     /\ \A i \in 1..Len(Tail(s)) : Tail(s)[i] = s[i + 1]
  OBVIOUS

\* and is the one sent last.
LEMMA Appended ==
    ASSUME NEW S, NEW s \in Seq(S), NEW e \in S
    PROVE  /\ Append(s, e) \in Seq(S) /\ Append(s, e) # <<>>
           /\ Len(Append(s, e)) = Len(s) + 1 /\ Append(s, e)[Len(s) + 1] = e
  OBVIOUS

\* The words of parseDatum are not zeros, and a server that starts or has shut
\* down counts as starting.
LEMMA WordsOfData ==
    /\ \A d : parseDatum(d) # "NUL"
    /\ parseDatum("in progress") = "startup"
    /\ parseDatum("Server shutdown complete") = "startup"
  BY Zenon DEF parseDatum, Parsed

\* It holds when the container starts.
LEMMA MonitorStart == StateMonitorInit => MonitorInv
  BY DEF StateMonitorInit, MonitorInv, UpToDateMonitor

\* The monitor's own steps keep it.
LEMMA LoopKeeps ==
    ASSUME MonitorInv, Listen \/ ReadFromUnix \/ Truncate \/ Hitch \/ WriteState
    PROVE  MonitorInv'
  <1>0. DOMAIN <<>> = {}
    OBVIOUS
  <1>1. CASE Listen
    <2>1. /\ mpc = "off" /\ mpc' = "read" /\ file' = <<>> /\ offset' = 0 /\ socket' = <<>>
          /\ UNCHANGED <<phase, told, heard>>
      BY Zenon, <1>1 DEF Listen, server
    <2>2. Words' = {}
      BY Zenon, <1>0, <2>1 DEF Words
    <2>3. ~heard'
      BY Zenon, <2>1 DEF MonitorInv
    <2> QED BY Zenon, <2>1, <2>2, <2>3, Queues DEF MonitorInv, UpToDateMonitor
  <1>2. CASE ReadFromUnix
    <2>1. /\ mpc = "read" /\ mpc' = "truncate" /\ socket # <<>> /\ socket \in Seq(Data)
          /\ datum' = Head(socket) /\ socket' = Tail(socket)
          /\ UNCHANGED <<phase, told, heard, offset, file>>
      BY Zenon, <1>2 DEF ReadFromUnix, server, MonitorInv
    <2>2. /\ socket' \in Seq(Data)
          /\ socket' = <<>> => datum' = socket[Len(socket)]
          /\ socket' # <<>> => socket'[Len(socket')] = socket[Len(socket)]
      <3>1. /\ Len(socket) \in Nat /\ Len(socket) > 0 /\ socket' \in Seq(Data)
            /\ Len(socket') = Len(socket) - 1
            /\ \A i \in 1..Len(socket') : socket'[i] = socket[i + 1]
        BY Zenon, <2>1, Queues
      <3>2. CASE Len(socket) = 1
        BY <2>1, <3>1, <3>2
      <3>3. CASE Len(socket) > 1
        BY <3>1, <3>3
      <3> QED BY <3>1, <3>2, <3>3
    <2>3. Words' = Words
      BY Zenon, <2>1 DEF Words
    <2> QED BY Zenon, <2>1, <2>2, <2>3 DEF MonitorInv, UpToDateMonitor
  <1>3. CASE Truncate
    <2>1. /\ mpc = "truncate" /\ mpc' = "write" /\ file' = <<>>
          /\ UNCHANGED <<phase, told, heard, socket, datum, offset>>
      BY Zenon, <1>3 DEF Truncate, server
    <2>2. Words' = {}
      BY Zenon, <1>0, <2>1 DEF Words
    <2> QED BY Zenon, <2>1, <2>2 DEF MonitorInv, UpToDateMonitor
  <1>4. CASE Hitch
    <2>1. /\ mpc \in {"truncate", "write"} /\ mpc' = "read" /\ unsure'
          /\ UNCHANGED <<phase, told, heard, socket, datum, offset, file>>
      BY Zenon, <1>4 DEF Hitch, server
    <2>2. Words' = Words
      BY Zenon, <2>1 DEF Words
    <2> QED BY Zenon, <2>1, <2>2 DEF MonitorInv, UpToDateMonitor
  <1>5. CASE WriteState
    <2>0. /\ offset \in Nat /\ mpc = "write" /\ mpc' = "read" /\ offset' = offset + 1
          /\ file = <<>> /\ UNCHANGED <<phase, told, heard, socket, datum>>
      BY Zenon, <1>5 DEF WriteState, server, MonitorInv
    <2>1. file' = [i \in 1..offset + 1 |-> IF i = offset + 1 THEN parseDatum(datum) ELSE "NUL"]
      <3>1. \A i \in 1..offset + 1 : ~(i <= Len(file))
        BY <2>0
      <3> QED BY Zenon, <1>5, <3>1 DEF WriteState
    <2>2. parseDatum(datum) # "NUL"
      BY Zenon, WordsOfData
    <2>3. /\ offset + 1 \in DOMAIN file' /\ file'[offset + 1] = parseDatum(datum)
          /\ Words' = {offset + 1}
      BY Zenon, <2>0, <2>1, <2>2, WriteReads
    <2>4. heard' /\ socket' = <<>> => datum = told
      BY Zenon, <2>0 DEF MonitorInv
    <2>5. UpToDateMonitor' => Reads(parseDatum(told))'
      BY Zenon, <2>0, <2>3, <2>4 DEF UpToDateMonitor, Reads
    <2>6. \E i \in DOMAIN file' : Words' = {i}
      BY Zenon, <2>3
    <2>7. offset' \in Nat
      BY <2>0
    <2> QED BY Zenon, <2>0, <2>5, <2>6, <2>7 DEF MonitorInv
  <1> QED BY Zenon, <1>1, <1>2, <1>3, <1>4, <1>5

\* A notification is the last word of the socket, or lost before the monitor
\* listens.
LEMMA NotifyKeeps ==
    ASSUME MonitorInv, NEW m \in Data, Notify(m),
           phase' = "starting" => m = "in progress",
           phase' = "none" => m = "Server shutdown complete"
    PROVE  MonitorInv'
  <1>1. Append(socket, m) \in Seq(Data) /\ Len(Append(socket, m)) = Len(socket) + 1
        /\ Append(socket, m)[Len(Append(socket, m))] = m /\ Append(socket, m) # <<>>
    <2>1. socket \in Seq(Data)
      BY Zenon DEF MonitorInv
    <2>2. Len(socket) \in Nat
      BY Zenon, <2>1, Queues
    <2>3. /\ Append(socket, m) \in Seq(Data) /\ Append(socket, m) # <<>>
          /\ Len(Append(socket, m)) = Len(socket) + 1
          /\ Append(socket, m)[Len(socket) + 1] = m
      BY Zenon, <2>1, Appended
    <2> QED BY Zenon, <2>3
  <1>2. m # "none"
    BY Zenon DEF Data
  <1>3. /\ UNCHANGED <<mpc, datum, offset, file, unsure>> /\ told' = m
        /\ heard' = (mpc # "off")
        /\ socket' = IF mpc # "off" THEN Append(socket, m) ELSE socket
    BY Zenon DEF Notify
  <1>4. Words' = Words
    BY Zenon, <1>3 DEF Words
  <1>5. CASE mpc = "off"
    <2>1. ~heard'
      BY Zenon, <1>3, <1>5
    <2> QED BY Zenon, <1>3, <1>4, <1>5, <2>1 DEF MonitorInv, UpToDateMonitor
  <1>6. CASE mpc # "off"
    <2>1. socket' = Append(socket, m)
      BY Zenon, <1>3, <1>6
    <2> QED BY Zenon, <1>1, <1>2, <1>3, <1>4, <1>6, <2>1 DEF MonitorInv,
         UpToDateMonitor
  <1> QED BY Zenon, <1>5, <1>6

\* Whatever is sent and lost, whichever calls on the file fail and however often
\* the container starts again, the liveness probe reads the last state or nothing
\* and so spares a server that starts.
THEOREM ProbeIsTold == StateMonitorSpec => []ProbeReadsLastState
  <1>1. MonitorInv /\ [StateMonitorNext]_mvars => MonitorInv'
    <2> SUFFICES ASSUME MonitorInv, [StateMonitorNext]_mvars PROVE MonitorInv'
      OBVIOUS
    <2>1. CASE Listen \/ ReadFromUnix \/ Truncate \/ Hitch \/ WriteState
      BY Zenon, <2>1, LoopKeeps
    <2>2. CASE Begin \/ Progress
      BY Zenon, <2>2, NotifyKeeps DEF Begin, Progress, Data
    <2>3. CASE Up
      BY Zenon, <2>3, NotifyKeeps DEF Up, Data
    <2>4. CASE Close
      BY Zenon, <2>4, NotifyKeeps DEF Close, Data
    <2>5. CASE Closed
      BY Zenon, <2>5, NotifyKeeps DEF Closed, Data
    <2>6. CASE NewContainer
      <3>1. /\ mpc' = "off" /\ socket' = <<>> /\ offset' = 0 /\ ~heard'
            /\ phase' = "none" /\ told' = "none"
        BY Zenon, <2>6 DEF NewContainer
      <3> QED BY Zenon, <3>1, Queues DEF MonitorInv, UpToDateMonitor
    <2>7. CASE UNCHANGED mvars
      BY Zenon, <2>7 DEF mvars, MonitorInv, Words, Reads, UpToDateMonitor
    <2> QED BY Zenon, <2>1, <2>2, <2>3, <2>4, <2>5, <2>6, <2>7 DEF
         StateMonitorNext
  <1>2. MonitorInv => ProbeReadsLastState
    BY Zenon, WordsOfData DEF MonitorInv, ProbeReadsLastState, FileHasLastState,
         StartupSpared,
       ProbeSpares, UpToDateMonitor
  <1> QED BY <1>1, <1>2, MonitorStart, PTL DEF StateMonitorSpec
=============================================================================
