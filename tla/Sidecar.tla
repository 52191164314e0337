------------------------------- MODULE Sidecar -------------------------------
(***************************************************************************)
(* The xtrabackup sidecar of a PXC pod and the run-backup command of a     *)
(* backup Job's pod: the CreateBackup handler with its flag                *)
(* (pkg/xtrabackup/server/create.go, status.go), GetLogs (logs.go), and    *)
(* the client that makes the request and turns its answer into an exit     *)
(* code (cmd/xtrabackup/run-backup/main.go).                               *)
(*                                                                         *)
(* A Job makes one attempt (a pod) after another; an attempt that was lost *)
(* may still have its request running in the sidecar when the next begins. *)
(***************************************************************************)
EXTENDS Naturals

CONSTANTS Jobs,         \* backups made through this sidecar
          MaxTries,     \* attempts of a Job (backoffLimit + 1)
          MaxLosses     \* pods lost, commands that fail, sidecar restarts

VARIABLES try,       \* per Job: the number of its current attempt
          outcome,   \* per Job: running, succeeded, failed
          client,    \* per attempt: none, waiting, printing, ok, failed, lost
          handler,   \* per attempt: where its CreateBackup is
          xtra,      \* per attempt: the xtrabackup command
          cloud,     \* per attempt: the xbcloud command
          answer,    \* per attempt: none, ok, error
          isRunning, \* the flag
          config,    \* currentBackupConf: the attempt it belongs to
          stored,    \* per Job: what its destination holds
          losses

svars == <<try, outcome, client, handler, xtra, cloud, answer, isRunning,
           config, stored, losses>>

Attempts == Jobs \X (1..MaxTries)

\* getRequestObject: every attempt of a Job asks for the same destination.
Job(a)   == a[1]

Nobody   == <<"nobody", 0>>
Nothing  == [by |-> Nobody, whole |-> FALSE]
Stages   == {"none", "entered", "list", "delete", "copy", "check", "leave",
             "unlock"}

SidecarTypeOK ==
    /\ try \in [Jobs -> 1..MaxTries]
    /\ outcome \in [Jobs -> {"running", "succeeded", "failed"}]
    /\ client \in [Attempts -> {"none", "waiting", "printing", "ok", "failed", "lost"}]
    /\ handler \in [Attempts -> Stages]
    /\ xtra \in [Attempts -> {"off", "on", "done", "broken"}]
    /\ cloud \in [Attempts -> {"off", "on", "done", "broken"}]
    /\ answer \in [Attempts -> {"none", "ok", "error"}]
    /\ isRunning \in BOOLEAN /\ config \in Attempts \union {Nobody}
    /\ stored \in [Jobs -> [by : Attempts \union {Nobody}, whole : BOOLEAN]]
    /\ losses \in 0..MaxLosses

SidecarInit ==
    /\ try = [j \in Jobs |-> 1] /\ outcome = [j \in Jobs |-> "running"]
    /\ client = [a \in Attempts |-> "none"]
    /\ handler = [a \in Attempts |-> "none"]
    /\ xtra = [a \in Attempts |-> "off"] /\ cloud = xtra
    /\ answer = [a \in Attempts |-> "none"]
    /\ isRunning = FALSE /\ config = Nobody
    /\ stored = [j \in Jobs |-> Nothing] /\ losses = MaxLosses

-----------------------------------------------------------------------------
\* The client.  The answer to a request, a refusal included, arrives with the
\* stream; log.Fatal ends it with exit code 1.

Request(a) ==
    /\ outcome[Job(a)] = "running" /\ a[2] = try[Job(a)]
    /\ client[a] = "none"
    /\ client' = [client EXCEPT ![a] = "waiting"]
    /\ IF isRunning                              \* tryRunBackup
       THEN /\ answer' = [answer EXCEPT ![a] = "error"]
            /\ UNCHANGED <<handler, isRunning>>
       ELSE /\ isRunning' = TRUE
            /\ handler' = [handler EXCEPT ![a] = "entered"]
            /\ UNCHANGED answer
    /\ UNCHANGED <<try, outcome, xtra, cloud, config, stored, losses>>

\* The server sends the answer when the handler has returned, its deferred
\* calls included.
Receive(a) ==
    /\ client[a] = "waiting" /\ answer[a] # "none" /\ handler[a] = "none"
    /\ client' = [client EXCEPT ![a] = IF answer[a] = "ok" THEN "printing" ELSE "failed"]
    /\ UNCHANGED <<try, outcome, handler, xtra, cloud, answer, isRunning,
                   config, stored, losses>>

\* GetLogs streams the log file to the client, or fails.
GetLogs(ok) == IF ok THEN UNCHANGED losses ELSE losses > 0 /\ losses' = losses - 1

\* The deferred printLogs: a failure there is fatal too, so a backup that was
\* made counts as a failed attempt.
printLogs(a) ==
    /\ client[a] = "printing"
    /\ \E ok \in BOOLEAN :
         GetLogs(ok) /\ client' = [client EXCEPT ![a] = IF ok THEN "ok" ELSE "failed"]
    /\ UNCHANGED <<try, outcome, handler, xtra, cloud, answer, isRunning,
                   config, stored>>

\* The pod is lost; the request's context will be cancelled.
LosePod(a) ==
    /\ client[a] \in {"waiting", "printing"} /\ losses > 0
    /\ client' = [client EXCEPT ![a] = "lost"] /\ losses' = losses - 1
    /\ UNCHANGED <<try, outcome, handler, xtra, cloud, answer, isRunning,
                   config, stored>>

\* The Job controller.
JobStep(j) ==
    LET a == <<j, try[j]>>
    IN  /\ outcome[j] = "running"
        /\ \/ /\ client[a] = "ok"
              /\ outcome' = [outcome EXCEPT ![j] = "succeeded"] /\ UNCHANGED try
           \/ /\ client[a] \in {"failed", "lost"}
              /\ IF try[j] < MaxTries
                 THEN try' = [try EXCEPT ![j] = @ + 1] /\ UNCHANGED outcome
                 ELSE outcome' = [outcome EXCEPT ![j] = "failed"] /\ UNCHANGED try
        /\ UNCHANGED <<client, handler, xtra, cloud, answer, isRunning, config,
                       stored, losses>>

-----------------------------------------------------------------------------
\* CreateBackup.

Cancelled(a) == client[a] # "waiting"

\* An error ends the handler wherever it is: the context was cancelled, or a
\* call or command failed.
Err(a) ==
    \/ Cancelled(a) /\ UNCHANGED losses
    \/ losses > 0 /\ losses' = losses - 1

Fails(a) ==
    /\ Err(a)
    /\ handler' = [handler EXCEPT ![a] = "leave"]
    /\ answer' = [answer EXCEPT ![a] = "error"]

setBackupConfig(a) ==
    /\ handler[a] = "entered"
    /\ config' = a
    /\ handler' = [handler EXCEPT ![a] = "list"]
    /\ UNCHANGED <<try, outcome, client, xtra, cloud, answer, isRunning, stored,
                   losses>>

\* backupExists.
backupExists(a) ==
    /\ handler[a] = "list"
    /\ \/ /\ handler' = [handler EXCEPT ![a] =
                IF stored[Job(a)] = Nothing THEN "copy" ELSE "delete"]
          /\ UNCHANGED <<answer, losses>>
       \/ Fails(a)
    /\ UNCHANGED <<try, outcome, client, xtra, cloud, isRunning, config, stored>>

\* deleteBackup: xbcloud delete; it may leave a part.
deleteBackup(a) ==
    /\ handler[a] = "delete"
    /\ \/ /\ stored' = [stored EXCEPT ![Job(a)] = Nothing]
          /\ handler' = [handler EXCEPT ![a] = "copy"]
          /\ UNCHANGED <<answer, losses>>
       \/ /\ Fails(a)
          /\ stored' = [stored EXCEPT ![Job(a)].whole = FALSE]
    /\ UNCHANGED <<try, outcome, client, xtra, cloud, isRunning, config>>

\* The two goroutines of the errgroup start their commands,
StartCommands(a) ==
    /\ handler[a] = "copy" /\ xtra[a] = "off" /\ cloud[a] = "off"
    /\ xtra' = [xtra EXCEPT ![a] = "on"] /\ cloud' = [cloud EXCEPT ![a] = "on"]
    /\ stored' = [stored EXCEPT ![Job(a)] = [by |-> a, whole |-> FALSE]]
    /\ UNCHANGED <<try, outcome, client, handler, answer, isRunning, config,
                   losses>>

\* xtrabackup ends, or fails; the group's context is cancelled when the other
\* command failed or the client is gone.
xtrabackup(a) ==
    /\ xtra[a] = "on"
    /\ \/ /\ cloud[a] # "broken" /\ ~Cancelled(a)
          /\ xtra' = [xtra EXCEPT ![a] = "done"] /\ UNCHANGED losses
       \/ /\ Err(a) \/ (cloud[a] = "broken" /\ UNCHANGED losses)
          /\ xtra' = [xtra EXCEPT ![a] = "broken"]
    /\ UNCHANGED <<try, outcome, client, handler, cloud, answer, isRunning,
                   config, stored>>

\* xbcloud reads the pipe to its end: what it has stored is whole only when
\* xtrabackup had done its work; when xtrabackup broke it may still end well.
xbcloud(a) ==
    /\ cloud[a] = "on"
    /\ \/ /\ xtra[a] \in {"done", "broken"}
          /\ cloud' = [cloud EXCEPT ![a] = "done"]
          /\ stored' = [stored EXCEPT ![Job(a)].whole = xtra[a] = "done"]
          /\ UNCHANGED losses
       \/ /\ Err(a) \/ (xtra[a] = "broken" /\ UNCHANGED losses)
          /\ cloud' = [cloud EXCEPT ![a] = "broken"]
          /\ UNCHANGED stored
    /\ UNCHANGED <<try, outcome, client, handler, xtra, answer, isRunning,
                   config>>

\* A mutant: the exit of xbcloud decides.
GroupOkCloudOnly(a) == cloud[a] = "done"

GroupOk(a) == xtra[a] = "done" /\ cloud[a] = "done"

\* g.Wait: both goroutines have returned.
Wait(a) ==
    /\ handler[a] = "copy"
    /\ {xtra[a], cloud[a]} \subseteq {"done", "broken"}
    /\ IF GroupOk(a)
       THEN handler' = [handler EXCEPT ![a] = "check"] /\ UNCHANGED answer
       ELSE /\ handler' = [handler EXCEPT ![a] = "leave"]
            /\ answer' = [answer EXCEPT ![a] = "error"]
    /\ UNCHANGED <<try, outcome, client, xtra, cloud, isRunning, config, stored,
                   losses>>

checkBackupMD5Size(a) ==
    /\ handler[a] = "check"
    /\ \/ /\ handler' = [handler EXCEPT ![a] = "leave"]
          /\ answer' = [answer EXCEPT ![a] = "ok"]
          /\ UNCHANGED losses
       \/ Fails(a)
    /\ UNCHANGED <<try, outcome, client, xtra, cloud, isRunning, config, stored>>

\* The deferred calls: removeBackupConfig, then doneBackup.
Leave(a) ==
    /\ handler[a] \in {"leave", "unlock"}
    /\ IF handler[a] = "leave"
       THEN config' = Nobody /\ UNCHANGED isRunning
       ELSE isRunning' = FALSE /\ UNCHANGED config
    /\ handler' = [handler EXCEPT ![a] = IF @ = "leave" THEN "unlock" ELSE "none"]
    /\ UNCHANGED <<try, outcome, client, xtra, cloud, answer, stored, losses>>

\* The sidecar's container restarts: requests and commands are gone, the
\* clients see their streams break.
RestartSidecar ==
    /\ losses > 0 /\ losses' = losses - 1
    /\ answer' = [a \in Attempts |->
         IF handler[a] # "none" /\ answer[a] = "none" THEN "error" ELSE answer[a]]
    /\ handler' = [a \in Attempts |-> "none"]
    /\ xtra' = [a \in Attempts |-> IF xtra[a] = "on" THEN "broken" ELSE xtra[a]]
    /\ cloud' = [a \in Attempts |-> IF cloud[a] = "on" THEN "broken" ELSE cloud[a]]
    /\ isRunning' = FALSE /\ config' = Nobody
    /\ UNCHANGED <<try, outcome, client, stored>>

ClientStep(a) == Request(a) \/ Receive(a) \/ printLogs(a)
HandlerStep(a) ==
    \/ setBackupConfig(a) \/ backupExists(a) \/ deleteBackup(a)
    \/ StartCommands(a) \/ xtrabackup(a) \/ xbcloud(a) \/ Wait(a)
    \/ checkBackupMD5Size(a) \/ Leave(a)
SidecarNext ==
    \/ \E a \in Attempts : ClientStep(a) \/ LosePod(a) \/ HandlerStep(a)
    \/ \E j \in Jobs : JobStep(j)
    \/ RestartSidecar
SidecarSpec == SidecarInit /\ [][SidecarNext]_svars

-----------------------------------------------------------------------------
\* A Job that has succeeded has its whole backup in the storage: retries
\* delete what an earlier attempt stored, and a request left over from a lost
\* pod may still be running, but no step after the answer spoils it.
StoredWhole ==
    \A j \in Jobs : outcome[j] = "succeeded" =>
        stored[j] = [by |-> <<j, try[j]>>, whole |-> TRUE]

\* At most one request works, and currentBackupConf is its own from the moment
\* it was set until it is removed: the deferred calls run in the order that
\* keeps a finished request from wiping the configuration of the next.
OneRequest ==
    /\ \A a, b \in Attempts : handler[a] # "none" /\ handler[b] # "none" => a = b
    /\ \A a \in Attempts :
         handler[a] \in Stages \ {"none", "entered", "unlock"} => config = a

\* Both: what a Job reports was made by one request alone, and is whole
\* (tryRunBackup, CreateBackup, run-backup).
SucceededIsWhole == OneRequest /\ StoredWhole

\* Whatever happens to its client, a request ends and frees the sidecar, and
\* every Job ends.
SidecarFree ==
    ~isRunning /\ \A j \in Jobs : outcome[j] # "running"
SidecarFreed == <>[]SidecarFree
=============================================================================
