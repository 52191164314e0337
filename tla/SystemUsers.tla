---------------------------- MODULE SystemUsers ----------------------------
(***************************************************************************)
(* The system users of a cluster: how a password edited in the users'      *)
(* secret reaches MySQL, ProxySQL, the init file, the internal secret and   *)
(* the pods (pkg/controller/pxc/users.go, users_without_dp.go, secrets.go,  *)
(* pkg/pxc/users/users.go).                                                 *)
(*                                                                         *)
(* A pass of the operator visits the users in a fixed order.  The handler   *)
(* of a user decides, from the secrets and from what MySQL says, which      *)
(* calls it makes; the calls are then made one by one, and the pass may be  *)
(* cut short (a failing call, a crash) before any of them.  Every MySQL     *)
(* call logs in as "operator" with the password of the internal secret.     *)
(***************************************************************************)
EXTENDS Naturals, Sequences

CONSTANTS
  UserNames,   \* the users handled, in the order of users.UserNames
  Passwords,   \* what the user may write into the secret
  Generated,   \* what generatePass returns
  Weak,        \* a password that MySQL, or validatePasswords, refuses
  None,        \* no password, no entry
  Confs,       \* the clusters considered: MySQL with dual passwords or not, kind of
               \* proxy, and (a bound) the users whose passwords are edited and
               \* the passwords they are given
  ProxyPods,   \* the number of ProxySQL pods
  MountPods,   \* the pods that mount the internal secret
  MaxEdits,    \* bound: edits of the users' secret
  MaxCuts      \* bound: passes cut short, and spells in which the cluster is not ready

Names == {UserNames[i] : i \in 1..Len(UserNames)}
SQLUsers == {"root", "operator", "monitor", "xtrabackup", "replication"}
PMMUsers == {"pmmserverkey", "pmmservertoken"}
Nobody == [u \in Names |-> None]

ASSUME UsersAssumption ==
  /\ UserNames \in Seq(SQLUsers \cup PMMUsers \cup {"proxyadmin"})
  /\ SQLUsers \cup {"proxyadmin"} \subseteq Names
  /\ None \notin Passwords \cup {Generated}
  /\ Confs \subseteq [dual : BOOLEAN, proxy : {"haproxy", "proxysql"},
                     edited : SUBSET Names, passwords : SUBSET Passwords]
  /\ ProxyPods \in Nat /\ MaxEdits \in Nat /\ MaxCuts \in Nat

VARIABLES
  conf,        \* [dual, proxy, edited, passwords]: never changes
  secrets,     \* the users' secret
  internal,    \* the internal secret; None for every user until it is created
  done,        \* its annotations: one-off changes of accounts already recorded
  account,     \* MySQL: the current and the retained password of each user
  granted,     \* MySQL: the one-off changes that were made
  proxy,       \* ProxySQL pod -> the credentials it runs with
  initFile,    \* user -> the password the mysql-init secret sets last
  mount,       \* pod -> the monitor's password in the mounted internal secret
  applied,     \* StatefulSet -> the passwords its pods were last started with
  up,          \* MySQL was bootstrapped
  health,      \* what updateStatus would compute for the cluster
  status,      \* cr.Status.Status, "invalid" for an error about a weak password
  desired,     \* the pass: the users' secret as it was read
  user,        \* the pass: the user being handled, 0 when there is no pass
  calls,       \* the pass: what the handler of this user has still to call
  restart,     \* the pass: the StatefulSets to restart (userUpdateActions)
  resync,      \* the ProxySQL pod the resync goroutine is at, 0 when it is free
  edits, cuts, \* counters of the bounds
  lapses,      \* passes in a row cut between changing the operator's password
               \* in MySQL and recording it in the internal secret
  happened     \* what went wrong so far

pass == <<desired, user, calls, restart>>
history == <<edits, cuts, lapses, happened>>
world == <<conf, secrets, internal, done, account, granted, proxy, initFile, mount, applied, up, health, status, resync>>
vars == <<world, pass, history>>

StatefulSets == {"pxc", conf.proxy}

\* One-off changes of a user's account, each recorded by an annotation of the
\* internal secret: the expiration policy and the grants added by a release.
Chores == [u \in Names |->
             CASE u = "monitor" -> {"expire", "grant160", "grant1100"}
               [] u = "xtrabackup" -> {"expire", "grant1150"}
               [] u \in {"root", "operator", "replication", "proxyadmin"} -> {"expire"}
               [] OTHER -> {}]
ChoreNames == {"expire", "grant160", "grant1100", "grant1150"}
AllChores == {<<u, c>> : u \in Names, c \in ChoreNames}

Accepted(u) == {account[u].cur, account[u].old} \ {None}

\* getUserManager logs in as the operator, with the internal secret's password.
Connects == health # "down" /\ internal["operator"] \in Accepted("operator")

Pending(u, c) == IF <<u, c>> \in done THEN <<>> ELSE <<c>>

\* cr.Status.Status != ready && !invalidPasswordApplied(cr.Status)
Waits == status \notin {"ready", "invalid"}
PodsReady == status # "down"

Init ==
  /\ conf \in Confs
  /\ secrets \in {Nobody, [Nobody EXCEPT !["root"] = Generated]}
  /\ internal = Nobody /\ done = {} /\ granted = {}
  /\ account = [u \in SQLUsers |-> [cur |-> None, old |-> None]]
  /\ proxy = [i \in 1..ProxyPods |-> [admin |-> None, monitor |-> None, root |-> None]]
  /\ initFile = [u \in SQLUsers |-> None]
  /\ mount = [p \in MountPods |-> None]
  /\ applied = [s \in StatefulSets |-> Nobody]
  /\ up = FALSE /\ health = "down" /\ status = "down"
  /\ desired = Nobody /\ user = 0 /\ calls = <<>> /\ restart = {}
  /\ resync = 0 /\ edits = 0 /\ cuts = 0 /\ lapses = 0 /\ happened = {}

(***************************************************************************)
(* How a pass ends.                                                        *)
(***************************************************************************)
NoPass == desired' = Nobody /\ user' = 0 /\ calls' = <<>> /\ restart' = {}

\* Restarts that were asked for are forgotten.
Forgets == IF restart = {} THEN {} ELSE {"forgotten"}

\* The deferred updateStatus writes an error only over a status that is none.
EndWithError(invalid) ==
  /\ NoPass /\ happened' = happened \cup Forgets
  /\ status' = IF status \in {"error", "invalid"} THEN status
               ELSE IF invalid THEN "invalid" ELSE "error"

\* A mutant: the status is written after an error only.
EndWithoutErrorSilent == NoPass /\ UNCHANGED status

EndWithoutError == NoPass /\ status' = health

(***************************************************************************)
(* reconcileUsersSecret and the beginning of reconcileUsers.               *)
(***************************************************************************)
SetUserSecretDefaults(s) ==
  [u \in Names |-> IF s[u] = None /\ u \notin PMMUsers THEN Generated ELSE s[u]]

ValidatePasswords(s) == s["proxyadmin"] # Weak

ReconcileUsersSecret ==
  /\ user = 0
  /\ IF ValidatePasswords(secrets)
     THEN /\ secrets' = SetUserSecretDefaults(secrets)
          /\ desired' = secrets' /\ user' = 1 /\ UNCHANGED <<calls, restart, status, happened>>
     ELSE UNCHANGED secrets /\ EndWithError(FALSE)
  /\ UNCHANGED <<conf, internal, done, account, granted, proxy, initFile, mount, applied, up, health, resync, edits, cuts, lapses>>

\* Without an internal secret, the users' secret is copied to it and the users
\* are left for a later pass, as they are while MySQL's version is not known.
CreateInternalSecret ==
  /\ user = 1 /\ calls = <<>> /\ internal = Nobody
  /\ internal' = desired /\ EndWithoutError
  /\ UNCHANGED <<conf, secrets, done, account, granted, proxy, initFile, mount, applied, up, health, resync, history>>

VersionNotReady ==
  /\ user = 1 /\ calls = <<>> /\ internal # Nobody /\ ~up
  /\ EndWithoutError
  /\ UNCHANGED <<conf, secrets, internal, done, account, granted, proxy, initFile, mount, applied, up, health, resync, history>>

(***************************************************************************)
(* The handlers: the calls that a handler makes in the state it finds.     *)
(* First for MySQL with dual passwords.                                    *)
(***************************************************************************)
Same(u) == desired[u] = internal[u]
Discarded(u) == account[u].old = None
Expire(u) == Pending(u, "expire")

\* A rotation: MySQL, the init file, what else must know the new password, the
\* internal secret, and then MySQL may forget the old one.
RotateRootUser == <<"alter", "initFile", "syncUsers", "patch", "discard">>
RotateOperatorUser == <<"alter", "initFile", "patch", "discard">>
RotateMonitorUser == <<"alter", "initFile", "updateProxy", "patch", "isPassPropagated", "discard">>
\* A mutant of the next: the init file comes last.
RotateXtrabackupUserInitLast == <<"alter", "patch", "discard", "initFile">>
RotateXtrabackupUser == <<"alter", "initFile", "patch", "discard">>
RotateReplicationUser == <<"alter", "initFile", "patch", "discard">>
Rotate(u) ==
  CASE u = "root" -> RotateRootUser
    [] u = "operator" -> RotateOperatorUser
    [] u = "monitor" -> RotateMonitorUser
    [] u = "xtrabackup" -> RotateXtrabackupUser
    [] u = "replication" -> RotateReplicationUser

\* The end of a rotation that an earlier pass has left unfinished.
Finish(u) == IF u = "monitor" THEN <<"isPassPropagated", "discard">> ELSE <<"discard">>

Changed(u, rotate) == IF Same(u) THEN <<>> ELSE rotate

HandleRootUser == IF Waits THEN <<>> ELSE Expire("root") \o <<"isOldPasswordDiscarded">>

\* manageOperatorAdminUser finds the operator in both secrets, since
\* setUserSecretDefaults has put it there, and changes nothing.
HandleOperatorUser ==
  (IF PodsReady THEN Expire("operator") ELSE <<>>) \o
  (IF Waits THEN <<>> ELSE <<"isOldPasswordDiscarded">>)

HandleMonitorUser ==
  (IF PodsReady
   THEN Expire("monitor") \o Pending("monitor", "grant160") \o Pending("monitor", "grant1100")
   ELSE <<>>) \o
  (IF Waits THEN <<>> ELSE <<"isOldPasswordDiscarded">>)

HandleXtrabackupUser ==
  (IF PodsReady THEN Expire("xtrabackup") \o Pending("xtrabackup", "grant1150") ELSE <<>>) \o
  (IF Waits THEN <<>> ELSE <<"isOldPasswordDiscarded">>)

HandleReplicationUser ==
  (IF PodsReady THEN Expire("replication") ELSE <<>>) \o
  (IF Waits THEN <<>> ELSE <<"isOldPasswordDiscarded">>)

HandleProxyadminUser ==
  IF conf.proxy # "proxysql" \/ Same("proxyadmin") \/ Waits THEN <<>>
  ELSE Expire("proxyadmin") \o <<"updateProxy", "patch">>

\* A key that the internal secret lacks is added at once, and nothing is
\* restarted for it.
HandlePMMUser(u) ==
  IF desired[u] = None THEN <<>>
  ELSE IF internal[u] = None THEN <<"add">>
  ELSE IF Same(u) \/ Waits THEN <<>> ELSE <<"patch">>

HandlePMM3User(u) ==
  IF desired[u] = None THEN <<>>
  ELSE IF internal[u] = None THEN <<"add">>
  ELSE IF Same(u) \/ Waits THEN <<>> ELSE <<"patch">>

UpdateUsers(u) ==
  CASE u = "root" -> HandleRootUser
    [] u = "operator" -> HandleOperatorUser
    [] u = "monitor" -> HandleMonitorUser
    [] u = "xtrabackup" -> HandleXtrabackupUser
    [] u = "replication" -> HandleReplicationUser
    [] u = "proxyadmin" -> HandleProxyadminUser
    [] u = "pmmserverkey" -> HandlePMMUser(u)
    [] u = "pmmservertoken" -> HandlePMM3User(u)

(***************************************************************************)
(* The handlers for a MySQL without dual passwords.                        *)
(***************************************************************************)
HandleRootUserWithoutDP ==
  IF Waits THEN <<>>
  ELSE Expire("root") \o Changed("root", <<"alter", "initFile", "syncUsers", "patch">>)

HandleOperatorUserWithoutDP ==
  (IF PodsReady THEN Expire("operator") ELSE <<>>) \o
  IF Waits THEN <<>> ELSE Changed("operator", <<"alter", "initFile", "patch">>)

\* SYSTEM_USER exists since MySQL 8.0.16 only.
HandleMonitorUserWithoutDP ==
  (IF PodsReady THEN Expire("monitor") \o Pending("monitor", "grant160") ELSE <<>>) \o
  IF Waits THEN <<>> ELSE Changed("monitor", <<"alter", "initFile", "updateProxy", "patch">>)

HandleXtrabackupUserWithoutDP ==
  (IF PodsReady THEN Expire("xtrabackup") \o Pending("xtrabackup", "grant1150") ELSE <<>>) \o
  IF Waits THEN <<>> ELSE Changed("xtrabackup", <<"alter", "initFile", "patch">>)

HandleReplicationUserWithoutDP ==
  IF Waits THEN <<>>
  ELSE Expire("replication") \o Changed("replication", <<"alter", "initFile", "patch">>)

HandleProxyadminUserWithoutDP ==
  IF conf.proxy # "proxysql" \/ Same("proxyadmin") \/ Waits THEN <<>>
  ELSE Expire("proxyadmin") \o <<"updateProxy", "patch">>

UpdateUsersWithoutDP(u) ==
  CASE u = "root" -> HandleRootUserWithoutDP
    [] u = "operator" -> HandleOperatorUserWithoutDP
    [] u = "monitor" -> HandleMonitorUserWithoutDP
    [] u = "xtrabackup" -> HandleXtrabackupUserWithoutDP
    [] u = "replication" -> HandleReplicationUserWithoutDP
    [] u = "proxyadmin" -> HandleProxyadminUserWithoutDP
    [] u = "pmmserverkey" -> HandlePMMUser(u)
    [] u = "pmmservertoken" -> HandlePMM3User(u)

\* What the handlers ask to be restarted, when PMM is enabled.
Restarts(u) ==
  CASE u = "operator" -> {"proxysql"}
    [] u = "monitor" -> {"proxysql", "pxc"} \cup (IF conf.dual THEN {} ELSE {"haproxy"})
    [] u = "xtrabackup" -> {"pxc"}
    [] u = "proxyadmin" -> {"proxysql"}
    [] u \in PMMUsers -> {"pxc", "proxysql", "haproxy"}
    [] OTHER -> {}

(***************************************************************************)
(* A pass over the users: choose the calls of the next user, make them.    *)
(***************************************************************************)
Current == UserNames[user]
SQLCalls == {"isOldPasswordDiscarded", "expire", "grant160", "grant1100", "grant1150", "alter", "discard"}
InUsers == user \in 1..Len(UserNames) /\ up /\ internal # Nobody
Calling(c) == InUsers /\ calls # <<>> /\ Head(calls) = c
NeedsConnection == InUsers /\ calls # <<>> /\ Head(calls) \in SQLCalls /\ Current \in SQLUsers

\* After the last call of a handler, the next user.
Return(rest) == calls' = rest /\ user' = IF rest = <<>> THEN user + 1 ELSE user

Handle ==
  /\ InUsers /\ calls = <<>>
  /\ Return(IF conf.dual THEN UpdateUsers(Current) ELSE UpdateUsersWithoutDP(Current))
  /\ UNCHANGED <<world, desired, restart, history>>

ConnectionRefused ==
  /\ NeedsConnection /\ ~Connects
  /\ EndWithError(FALSE)
  /\ UNCHANGED <<conf, secrets, internal, done, account, granted, proxy, initFile, mount, applied, up, health, resync, edits, cuts, lapses>>

\* Nothing to do, the end of an earlier rotation, or a rotation.
IsOldPasswordDiscarded ==
  /\ Calling("isOldPasswordDiscarded") /\ Connects
  /\ Return(IF ~Same(Current) THEN Rotate(Current)
            ELSE IF Discarded(Current) THEN <<>> ELSE Finish(Current))
  /\ UNCHANGED <<world, desired, restart, history>>

\* The change is made in MySQL, then recorded.
Chore(c) ==
  /\ Calling(c) /\ (Current \in SQLUsers => Connects)
  /\ granted' = granted \cup {<<Current, c>>}
  /\ done' = done \cup {<<Current, c>>}
  /\ Return(Tail(calls))
  /\ UNCHANGED <<conf, secrets, internal, account, proxy, initFile, mount, applied, up, health, status, resync, desired, restart, history>>

\* A mutant: the old password is not retained.
UpdateUserPassForgets(a, p) == [cur |-> p, old |-> None]

\* ALTER USER ... RETAIN CURRENT PASSWORD: what was current is now retained, and
\* what was retained is lost, also when the password does not change.
UpdateUserPass(a, p) == [cur |-> p, old |-> a.cur]
UpdateUserPassWithoutDP(a, p) == [a EXCEPT !.cur = p]

Alter ==
  /\ Calling("alter") /\ Connects
  /\ IF desired[Current] = Weak
     THEN EndWithError(TRUE) /\ UNCHANGED account
     ELSE /\ account' = [account EXCEPT ![Current] =
                           IF conf.dual THEN UpdateUserPass(@, desired[Current])
                           ELSE UpdateUserPassWithoutDP(@, desired[Current])]
          /\ Return(Tail(calls))
          /\ UNCHANGED <<status, desired, restart, happened>>
  /\ UNCHANGED <<conf, secrets, internal, done, granted, proxy, initFile, mount, applied, up, health, resync, edits, cuts, lapses>>

UpdateMySQLInitFile ==
  /\ Calling("initFile")
  /\ initFile' = [initFile EXCEPT ![Current] = desired[Current]]
  /\ Return(Tail(calls))
  /\ UNCHANGED <<conf, secrets, internal, done, account, granted, proxy, mount, applied, up, health, status, resync, desired, restart, history>>

(***************************************************************************)
(* A pass cut short: by a failing call, whose error reaches the status, or *)
(* by a crash of the operator.                                             *)
(***************************************************************************)
Altered == Current = "operator" /\ ~Same("operator") /\ account["operator"].cur = desired["operator"]

Cut(torn) ==
  /\ cuts < MaxCuts /\ cuts' = cuts + 1
  /\ NoPass
  /\ happened' = happened \cup {"cut"} \cup Forgets \cup (IF torn THEN {"torn"} ELSE {})
  /\ lapses' = IF InUsers /\ Altered /\ calls # <<>> /\ Head(calls) \in {"initFile", "patch"} THEN lapses + 1 ELSE lapses
  /\ \/ status' = (IF status = "invalid" THEN status ELSE "error") /\ UNCHANGED resync
     \/ resync' = 0 /\ UNCHANGED status
  /\ UNCHANGED edits

CutShort ==
  /\ user # 0
  /\ Cut(InUsers /\ calls = <<"patch">> /\ Current = "proxyadmin")
  /\ UNCHANGED <<conf, secrets, internal, done, account, granted, proxy, initFile, mount, applied, up, health>>

\* Cut between a one-off change of an account and its annotation.
ChoreCutShort(c) ==
  /\ Calling(c) /\ (Current \in SQLUsers => Connects)
  /\ granted' = granted \cup {<<Current, c>>}
  /\ Cut(FALSE)
  /\ UNCHANGED <<conf, secrets, internal, done, account, proxy, initFile, mount, applied, up, health>>

(***************************************************************************)
(* The calls that visit the ProxySQL pods one after the other: the first j *)
(* pods are done when the loop ends or is cut short.                       *)
(***************************************************************************)
Proxies == IF conf.proxy = "proxysql" THEN ProxyPods ELSE 0

Credentials(field, p, j) ==
  [i \in 1..ProxyPods |-> IF i <= j THEN [proxy[i] EXCEPT ![field] = p] ELSE proxy[i]]

\* Each pod is logged in to as proxyadmin with the internal secret's password.
Admits(i) == proxy[i].admin = internal["proxyadmin"]
ProxyField == IF Current = "monitor" THEN "monitor" ELSE "admin"

UpdateProxyUser ==
  /\ Calling("updateProxy")
  /\ \E j \in 0..Proxies :
       /\ \A i \in 1..j : Admits(i)
       /\ proxy' = Credentials(ProxyField, desired[Current], j)
       /\ \/ j = Proxies /\ Return(Tail(calls)) /\ UNCHANGED <<status, resync, desired, restart, history>>
          \/ j < Proxies /\ ~Admits(j + 1) /\ EndWithError(FALSE) /\ UNCHANGED <<resync, edits, cuts, lapses>>
          \/ 0 < j /\ j < Proxies /\ Cut(Current = "proxyadmin")
  /\ UNCHANGED <<conf, secrets, internal, done, account, granted, initFile, mount, applied, up, health>>

\* proxysql-admin --syncusers copies MySQL's users; not called until both the
\* cluster and ProxySQL are ready.
SyncPXCUsersWithProxySQL ==
  /\ Calling("syncUsers")
  /\ LET n == IF status = "ready" THEN Proxies ELSE 0 IN
     \E j \in 0..n :
       /\ proxy' = Credentials("root", account["root"].cur, j)
       /\ \/ j = n /\ Return(Tail(calls)) /\ UNCHANGED <<status, resync, desired, restart, history>>
          \/ 0 < j /\ j < n /\ Cut(FALSE)
  /\ UNCHANGED <<conf, secrets, internal, done, account, granted, initFile, mount, applied, up, health>>

Patch ==
  /\ Calling("patch")
  /\ internal' = [internal EXCEPT ![Current] = desired[Current]]
  /\ restart' = restart \cup Restarts(Current)
  /\ lapses' = IF Current = "operator" THEN 0 ELSE lapses
  /\ Return(Tail(calls))
  /\ UNCHANGED <<conf, secrets, done, account, granted, proxy, initFile, mount, applied, up, health, status, resync, desired, edits, cuts, happened>>

AddKey ==
  /\ Calling("add")
  /\ internal' = [internal EXCEPT ![Current] = desired[Current]]
  /\ Return(Tail(calls))
  /\ UNCHANGED <<conf, secrets, done, account, granted, proxy, initFile, mount, applied, up, health, status, resync, desired, restart, history>>

\* A mutant: one pod that has the new password is enough.
IsPassPropagatedSomewhere ==
  /\ Calling("isPassPropagated")
  /\ IF \E p \in MountPods : mount[p] = desired["monitor"]
     THEN Return(Tail(calls)) /\ restart' = restart \cup Restarts("monitor")
     ELSE Return(<<>>) /\ UNCHANGED restart
  /\ UNCHANGED <<world, desired, history>>

\* A password that has not reached every pod: the old one is kept, and the
\* other users are handled meanwhile (PassNotPropagatedError).
IsPassPropagated ==
  /\ Calling("isPassPropagated")
  /\ IF \A p \in MountPods : mount[p] = desired["monitor"]
     THEN Return(Tail(calls)) /\ restart' = restart \cup Restarts("monitor")
     ELSE Return(<<>>) /\ UNCHANGED restart
  /\ UNCHANGED <<world, desired, history>>

DiscardOldPassword ==
  /\ Calling("discard") /\ Connects
  /\ account' = [account EXCEPT ![Current].old = None]
  /\ Return(Tail(calls))
  /\ UNCHANGED <<conf, secrets, internal, done, granted, proxy, initFile, mount, applied, up, health, status, resync, desired, restart, history>>

\* resyncPXCUsersWithProxySQL: a goroutine, one at a time, started by a pass;
\* one that finds nothing to copy is left out.
ResyncPXCUsers ==
  /\ user = Len(UserNames) + 1
  /\ user' = user + 1
  /\ resync' = IF resync = 0 /\ status = "ready" /\ (\E i \in 1..Proxies : proxy[i].root # account["root"].cur)
               THEN 1 ELSE resync
  /\ UNCHANGED <<conf, secrets, internal, done, account, granted, proxy, initFile, mount, applied, up, health, status, desired, calls, restart, history>>

\* The rest of the pass, as far as it concerns the users: updatePod writes the
\* annotation "last-applied-secret" to the StatefulSets that are to be
\* restarted, PXC first.
Deploy ==
  /\ user = Len(UserNames) + 2
  /\ \E last \in {1, 2} :
       LET reached == {"pxc"} \cup (IF last = 2 THEN {conf.proxy} ELSE {}) IN
       /\ applied' = [s \in StatefulSets |-> IF s \in reached \cap restart THEN desired ELSE applied[s]]
       /\ \/ last = 2 /\ EndWithoutError /\ UNCHANGED <<resync, history>>
          \/ last = 1 /\ Cut(FALSE)
  /\ UNCHANGED <<conf, secrets, internal, done, account, granted, proxy, initFile, mount, up, health>>

ResyncPod ==
  /\ resync # 0
  /\ proxy' = [proxy EXCEPT ![resync].root = account["root"].cur]
  /\ resync' = (resync + 1) % (Proxies + 1)
  /\ UNCHANGED <<conf, secrets, internal, done, account, granted, initFile, mount, applied, up, health, status, pass, history>>

(***************************************************************************)
(* What surrounds the operator.                                            *)
(***************************************************************************)
\* The first pods create the accounts from the internal secret they mount.
Bootstrap ==
  /\ ~up /\ internal # Nobody
  /\ up' = TRUE /\ health' = "ready"
  /\ account' = [u \in SQLUsers |-> [cur |-> internal[u], old |-> None]]
  /\ proxy' = [i \in 1..ProxyPods |-> [admin |-> internal["proxyadmin"], monitor |-> internal["monitor"], root |-> internal["root"]]]
  /\ mount' = [p \in MountPods |-> internal["monitor"]]
  /\ applied' = [s \in StatefulSets |-> internal]
  /\ UNCHANGED <<conf, secrets, internal, done, granted, initFile, status, resync, pass, history>>

\* The kubelet refreshes the files of a mounted secret some time later.  Nothing
\* looks at them when there are no dual passwords.
RefreshMount(p) ==
  /\ up /\ conf.dual /\ mount[p] # internal["monitor"]
  /\ mount' = [mount EXCEPT ![p] = internal["monitor"]]
  /\ UNCHANGED <<conf, secrets, internal, done, account, granted, proxy, initFile, applied, up, health, status, resync, pass, history>>

\* A backup that succeeds removes the mysql-init secret.
RemoveInitFile ==
  /\ \E u \in SQLUsers : initFile[u] # None
  /\ initFile' = [u \in SQLUsers |-> None]
  /\ UNCHANGED <<conf, secrets, internal, done, account, granted, proxy, mount, applied, up, health, status, resync, pass, history>>

Unfinished(u) ==
  \/ secrets[u] # internal[u]
  \/ u \in SQLUsers /\ account[u].old # None
  \/ u = "monitor" /\ conf.dual /\ \E p \in MountPods : mount[p] # internal[u]

EditSecret(u, p) ==
  /\ up /\ edits < MaxEdits /\ p # secrets[u] /\ (u \in PMMUsers => p # Weak)
  /\ secrets' = [secrets EXCEPT ![u] = p]
  /\ edits' = edits + 1
  /\ happened' = happened \cup (IF Unfinished(u) THEN {"hurry"} ELSE {})
                          \cup (IF p = internal[u] THEN {"back"} ELSE {})
  /\ UNCHANGED <<conf, internal, done, account, granted, proxy, initFile, mount, applied, up, health, status, resync, pass, cuts, lapses>>

HealthChanges ==
  /\ health = "ready" /\ cuts < MaxCuts
  /\ health' \in {"init", "down"}
  /\ cuts' = cuts + 1
  /\ UNCHANGED <<conf, secrets, internal, done, account, granted, proxy, initFile, mount, applied, up, status, resync, pass, edits, lapses, happened>>

Recovers ==
  /\ up /\ health # "ready"
  /\ health' = "ready"
  /\ UNCHANGED <<conf, secrets, internal, done, account, granted, proxy, initFile, mount, applied, up, status, resync, pass, history>>

Reconcile ==
  \/ ReconcileUsersSecret \/ CreateInternalSecret \/ VersionNotReady
  \/ Handle \/ ConnectionRefused
  \/ \E c \in ChoreNames : Chore(c)
  \/ IsOldPasswordDiscarded \/ Alter \/ UpdateMySQLInitFile \/ UpdateProxyUser \/ SyncPXCUsersWithProxySQL
  \/ Patch \/ AddKey \/ IsPassPropagated \/ DiscardOldPassword \/ ResyncPXCUsers \/ Deploy

Next ==
  \/ Reconcile \/ ResyncPod
  \/ CutShort
  \/ \E c \in ChoreNames : ChoreCutShort(c)
  \/ Bootstrap \/ \E p \in MountPods : RefreshMount(p)
  \/ RemoveInitFile
  \/ \E u \in conf.edited, p \in conf.passwords : EditSecret(u, p)
  \/ HealthChanges \/ Recovers

Spec == Init /\ [][Next]_vars

\* The work queue repeats the passes; the kubelet and the pods go on.
Fairness ==
  /\ WF_vars(Reconcile) /\ WF_vars(ResyncPod)
  /\ WF_vars(Bootstrap) /\ WF_vars(Recovers)
  /\ \A p \in MountPods : WF_vars(RefreshMount(p))

FairSpec == Spec /\ Fairness

(***************************************************************************)
(* Properties.                                                             *)
(***************************************************************************)
PasswordOrNone == Passwords \cup {Generated, None}

TypeOK ==
  /\ conf \in Confs
  /\ secrets \in [Names -> PasswordOrNone] /\ internal \in [Names -> PasswordOrNone \ {Weak}]
  /\ account \in [SQLUsers -> [cur : PasswordOrNone \ {Weak}, old : PasswordOrNone \ {Weak}]]
  /\ done \subseteq granted /\ granted \subseteq AllChores
  /\ status \in {"down", "init", "ready", "error", "invalid"}
  /\ user \in 0..(Len(UserNames) + 2) /\ restart \subseteq {"pxc", "proxysql", "haproxy"}
  /\ resync \in 0..ProxyPods

\* The operator never finds itself refused by MySQL while MySQL answers: the
\* password of the internal secret, with which every call of users.go logs in,
\* is accepted at every login.  With dual passwords it takes two passes in a row
\* cut between the ALTER USER and the patch of the internal secret, or one and a
\* second edit of the secret, to lose it; without dual passwords it takes one.
OperatorConnects ==
  NeedsConnection /\ health # "down" /\ ~Connects =>
    lapses > (IF conf.dual /\ "hurry" \notin happened THEN 1 ELSE 0)

\* What dual passwords are for (handleMonitorUser): as long as no pass is cut
\* short and no password is edited before the last edit has gone through, the
\* password that a pod still mounts is accepted by MySQL.
MountedPasswordAccepted ==
  up /\ conf.dual /\ happened \cap {"cut", "hurry"} = {} =>
    \A p \in MountPods : mount[p] \in Accepted("monitor")

\* A node that starts now and runs the statements of mysql-init accepts the
\* passwords of the internal secret: the statement for a new password is there
\* before the internal secret names it, and the old one is retained until then.
\* So it is as long as no pass is cut short, however fast the secret is edited.
NodeStartAccepts ==
  up /\ conf.dual /\ "cut" \notin happened =>
    \A u \in SQLUsers :
      internal[u] \in {IF initFile[u] = None THEN account[u].cur ELSE initFile[u], account[u].old}

\* A password that is refused, a torn proxyadmin, an operator that lost its
\* login: the rotation waits for somebody.  So it may when a pass is cut after
\* MySQL took a new password and the secret is set back to the old one, which
\* the internal secret still names: no handler sees a change.
Stuck ==
  \/ "torn" \in happened \/ {"back", "cut"} \subseteq happened
  \/ lapses > (IF conf.dual /\ "hurry" \notin happened THEN 1 ELSE 0)
  \/ \E u \in Names : secrets[u] = Weak

Agree ==
  /\ internal = secrets
  /\ \A u \in SQLUsers : account[u] = [cur |-> secrets[u], old |-> None]
  /\ \A i \in 1..Proxies :
       proxy[i] = [admin |-> secrets["proxyadmin"], monitor |-> secrets["monitor"], root |-> secrets["root"]]
  /\ \A u \in SQLUsers : \A c \in Chores[u] : <<u, c>> \in granted \/ (c = "grant1100" /\ ~conf.dual)

\* The users whose passwords the pods of a StatefulSet take from the environment
\* or read when they start.
ReadAtStart(s) ==
  PMMUsers \cup
  (CASE s = "pxc" -> {"xtrabackup", "monitor"}
     [] s = "proxysql" -> {"operator", "monitor", "proxyadmin"}
     [] s = "haproxy" -> IF conf.dual THEN {} ELSE {"monitor"})

\* A pass that was to restart pods may end early, and the next one no longer
\* knows of them (the TODO in Reconcile).  A key added for PMM restarts nothing.
Restarted ==
  "forgotten" \in happened \/
  \A s \in StatefulSets : \A u \in ReadAtStart(s) : applied[s][u] \in {secrets[u], None}

\* Every rotation ends, however many users are changed at once and wherever
\* passes are cut short: in the end MySQL, ProxySQL and the internal secret have
\* the passwords of the users' secret, no old password is retained, the one-off
\* changes of the accounts were made, and the pods that read a password when
\* they start were restarted after it changed.
RotationEnds == <>[](Stuck \/ (Agree /\ Restarted))
=============================================================================
