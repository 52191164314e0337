----------------------------- MODULE CustomUsers -----------------------------
(***************************************************************************)
(* The users of spec.users: reconcileCustomUsers                           *)
(* (pkg/controller/pxc/users_custom.go), a step of every pass once the     *)
(* cluster is ready.  For each user it compares the password of the secret *)
(* with the hash in the secret's annotation, and the accounts of the       *)
(* database with what the CR asks for, and sends statements one by one.    *)
(*                                                                         *)
(* An account is a user at a host.  Passwords are numbers, 0 is none;      *)
(* annotations hold the password they are the hash of.                     *)
(***************************************************************************)
EXTENDS Naturals, FiniteSets

CONSTANTS Customers,   \* the users of spec.users, processed in the order 1, 2, ...
          HostCount,   \* hosts are 1..HostCount, in the order of the list
          MaxPassword, \* passwords are 1..MaxPassword
          MaxChangesC, \* edits of the CR and of the secrets
          MaxTrouble   \* statements and calls that fail, operator restarts

VARIABLES ask,      \* per user: the hosts asked for, and whether databases are named
          secret,   \* per user: its password in the secret, 0 when there is none
          own,      \* per user: is the secret the user's (passwordSecretRef)?
          note,     \* per user: the annotation of the secret
          account,  \* per user and host: password (0: no account), granted
          upc,      \* the pass
          who,      \* the user it is at
          um,       \* what it has read about that user
          changesC, trouble,
          spoiled   \* what has happened to a user that the pass does not repair

uvars == <<ask, secret, own, note, account, upc, who, um, changesC, trouble,
           spoiled>>

Hosts     == 1..HostCount
NoAccount == [pw |-> 0, granted |-> FALSE]
NoUM      == [pw |-> 0, alter |-> FALSE, upsert |-> FALSE]

CustomUsersTypeOK ==
    /\ ask \in [Customers -> [hosts : SUBSET Hosts \ {{}}, dbs : BOOLEAN]]
    /\ secret \in [Customers -> 0..MaxPassword] /\ note \in [Customers -> 0..MaxPassword]
    /\ account \in [Customers -> [Hosts -> [pw : 0..MaxPassword, granted : BOOLEAN]]]
    /\ upc \in {"idle", "read", "alter", "alterNote", "upsert", "upsertNote", "next"}
    /\ who \in Customers /\ um.pw \in 0..MaxPassword
    /\ spoiled \subseteq Customers \X {"missing", "usage", "readded", "reverted"}

CustomUsersInit ==
    /\ ask \in [Customers -> [hosts : {{1}}, dbs : BOOLEAN]]
    /\ own \in [Customers -> BOOLEAN]
    /\ secret = [u \in Customers |-> IF own[u] THEN 1 ELSE 0]
    /\ note = [u \in Customers |-> 0]
    /\ account = [u \in Customers |-> [h \in Hosts |-> NoAccount]]
    /\ upc = "idle" /\ who = 1 /\ um = NoUM
    /\ changesC = MaxChangesC /\ trouble = MaxTrouble /\ spoiled = {}

Exists(u)  == \E h \in Hosts : account[u][h].pw # 0

-----------------------------------------------------------------------------
\* The pass.

BeginUsers ==
    /\ upc = "idle" /\ upc' = "read" /\ who' = 1
    /\ UNCHANGED <<ask, secret, own, note, account, um, changesC, trouble, spoiled>>

\* userPasswordChanged.
userPasswordChanged(u, pw) == IF note[u] = 0 THEN Exists(u) ELSE note[u] # pw

\* userChanged: a host without its account, or a database without its grants.
\* An account that has no grant but USAGE is not seen when no database is named.
userChanged(u) ==
    \E h \in ask[u].hosts :
        \/ account[u][h].pw = 0
        \/ ask[u].dbs /\ ~account[u][h].granted

\* A password that is missing is made in the operator's secret; in the user's
\* own it is an error.
generateUserPass  == 1
getUserSecret(u)  == IF secret[u] = 0 THEN generateUserPass ELSE secret[u]
SecretMissing(u)  == secret[u] = 0 /\ own[u]

\* getUserSecret, GetUser and the two comparisons.  After an error the loop
\* goes on with the next user.
ReadUser ==
    /\ upc = "read"
    /\ IF SecretMissing(who)
       THEN upc' = "next" /\ UNCHANGED <<um, secret>>
       ELSE LET pw == getUserSecret(who)
            IN  /\ secret' = [secret EXCEPT ![who] = pw]
                /\ um' = [pw |-> pw, alter |-> userPasswordChanged(who, pw),
                          upsert |-> userChanged(who)]
                /\ upc' = "alter"
    /\ UNCHANGED <<ask, own, note, account, who, changesC, trouble, spoiled>>

\* ALTER USER, host by host, up to the first one that fails: a host without an
\* account fails always, and the accounts before it have the new password.
alterUserQuery ==
    /\ upc = "alter"
    /\ IF ~um.alter
       THEN upc' = "upsert" /\ UNCHANGED <<account, trouble, spoiled>>
       ELSE \E failing \in Hosts \union {HostCount + 1} :
              /\ \A h \in ask[who].hosts : h < failing => account[who][h].pw # 0
              /\ \/ failing = HostCount + 1 /\ UNCHANGED <<trouble, spoiled>>
                 \/ /\ failing \in ask[who].hosts /\ account[who][failing].pw = 0
                    /\ spoiled' = spoiled \union {<<who, "missing">>} /\ UNCHANGED trouble
                 \/ /\ failing \in ask[who].hosts /\ trouble > 0
                    /\ trouble' = trouble - 1 /\ UNCHANGED spoiled
              /\ account' = [account EXCEPT ![who] = [h \in Hosts |->
                   IF h \in ask[who].hosts /\ h < failing
                   THEN [account[who][h] EXCEPT !.pw = um.pw] ELSE account[who][h]]]
              /\ upc' = IF failing = HostCount + 1 THEN "alterNote" ELSE "next"
    /\ UNCHANGED <<ask, secret, own, note, who, um, changesC>>

\* AnnotateObject, with the password that was used.
Noted == um.pw

\* A failure here ends the pass.
AnnotateObject ==
    /\ upc \in {"alterNote", "upsertNote"}
    /\ \/ /\ note' = [note EXCEPT ![who] = Noted]
          /\ upc' = IF upc = "alterNote" THEN "upsert" ELSE "next"
          /\ UNCHANGED trouble
          /\ UNCHANGED <<who, um>>
       \/ /\ trouble > 0 /\ trouble' = trouble - 1 /\ UNCHANGED note
          /\ upc' = "idle" /\ who' = 1 /\ um' = NoUM
    /\ UNCHANGED <<ask, secret, own, account, changesC, spoiled>>

\* UpsertUser has executed the first "done" statements, two for a host: the
\* account is made, with um.pw unless it exists, and gets its grants.
UpsertUser(done) ==
    [account EXCEPT ![who] = [h \in Hosts |->
        IF h \notin ask[who].hosts \/ 2 * h - 1 > done THEN account[who][h]
        ELSE [pw |-> IF account[who][h].pw = 0 THEN um.pw ELSE account[who][h].pw,
              granted |-> account[who][h].granted \/ 2 * h <= done]]]

\* CREATE USER IF NOT EXISTS and GRANT, host by host.
upsertUserQuery ==
    /\ upc = "upsert"
    /\ IF ~um.upsert
       THEN upc' = "next" /\ UNCHANGED <<account, trouble, spoiled>>
       ELSE \E done \in 0..2 * HostCount :
              /\ done = 2 * HostCount \/ trouble > 0
              /\ trouble' = IF done = 2 * HostCount THEN trouble ELSE trouble - 1
              /\ account' = UpsertUser(done)
              /\ spoiled' = IF /\ ~ask[who].dbs
                               /\ \E h \in Hosts : account'[who][h].pw # 0 /\ ~account'[who][h].granted
                            THEN spoiled \union {<<who, "usage">>} ELSE spoiled
              /\ upc' = IF done = 2 * HostCount THEN "upsertNote" ELSE "next"
    /\ UNCHANGED <<ask, secret, own, note, who, um, changesC>>

NextUser ==
    /\ upc = "next" /\ um' = NoUM
    /\ IF who + 1 \in Customers THEN who' = who + 1 /\ upc' = "read"
                                ELSE who' = 1 /\ upc' = "idle"
    /\ UNCHANGED <<ask, secret, own, note, account, changesC, trouble, spoiled>>

RestartUsers ==
    /\ upc # "idle" /\ trouble > 0 /\ trouble' = trouble - 1
    /\ upc' = "idle" /\ um' = NoUM /\ who' = 1
    /\ UNCHANGED <<ask, secret, own, note, account, changesC, spoiled>>

-----------------------------------------------------------------------------
\* The user of the operator edits the secrets and the hosts of the CR, between
\* two passes for the CR (a pass works with the CR it has read).  The account
\* of a host that is taken out stays, with its password.
EditSecret(u) ==
    /\ changesC > 0 /\ changesC' = changesC - 1
    /\ secret' \in {[secret EXCEPT ![u] = p] : p \in (IF own[u] THEN 0 ELSE 1)..MaxPassword}
    /\ secret' # secret
    /\ spoiled' = IF secret'[u] = note[u] THEN spoiled \union {<<u, "reverted">>} ELSE spoiled
    /\ UNCHANGED <<ask, own, note, account, upc, who, um, trouble>>

EditHosts(u) ==
    /\ changesC > 0 /\ changesC' = changesC - 1 /\ upc = "idle"
    /\ \E hs \in SUBSET Hosts \ {{}, ask[u].hosts} :
         /\ ask' = [ask EXCEPT ![u].hosts = hs]
         /\ spoiled' = IF \E h \in hs \ ask[u].hosts : account[u][h].pw # 0
                       THEN spoiled \union {<<u, "readded">>} ELSE spoiled
    /\ UNCHANGED <<secret, own, note, account, upc, who, um, trouble>>

CustomUsersPass ==
    \/ BeginUsers \/ ReadUser \/ alterUserQuery \/ AnnotateObject
    \/ upsertUserQuery \/ NextUser
CustomUsersNext ==
    \/ CustomUsersPass \/ RestartUsers
    \/ \E u \in Customers : EditSecret(u) \/ EditHosts(u)
CustomUsersSpec == CustomUsersInit /\ [][CustomUsersNext]_uvars

-----------------------------------------------------------------------------

\* Every user with a password ends up with an account at each host, with this
\* password and the grants, whatever fails for this user or for the others.
\* The exceptions are a password that changed while an account was missing
\* (ALTER USER fails again in every pass) and a cut between CREATE USER and a
\* global GRANT, which userChanged does not see, and the two above.
CustomUsersSettled ==
    \A u \in Customers :
      secret[u] # 0 /\ {s \in spoiled : s[1] = u} = {} =>
        \A h \in ask[u].hosts : account[u][h] = [pw |-> secret[u], granted |-> TRUE]
CustomUsersSettle == <>[]CustomUsersSettled
=============================================================================
