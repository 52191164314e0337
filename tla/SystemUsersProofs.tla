-------------------------- MODULE SystemUsersProofs ---------------------------
(***************************************************************************)
(* The rotation of the system users' passwords (SystemUsers), for any      *)
(* passwords, users, pods, edits and cuts: the operator's own login, the   *)
(* password that a pod still mounts, and the accounts of a node that       *)
(* starts.  One inductive invariant, UsersInv, serves all three.  A step   *)
(* either ends the pass (Ends), moves it on without touching what the      *)
(* invariant is about (Moves), or is one of the few that change a secret,  *)
(* an account or a mount, which have a lemma each.                         *)
(***************************************************************************)
EXTENDS SystemUsers, TLAPS

\* The calls of a rotation up to the ALTER USER, from there to the record in the
\* internal secret, and after it.
Before  == ChoreNames \cup {"isOldPasswordDiscarded", "alter"}
Between == {"initFile", "syncUsers", "updateProxy", "patch"}
After   == {"isPassPropagated", "discard"}
CallNames == Before \cup Between \cup After \cup {"add"}

\* In what order a handler of u makes its calls.
Order(u, s) ==
  /\ \A i \in 1..Len(s) :
       /\ s[i] \in (IF u \in SQLUsers THEN Before \cup Between \cup After
                    ELSE IF u = "proxyadmin" THEN {"expire", "updateProxy", "patch"}
                    ELSE {"add", "patch"})
       /\ s[i] = "updateProxy" => u \in {"monitor", "proxyadmin"}
       /\ s[i] = "syncUsers" => u = "root"
       /\ s[i] \in {"alter", "initFile", "syncUsers", "updateProxy"} => i < Len(s)
       /\ i < Len(s) =>
            /\ s[i] \in ChoreNames \cup {"isOldPasswordDiscarded"} =>
                 s[i + 1] \in (IF u \in SQLUsers THEN Before ELSE {"updateProxy"})
            /\ s[i] = "alter" => s[i + 1] = "initFile"
            /\ s[i] = "initFile" => s[i + 1] \in Between \ {"initFile"}
            /\ s[i] \in {"syncUsers", "updateProxy"} => s[i + 1] = "patch"
            /\ s[i] \in {"patch"} \cup After => s[i + 1] \in After
            /\ u = "monitor" /\ s[i + 1] = "discard" => s[i] = "isPassPropagated"
  /\ \A i, j \in 1..Len(s) : i < j /\ s[i] = "patch" => s[j] # "patch"

\* The calls s still record the password in the internal secret.
Patches(s) == \E i \in 1..Len(s) : s[i] = "patch"

\* MySQL has u's new password and the internal secret has not.
Mid(u) == calls # <<>> /\ Current = u /\ Head(calls) \in Between
\* The same of ProxySQL's admin.
AdminMid == calls # <<>> /\ Current = "proxyadmin" /\ Head(calls) = "patch"

\* The types; the lists of calls hold names of calls.
UsersTypes ==
  /\ conf \in Confs
  /\ secrets \in [Names -> PasswordOrNone] /\ internal \in [Names -> PasswordOrNone]
  /\ account \in [SQLUsers -> [cur : PasswordOrNone, old : PasswordOrNone]]
  /\ proxy \in [1..ProxyPods -> [admin : PasswordOrNone, monitor : PasswordOrNone,
       root : PasswordOrNone]]
  /\ initFile \in [SQLUsers -> PasswordOrNone]
  /\ mount \in [MountPods -> PasswordOrNone]
  /\ up \in BOOLEAN /\ desired \in [Names -> PasswordOrNone]
  /\ user \in 0..(Len(UserNames) + 2) /\ calls \in Seq(CallNames)
  /\ lapses \in Nat

\* No password of a system user is missing.
Filled ==
  /\ up => internal # Nobody
  /\ user # 0 => \A u \in Names \ PMMUsers : desired[u] # None
  /\ user # 0 \/ internal # Nobody => \A u \in Names \ PMMUsers : secrets[u] # None
  /\ internal # Nobody => \A u \in Names \ PMMUsers : internal[u] # None
  /\ ~up => calls = <<>> /\ lapses = 0 /\ \A u \in SQLUsers : initFile[u] = None

\* A handler changes a password only when the secrets differ, and finishes a
\* rotation only when they agree.
CallsFit ==
  calls # <<>> =>
    /\ user \in 1..Len(UserNames) /\ Order(Current, calls)
    /\ Current = "proxyadmin" => conf.proxy = "proxysql"
    /\ Current \in SQLUsers =>
         /\ Patches(calls) => ~Same(Current)
         /\ Head(calls) \in After => Same(Current)

\* An edit behind the back of a pass concerns a user that was done with.
Reads ==
  "hurry" \notin happened /\ user # 0 =>
    \A u \in Names : desired[u] \in {secrets[u], internal[u]}

\* The operator's login, by the number of passes that were cut in its rotation.
LoginKept ==
  up =>
    /\ Mid("operator") => account["operator"].cur = desired["operator"]
    /\ lapses = 0 =>
         IF Mid("operator") THEN conf.dual => account["operator"].old = internal["operator"]
         ELSE account["operator"].cur = internal["operator"]
    /\ lapses = 1 /\ conf.dual /\ "hurry" \notin happened =>
         /\ secrets["operator"] # internal["operator"]
         /\ user # 0 => desired["operator"] # internal["operator"]
         /\ ~Mid("operator") => account["operator"].old = internal["operator"]

\* Without a cut, MySQL has the password of the internal secret, or retains it.
Retained ==
  up /\ conf.dual /\ "cut" \notin happened =>
    \A u \in SQLUsers :
      IF Mid(u)
      THEN /\ account[u].cur = desired[u] /\ account[u].old = internal[u]
           /\ initFile[u] \in
                {None, IF Head(calls) = "initFile" THEN internal[u] ELSE desired[u]}
      ELSE account[u].cur = internal[u] /\ initFile[u] \in {None, internal[u]}

\* Without a cut, ProxySQL admits the operator.
Admitted ==
  up /\ "cut" \notin happened =>
    \A i \in 1..ProxyPods :
      proxy[i].admin =
        IF AdminMid THEN desired["proxyadmin"] ELSE internal["proxyadmin"]

\* A pod that mounts another password than that of the internal secret mounts
\* the one that MySQL retains, and no edit is waiting.
Mounted ==
  up /\ conf.dual /\ happened \cap {"cut", "hurry"} = {} =>
    \A p \in MountPods :
      \/ mount[p] = internal["monitor"]
      \/ /\ mount[p] = account["monitor"].old /\ mount[p] # None
         /\ secrets["monitor"] = internal["monitor"] /\ ~Mid("monitor")
         /\ ~(calls # <<>> /\ Current = "monitor" /\ Head(calls) = "discard")

\* The inductive invariant.
UsersInv ==
  /\ UsersTypes /\ Filled /\ CallsFit /\ Reads
  /\ LoginKept /\ Retained /\ Admitted /\ Mounted

\* Patch, or a call after it, is the last one of its kind; every call keeps its
\* place when the first one has been made.
LEMMA TailOrder ==
    ASSUME NEW u, NEW s \in Seq(CallNames), s # <<>>, Order(u, s)
    PROVE  /\ Tail(s) \in Seq(CallNames) /\ Order(u, Tail(s))
           /\ Patches(Tail(s)) => Patches(s) /\ Head(s) # "patch"
<1>1. /\ Len(s) \in Nat /\ Len(s) >= 1 /\ Tail(s) \in Seq(CallNames)
      /\ Len(Tail(s)) = Len(s) - 1 /\ Head(s) = s[1]
      /\ \A i \in 1..Len(Tail(s)) : Tail(s)[i] = s[i + 1]
  OBVIOUS
<1>2. ASSUME NEW i \in 1..Len(Tail(s))
      PROVE  i + 1 \in 1..Len(s) /\ Tail(s)[i] = s[i + 1]
             /\ (i < Len(Tail(s)) <=> i + 1 < Len(s))
             /\ (i < Len(Tail(s)) => Tail(s)[i + 1] = s[(i + 1) + 1])
  BY <1>1
<1>3. Order(u, Tail(s))
  BY <1>1, <1>2 DEF Order
<1>4. Patches(Tail(s)) => Patches(s) /\ Head(s) # "patch"
  <2> SUFFICES ASSUME NEW i \in 1..Len(Tail(s)), Tail(s)[i] = "patch"
               PROVE  Patches(s) /\ Head(s) # "patch"
    BY Zenon DEF Patches
  <2>1. i + 1 \in 1..Len(s) /\ s[i + 1] = "patch" /\ 1 \in 1..Len(s) /\ 1 < i + 1
    BY <1>1, <1>2
  <2>2. s[1] # "patch"
    BY <2>1 DEF Order
  <2> QED BY Zenon, <1>1, <2>1, <2>2 DEF Patches
<1> QED BY Zenon, <1>1, <1>3, <1>4

\* What comes after the first call.
LEMMA NextCall ==
    ASSUME NEW u, NEW s \in Seq(CallNames), s # <<>>, Order(u, s)
    PROVE  /\ Head(s) \in {"alter", "initFile", "syncUsers", "updateProxy"}
                => Tail(s) # <<>>
           /\ Tail(s) # <<>> =>
                /\ Head(s) \in ChoreNames \cup {"isOldPasswordDiscarded"} =>
                     Head(Tail(s)) \in (IF u \in SQLUsers THEN Before
                       ELSE {"updateProxy"})
                /\ Head(s) = "alter" => Head(Tail(s)) = "initFile"
                /\ Head(s) = "initFile" => Head(Tail(s)) \in Between \ {"initFile"}
                /\ Head(s) \in {"syncUsers", "updateProxy"} => Head(Tail(s)) = "patch"
                /\ Head(s) \in {"patch"} \cup After => Head(Tail(s)) \in After
                /\ u = "monitor" /\ Head(Tail(s)) = "discard"
                     => Head(s) = "isPassPropagated"
<1>1. Len(s) \in Nat /\ Len(s) >= 1 /\ Head(s) = s[1] /\ (Tail(s) # <<>> <=> 1 < Len(s))
      /\ (1 < Len(s) => Head(Tail(s)) = s[2])
  <2>1. Len(s) \in Nat /\ Len(s) >= 1 /\ Head(s) = s[1] /\ Len(Tail(s)) = Len(s) - 1
        /\ \A i \in 1..Len(Tail(s)) : Tail(s)[i] = s[i + 1]
    OBVIOUS
  <2>2. Tail(s) \in Seq(CallNames)
    OBVIOUS
  <2>3. ASSUME NEW t \in Seq(CallNames)
        PROVE  (t = <<>> <=> Len(t) = 0) /\ Head(t) = t[1]
    OBVIOUS
  <2> QED BY <2>1, <2>2, <2>3
<1>2. 1 \in 1..Len(s) /\ 1 + 1 = 2
  BY <1>1
<1> QED BY <1>1, <1>2 DEF Order

\* The first call is one of the handler of u.
LEMMA FirstCall ==
    ASSUME NEW u, NEW s \in Seq(CallNames), s # <<>>, Order(u, s)
    PROVE  /\ Head(s) \in (IF u \in SQLUsers THEN Before \cup Between \cup After
                           ELSE IF u = "proxyadmin"
                             THEN {"expire", "updateProxy", "patch"}
                           ELSE {"add", "patch"})
           /\ Head(s) = "updateProxy" => u \in {"monitor", "proxyadmin"}
           /\ Head(s) = "syncUsers" => u = "root"
           /\ Head(s) = "patch" => Patches(s)
<1>1. 1 \in 1..Len(s) /\ Head(s) = s[1]
  OBVIOUS
<1> QED BY <1>1 DEF Order, Patches

\* A rotation that has begun still has to record the password.
LEMMA MidPatches ==
    ASSUME NEW u, NEW s \in Seq(CallNames), s # <<>>, Order(u, s),
           Head(s) \in Between \cup {"alter"}
    PROVE  Patches(s)
<1>1. CASE Head(s) = "patch"
  BY Zenon, <1>1, FirstCall
<1>2. ASSUME NEW r \in Seq(CallNames), r # <<>>, Order(u, r),
             Head(r) \in {"syncUsers", "updateProxy"}
      PROVE  Patches(r)
  <2>1. Tail(r) # <<>> /\ Head(Tail(r)) = "patch"
    BY Zenon, <1>2, NextCall
  <2>2. Tail(r) \in Seq(CallNames) /\ Order(u, Tail(r))
    BY Zenon, <1>2, TailOrder
  <2>3. Patches(Tail(r))
    BY Zenon, <2>1, <2>2, FirstCall
  <2> QED BY Zenon, <1>2, <2>3, TailOrder
<1>3. ASSUME NEW r \in Seq(CallNames), r # <<>>, Order(u, r), Head(r) = "initFile"
      PROVE  Patches(r)
  <2>1. Tail(r) # <<>> /\ Head(Tail(r)) \in {"syncUsers", "updateProxy", "patch"}
    BY Zenon, <1>3, NextCall DEF Between
  <2>2. Tail(r) \in Seq(CallNames) /\ Order(u, Tail(r))
    BY Zenon, <1>3, TailOrder
  <2>3. Patches(Tail(r))
    BY Zenon, <1>2, <2>1, <2>2, FirstCall
  <2> QED BY Zenon, <1>3, <2>3, TailOrder
<1>4. CASE Head(s) = "alter"
  <2>1. Tail(s) # <<>> /\ Head(Tail(s)) = "initFile"
    BY Zenon, <1>4, NextCall
  <2>2. Tail(s) \in Seq(CallNames) /\ Order(u, Tail(s))
    BY Zenon, TailOrder
  <2>3. Patches(Tail(s))
    BY Zenon, <1>3, <2>1, <2>2
  <2> QED BY Zenon, <2>3, TailOrder
<1> QED BY Zenon, <1>1, <1>2, <1>3, <1>4 DEF Between

\* The calls that a rotation of u makes, with dual passwords and without.
Rotation(u, r) ==
  \/ u = "root" /\ r \in {<<"alter", "initFile", "syncUsers", "patch", "discard">>,
                          <<"alter", "initFile", "syncUsers", "patch">>}
  \/ /\ u = "monitor"
     /\ r \in {<<"alter", "initFile", "updateProxy", "patch", "isPassPropagated",
                 "discard">>,
               <<"alter", "initFile", "updateProxy", "patch">>}
  \/ /\ u \in {"operator", "xtrabackup", "replication"}
     /\ r \in {<<"alter", "initFile", "patch", "discard">>,
          <<"alter", "initFile", "patch">>}

\* The sequences that the handlers put together: a rotation of each user, with
\* dual passwords and without,
LEMMA RotationOrder ==
    ASSUME NEW u \in SQLUsers, NEW r, Rotation(u, r)
    PROVE  r \in Seq(CallNames) /\ r # <<>> /\ Order(u, r) /\ Head(r) = "alter"
<1> USE DEF CallNames, Before, Between, After, ChoreNames
<1>1. CASE u = "root" /\ r = <<"alter", "initFile", "syncUsers", "patch", "discard">>
  BY <1>1 DEF Order
<1>2. CASE u = "root" /\ r = <<"alter", "initFile", "syncUsers", "patch">>
  BY <1>2 DEF Order
<1>3. CASE u = "monitor"
             /\ r = <<"alter", "initFile", "updateProxy", "patch", "isPassPropagated",
                  "discard">>
  BY <1>3 DEF Order
<1>4. CASE u = "monitor" /\ r = <<"alter", "initFile", "updateProxy", "patch">>
  BY <1>4 DEF Order
<1>5. CASE u \in {"operator", "xtrabackup", "replication"}
             /\ r = <<"alter", "initFile", "patch", "discard">>
  BY <1>5 DEF Order
<1>6. CASE u \in {"operator", "xtrabackup", "replication"}
             /\ r = <<"alter", "initFile", "patch">>
  BY <1>6 DEF Order
<1> QED BY Zenon, <1>1, <1>2, <1>3, <1>4, <1>5, <1>6 DEF Rotation

\* the end of one, the look at the retained password, nothing,
LEMMA OtherOrder ==
    ASSUME NEW u \in SQLUsers, NEW r,
           \/ r = <<>> \/ r = <<"isOldPasswordDiscarded">>
           \/ u # "monitor" /\ r = <<"discard">>
           \/ r = <<"isPassPropagated", "discard">>
    PROVE  r \in Seq(CallNames) /\ Order(u, r) /\ ~Patches(r)
<1> USE DEF CallNames, Before, Between, After, ChoreNames
<1>1. CASE r = <<>>
  BY <1>1 DEF Order, Patches
<1>2. CASE r = <<"isOldPasswordDiscarded">>
  BY <1>2 DEF Order, Patches
<1>3. CASE u # "monitor" /\ r = <<"discard">>
  BY <1>3 DEF Order, Patches
<1>4. CASE r = <<"isPassPropagated", "discard">>
  BY <1>4 DEF Order, Patches
<1> QED BY Zenon, <1>1, <1>2, <1>3, <1>4

\* and the one-off changes before any of them.
LEMMA ChoresFirst ==
    ASSUME NEW u \in SQLUsers, NEW a \in Seq(ChoreNames), NEW b \in Seq(CallNames),
           Order(u, b), b # <<>> => Head(b) \in Before
    PROVE  /\ a \o b \in Seq(CallNames) /\ Order(u, a \o b)
           /\ Patches(a \o b) => Patches(b)
           /\ a \o b # <<>> => Head(a \o b) \in Before
<1> DEFINE s == a \o b
<1>1. /\ Len(a) \in Nat /\ Len(b) \in Nat /\ Len(s) = Len(a) + Len(b)
      /\ \A i \in 1..Len(a) : s[i] = a[i] /\ a[i] \in ChoreNames
      /\ \A i \in 1..Len(s) : i > Len(a) => i - Len(a) \in 1..Len(b)
           /\ s[i] = b[i - Len(a)]
      /\ b # <<>> => Len(b) >= 1 /\ Head(b) = b[1]
      /\ \A i \in 1..Len(b) : b[i] \in CallNames
  OBVIOUS
<1>2. s \in Seq(CallNames)
  BY DEF CallNames, Before
<1>3. \A i \in 1..Len(s) : s[i] = "patch" => i > Len(a)
  BY <1>1 DEF ChoreNames
<1>4. Order(u, s)
  <2>1. ASSUME NEW i \in 1..Len(s)
        PROVE  /\ s[i] \in Before \cup Between \cup After
               /\ s[i] = "updateProxy" => u \in {"monitor", "proxyadmin"}
               /\ s[i] = "syncUsers" => u = "root"
               /\ s[i] \in {"alter", "initFile", "syncUsers", "updateProxy"}
                    => i < Len(s)
    <3>1. CASE i \in 1..Len(a)
      BY Zenon, <1>1, <3>1 DEF ChoreNames, Before
    <3>2. CASE i > Len(a)
      <4>1. i - Len(a) \in 1..Len(b) /\ s[i] = b[i - Len(a)]
              /\ (i - Len(a) < Len(b) => i < Len(s))
        BY <1>1, <3>2
      <4> QED BY <4>1 DEF Order
    <3> QED BY <1>1, <3>1, <3>2
  <2>2. ASSUME NEW i \in 1..Len(s), i < Len(s)
        PROVE  /\ s[i] \in ChoreNames \cup {"isOldPasswordDiscarded"}
                    => s[i + 1] \in Before
               /\ s[i] = "alter" => s[i + 1] = "initFile"
               /\ s[i] = "initFile" => s[i + 1] \in Between \ {"initFile"}
               /\ s[i] \in {"syncUsers", "updateProxy"} => s[i + 1] = "patch"
               /\ s[i] \in {"patch"} \cup After => s[i + 1] \in After
               /\ u = "monitor" /\ s[i + 1] = "discard" => s[i] = "isPassPropagated"
    <3>1. CASE i < Len(a)
      <4>1. s[i] \in ChoreNames /\ s[i + 1] \in ChoreNames
        BY <1>1, <3>1
      <4> QED BY Zenon, <4>1 DEF ChoreNames, Before, After
    <3>2. CASE i = Len(a)
      <4>1. s[i] \in ChoreNames /\ s[i + 1] = b[1] /\ b # <<>>
        BY <1>1, <2>2, <3>2
      <4>2. s[i + 1] \in Before
        BY Zenon, <1>1, <4>1
      <4> QED BY Zenon, <4>1, <4>2 DEF ChoreNames, Before, After
    <3>3. CASE i > Len(a)
      <4>1. /\ i - Len(a) \in 1..Len(b) /\ s[i] = b[i - Len(a)] /\ i - Len(a) < Len(b)
            /\ s[i + 1] = b[(i - Len(a)) + 1]
        BY <1>1, <2>2, <3>3
      <4> QED BY <4>1 DEF Order
    <3>4. i < Len(a) \/ i = Len(a) \/ i > Len(a)
      BY <1>1
    <3> QED BY Zenon, <3>1, <3>2, <3>3, <3>4
  <2>3. ASSUME NEW i \in 1..Len(s), NEW j \in 1..Len(s), i < j, s[i] = "patch"
        PROVE  s[j] # "patch"
    <3>1. i > Len(a)
      BY Zenon, <1>3, <2>3
    <3>2. /\ i - Len(a) \in 1..Len(b) /\ j - Len(a) \in 1..Len(b)
          /\ s[i] = b[i - Len(a)] /\ s[j] = b[j - Len(a)] /\ i - Len(a) < j - Len(a)
      BY <1>1, <2>3, <3>1
    <3> QED BY <2>3, <3>2 DEF Order
  <2> QED BY Zenon, <2>1, <2>2, <2>3 DEF Order
<1>5. Patches(s) => Patches(b)
  BY Zenon, <1>1, <1>3 DEF Patches
<1>6. s # <<>> => Head(s) \in Before
  <2> SUFFICES ASSUME s # <<>> PROVE s[1] \in Before
    BY <1>2
  <2>1. CASE Len(a) > 0
    BY <1>1, <2>1 DEF Before
  <2>2. CASE Len(a) = 0
    BY <1>1, <1>2, <2>2
  <2> QED BY <1>1, <2>1, <2>2
<1> QED BY Zenon, <1>2, <1>4, <1>5, <1>6

\* What a handler of a user of MySQL begins with.
Chosen(u, s) ==
  /\ s \in Seq(CallNames) /\ Order(u, s) /\ (Patches(s) => ~Same(u))
  /\ s # <<>> => Head(s) \in Before

\* A list of chores followed by a rotation, by a look at the old password or by
\* nothing is in order.
LEMMA ChosenParts ==
    ASSUME NEW u \in SQLUsers, NEW a \in Seq(ChoreNames), NEW b,
           b = <<>> \/ b = <<"isOldPasswordDiscarded">> \/ (Rotation(u, b) /\ ~Same(u))
    PROVE  Chosen(u, a \o b)
<1>1. /\ b \in Seq(CallNames) /\ Order(u, b) /\ (b # <<>> => Head(b) \in Before)
      /\ Patches(b) => ~Same(u)
  <2>1. CASE b = <<>>
    BY Zenon, <2>1, OtherOrder
  <2>2. CASE b = <<"isOldPasswordDiscarded">>
    <3>1. Head(b) = "isOldPasswordDiscarded"
      BY <2>2
    <3> QED BY Zenon, <2>2, <3>1, OtherOrder DEF Before
  <2>3. CASE Rotation(u, b) /\ ~Same(u)
    BY Zenon, <2>3, RotationOrder DEF Before
  <2> QED BY Zenon, <2>1, <2>2, <2>3
<1> QED BY Zenon, <1>1, ChoresFirst DEF Chosen

\* Every handler of a user of MySQL chooses such calls,
LEMMA HandlersChoose ==
    ASSUME NEW u \in SQLUsers
    PROVE  Chosen(u, UpdateUsers(u)) /\ Chosen(u, UpdateUsersWithoutDP(u))
<1> DEFINE look == IF Waits THEN <<>> ELSE <<"isOldPasswordDiscarded">>
<1>1. Chosen(u, <<>>)
  BY Zenon, OtherOrder DEF Chosen
<1>2. \A v, c : c \in ChoreNames => Pending(v, c) \in Seq(ChoreNames)
  BY DEF Pending
<1>3. /\ \A v : Expire(v) \in Seq(ChoreNames)
      /\ "grant160" \in ChoreNames /\ "grant1100" \in ChoreNames
      /\ "grant1150" \in ChoreNames
  BY Zenon, <1>2 DEF Expire, ChoreNames
<1>4. /\ \A a, b \in Seq(ChoreNames) : a \o b \in Seq(ChoreNames)
      /\ <<>> \in Seq(ChoreNames)
  OBVIOUS
<1>5. \A a \in Seq(ChoreNames) : Chosen(u, a \o look)
        /\ Chosen(u, a \o <<"isOldPasswordDiscarded">>)
  BY Zenon, ChosenParts
<1>6. \A a \in Seq(ChoreNames) : \A r : Rotation(u, r) => Chosen(u, a \o Changed(u, r))
                                         /\ Chosen(u, a \o (IF Waits THEN <<>>
                                              ELSE Changed(u, r)))
  BY Zenon, ChosenParts DEF Changed
<1>7. CASE u = "root"
  <2>1. Rotation(u, <<"alter", "initFile", "syncUsers", "patch">>)
    BY Zenon, <1>7 DEF Rotation
  <2> QED BY Zenon, <1>1, <1>3, <1>5, <1>6, <1>7, <2>1
          DEF UpdateUsers, UpdateUsersWithoutDP, HandleRootUser, HandleRootUserWithoutDP
<1>8. CASE u = "operator"
  <2>1. Rotation(u, <<"alter", "initFile", "patch">>)
    BY Zenon, <1>8 DEF Rotation
  <2> QED BY Zenon, <1>3, <1>4, <1>5, <1>6, <1>8, <2>1
          DEF UpdateUsers, UpdateUsersWithoutDP, HandleOperatorUser,
            HandleOperatorUserWithoutDP
<1>9. CASE u = "monitor"
  <2>1. Rotation(u, <<"alter", "initFile", "updateProxy", "patch">>)
    BY Zenon, <1>9 DEF Rotation
  <2> QED BY Zenon, <1>2, <1>3, <1>4, <1>5, <1>6, <1>9, <2>1
          DEF UpdateUsers, UpdateUsersWithoutDP, HandleMonitorUser,
            HandleMonitorUserWithoutDP
<1>10. CASE u = "xtrabackup"
  <2>1. Rotation(u, <<"alter", "initFile", "patch">>)
    BY Zenon, <1>10 DEF Rotation
  <2> QED BY Zenon, <1>2, <1>3, <1>4, <1>5, <1>6, <1>10, <2>1
          DEF UpdateUsers, UpdateUsersWithoutDP, HandleXtrabackupUser,
            HandleXtrabackupUserWithoutDP
<1>11. CASE u = "replication"
  <2>1. Rotation(u, <<"alter", "initFile", "patch">>)
    BY Zenon, <1>11 DEF Rotation
  <2> QED BY Zenon, <1>1, <1>3, <1>4, <1>5, <1>6, <1>11, <2>1
          DEF UpdateUsers, UpdateUsersWithoutDP, HandleReplicationUser,
            HandleReplicationUserWithoutDP
<1> QED BY Zenon, <1>7, <1>8, <1>9, <1>10, <1>11 DEF SQLUsers

\* The elements of a concatenation.
LEMMA Joined ==
    ASSUME NEW S, NEW a \in Seq(S), NEW b \in Seq(S)
    PROVE  /\ a \o b \in Seq(S) /\ Len(a \o b) = Len(a) + Len(b)
           /\ \A i \in 1..(Len(a) + Len(b)) :
                (a \o b)[i] = IF i <= Len(a) THEN a[i] ELSE b[i - Len(a)]
  OBVIOUS

\* The lists that the handler of proxyadmin is made of.
LEMMA AdminCalls ==
    ASSUME NEW S, "expire" \in S, "updateProxy" \in S, "patch" \in S
    PROVE  /\ <<>> \in Seq(S) /\ <<"expire">> \in Seq(S)
           /\ <<"updateProxy", "patch">> \in Seq(S)
  OBVIOUS

\* and those of the other users choose few.
LEMMA OthersChoose ==
    ASSUME NEW u \in PMMUsers \cup {"proxyadmin"}, NEW s,
           s = UpdateUsers(u) \/ s = UpdateUsersWithoutDP(u)
    PROVE  /\ s \in Seq(CallNames) /\ Order(u, s)
           /\ u = "proxyadmin" /\ s # <<>> => conf.proxy = "proxysql"
                /\ Head(s) # "patch"
<1> USE DEF CallNames, Before, Between, After, ChoreNames, SQLUsers, PMMUsers
<1>1. CASE u = "proxyadmin"
  <2>1. \/ s = <<>>
        \/ conf.proxy = "proxysql"
             /\ s = Expire("proxyadmin") \o <<"updateProxy", "patch">>
    BY Zenon, <1>1 DEF UpdateUsers, UpdateUsersWithoutDP, HandleProxyadminUser,
         HandleProxyadminUserWithoutDP
  <2>2. CASE s = <<>>
    BY <2>2 DEF Order
  <2>3. CASE conf.proxy = "proxysql"
               /\ s = Expire("proxyadmin") \o <<"updateProxy", "patch">>
    <3> DEFINE a == Expire("proxyadmin")
               b == <<"updateProxy", "patch">>
    <3>a. a = <<>> \/ a = <<"expire">>
      BY Zenon DEF Expire, Pending
    <3>b. /\ a \in Seq(CallNames) /\ b \in Seq(CallNames)
          /\ Len(b) = 2 /\ b[1] = "updateProxy" /\ b[2] = "patch"
      <4>1. "expire" \in CallNames /\ "updateProxy" \in CallNames
              /\ "patch" \in CallNames
        OBVIOUS
      <4> HIDE DEF CallNames
      <4> QED BY Zenon, <3>a, <4>1, AdminCalls
    <3> HIDE DEF a, b
    <3>c. /\ a \o b \in Seq(CallNames) /\ Len(a \o b) = Len(a) + Len(b)
          /\ \A i \in 1..(Len(a) + Len(b)) : (a \o b)[i] = IF i <= Len(a) THEN a[i]
               ELSE b[i - Len(a)]
      BY Zenon, <3>b, Joined
    <3>d. s = a \o b
      BY Zenon, <2>3 DEF a, b
    <3>1. CASE a = <<>>
      <4>1. s \in Seq(CallNames) /\ Len(s) = 2 /\ s[1] = "updateProxy" /\ s[2] = "patch"
        BY <3>b, <3>c, <3>d, <3>1
      <4>2. \A i \in 1..Len(s) : i = 1 \/ i = 2
        BY <4>1
      <4>3. Order(u, s)
        BY <1>1, <4>1, <4>2 DEF Order
      <4>4. Head(s) = "updateProxy"
        BY <4>1
      <4> QED BY Zenon, <2>3, <4>1, <4>3, <4>4
    <3>2. CASE a = <<"expire">>
      <4>1. s \in Seq(CallNames) /\ Len(s) = 3
            /\ s[1] = "expire" /\ s[2] = "updateProxy" /\ s[3] = "patch"
        <5>1. Len(a) = 1 /\ a[1] = "expire"
          BY Zenon, <3>2
        <5> QED BY <3>b, <3>c, <3>d, <5>1
      <4>2. \A i \in 1..Len(s) : i = 1 \/ i = 2 \/ i = 3
        BY <4>1
      <4>3. Order(u, s)
        BY <1>1, <4>1, <4>2 DEF Order
      <4>4. Head(s) = "expire"
        BY <4>1
      <4> QED BY Zenon, <2>3, <4>1, <4>3, <4>4
    <3> QED BY Zenon, <3>a, <3>1, <3>2
  <2> QED BY Zenon, <2>1, <2>2, <2>3
<1>2. CASE u # "proxyadmin"
  <2>1. s \in {<<>>, <<"add">>, <<"patch">>}
    BY Zenon, <1>2 DEF UpdateUsers, UpdateUsersWithoutDP, HandlePMMUser,
         HandlePMM3User
  <2>2. CASE s = <<>>
    BY <2>2, <1>2 DEF Order
  <2>3. CASE s = <<"add">>
    BY <2>3, <1>2 DEF Order
  <2>4. CASE s = <<"patch">>
    BY <2>4, <1>2 DEF Order
  <2> QED BY Zenon, <2>1, <2>2, <2>3, <2>4
<1> QED BY Zenon, <1>1, <1>2

-----------------------------------------------------------------------------
\* The users that the loop goes through have an entry in both secrets.
LEMMA Known ==
    /\ Len(UserNames) \in Nat
    /\ \A i \in 1..Len(UserNames) :
         UserNames[i] \in Names /\ UserNames[i] \in SQLUsers \cup PMMUsers
           \cup {"proxyadmin"}
    /\ \A u \in SQLUsers \cup {"proxyadmin"} : u \in Names \ PMMUsers
    /\ "operator" \in SQLUsers /\ "monitor" \in SQLUsers
  BY UsersAssumption DEF Names, SQLUsers, PMMUsers

\* What neither ending a pass nor moving it on touches.
Still == UNCHANGED <<conf, secrets, internal, account, initFile, mount, up>>

\* The monitor's old password is about to be discarded.
Discarding == calls # <<>> /\ Current = "monitor" /\ Head(calls) = "discard"

\* The types of what such steps do touch.
NewTypes ==
  /\ desired \in [Names -> PasswordOrNone]
  /\ proxy \in [1..ProxyPods -> [admin : PasswordOrNone, monitor : PasswordOrNone,
       root : PasswordOrNone]]
  /\ user \in 0..(Len(UserNames) + 2) /\ calls \in Seq(CallNames)

\* A step that ends the pass, where it is seen to or not,
Ends ==
  /\ Still /\ NewTypes' /\ user' = 0 /\ calls' = <<>>
  /\ happened \subseteq happened' /\ ("hurry" \in happened' => "hurry" \in happened)
  /\ \/ "cut" \in happened'
     \/ proxy' = proxy /\ (calls = <<>> \/ Head(calls) \notin Between)
  /\ lapses' = IF Mid("operator") THEN lapses + 1 ELSE lapses

\* or that makes a call which changes no password.
Moves ==
  /\ Still /\ NewTypes' /\ UNCHANGED <<desired, happened, lapses>>
  /\ user' # 0 <=> user # 0
  /\ CallsFit' /\ (~up => calls' = <<>>)
  /\ \A u \in SQLUsers :
       /\ Mid(u)' <=> Mid(u)
       /\ Mid(u) => (Head(calls') = "initFile" <=> Head(calls) = "initFile")
  /\ Admitted'
  /\ Discarding' => Discarding \/ \A p \in MountPods : mount[p] = internal["monitor"]

\* While MySQL is ahead of the internal secret a rotation is under way.
LEMMA MidChanges ==
    ASSUME UsersTypes, CallsFit, NEW u \in SQLUsers, Mid(u)
    PROVE  ~Same(u)
<1>1. calls # <<>> /\ Current = u /\ Order(u, calls) /\ calls \in Seq(CallNames)
  BY Zenon DEF UsersTypes, CallsFit, Mid
<1>2. Patches(calls)
  BY Zenon, <1>1, MidPatches DEF Mid
<1> QED BY Zenon, <1>1, <1>2 DEF CallsFit

\* Ending a pass keeps the invariant: the counter of the lapses records a cut in
\* the operator's rotation.
LEMMA EndsKeeps ==
    ASSUME UsersInv, Ends
    PROVE  UsersInv'
<1> USE DEF UsersInv
<1>1. UsersTypes'
  BY DEF UsersTypes, Ends, Still, NewTypes
<1>2. Filled' /\ CallsFit' /\ Reads'
  <2>1. Filled'
    BY Zenon DEF Filled, Ends, Still, Mid
  <2>2. CallsFit' /\ Reads'
    BY Zenon DEF CallsFit, Reads, Ends
  <2> QED BY Zenon, <2>1, <2>2
<1>3. \A u : ~Mid(u)'
  BY Zenon DEF Ends, Mid
<1>4. LoginKept'
  <2>1. CASE Mid("operator")
    <3>1. ~Same("operator") /\ user # 0
      BY <2>1, MidChanges, Known DEF Mid, CallsFit
    <3>2. "hurry" \notin happened => secrets["operator"] # internal["operator"]
      BY Zenon, <3>1, Known DEF Reads, Same
    <3> QED BY <1>3, <2>1, <3>2 DEF LoginKept, Ends, Still, UsersTypes
  <2>2. CASE ~Mid("operator")
    BY Zenon, <1>3, <2>2 DEF LoginKept, Ends, Still
  <2> QED BY Zenon, <2>1, <2>2
<1>5. Retained' /\ Admitted' /\ Mounted'
  <2> SUFFICES ASSUME "cut" \notin happened' PROVE Retained' /\ Admitted' /\ Mounted'
    BY Zenon DEF Retained, Admitted, Mounted
  <2>1. proxy' = proxy /\ (\A u : ~Mid(u)) /\ ~AdminMid /\ "cut" \notin happened
    BY Zenon DEF Ends, Mid, AdminMid, Between
  <2>2. Retained'
    BY Zenon, <1>3, <2>1 DEF Retained, Ends, Still
  <2>3. Admitted'
    BY Zenon, <2>1 DEF Admitted, AdminMid, Ends, Still
  <2>4. Mounted'
    <3>1. happened' \cap {"cut", "hurry"} = {} => happened \cap {"cut", "hurry"} = {}
      BY Zenon DEF Ends
    <3>2. calls' = <<>> /\ UNCHANGED <<conf, secrets, internal, account, mount, up>>
      BY Zenon DEF Ends, Still
    <3> QED BY Zenon, <1>3, <3>1, <3>2 DEF Mounted
  <2> QED BY Zenon, <2>2, <2>3, <2>4
<1> QED BY Zenon, <1>1, <1>2, <1>4, <1>5

\* Moving a pass on keeps it as well.
LEMMA MovesKeeps ==
    ASSUME UsersInv, Moves
    PROVE  UsersInv'
<1> USE DEF UsersInv
<1>1. UsersTypes'
  BY Zenon DEF UsersTypes, Moves, Still, NewTypes
<1>2. Filled' /\ CallsFit' /\ Reads'
  BY Zenon DEF Filled, Reads, Moves, Still
<1>3. LoginKept'
  BY Zenon, Known DEF LoginKept, Moves, Still
<1>4. Retained'
  BY Zenon DEF Retained, Moves, Still
<1>5. Mounted'
  BY Zenon, Known DEF Mounted, Moves, Still, Discarding
<1> QED BY Zenon, <1>1, <1>2, <1>3, <1>4, <1>5 DEF Moves

-----------------------------------------------------------------------------
\* The steps that end a pass.  A cut is counted exactly when it leaves the
\* operator's password in between.
LEMMA CutsCounted ==
    ASSUME UsersInv
    PROVE  InUsers /\ Altered /\ calls # <<>> /\ Head(calls) \in {"initFile", "patch"}
               <=> Mid("operator")
<1>1. ASSUME Mid("operator")
      PROVE  InUsers /\ Altered /\ calls # <<>> /\ Head(calls) \in {"initFile", "patch"}
  <2>1. calls # <<>> /\ Current = "operator" /\ user \in 1..Len(UserNames)
          /\ calls \in Seq(CallNames)
        /\ Order("operator", calls)
    BY Zenon, <1>1 DEF Mid, UsersInv, CallsFit, UsersTypes
  <2>2. up /\ internal # Nobody
    BY Zenon, <2>1 DEF UsersInv, Filled
  <2>3. ~Same("operator") /\ account["operator"].cur = desired["operator"]
    BY Zenon, <1>1, <2>2, MidChanges, Known DEF UsersInv, LoginKept
  <2>4. Head(calls) \in {"initFile", "patch"}
    BY Zenon, <1>1, <2>1, FirstCall DEF Mid, Between
  <2> QED BY Zenon, <2>1, <2>2, <2>3, <2>4 DEF InUsers, Altered
<1>2. ASSUME Altered, calls # <<>>, Head(calls) \in {"initFile", "patch"}
      PROVE  Mid("operator")
  BY Zenon, <1>2 DEF Altered, Mid, Between
<1> QED BY Zenon, <1>1, <1>2

\* What an ended pass leaves behind.
LEMMA NoPassTypes ==
    ASSUME NoPass
    PROVE  /\ user' = 0 /\ calls' = <<>> /\ desired' \in [Names -> PasswordOrNone]
           /\ user' \in 0..(Len(UserNames) + 2) /\ calls' \in Seq(CallNames)
  BY Known DEF NoPass, Nobody, PasswordOrNone

\* A pass that is cut ends,
LEMMA CutEnds ==
    ASSUME UsersInv, NEW torn \in BOOLEAN, Cut(torn), Still,
           proxy' \in [1..ProxyPods -> [admin : PasswordOrNone,
             monitor : PasswordOrNone, root : PasswordOrNone]]
    PROVE  Ends
<1>1. NewTypes' /\ user' = 0 /\ calls' = <<>>
  BY Zenon, NoPassTypes DEF Cut, NewTypes
<1>2. happened \subseteq happened' /\ "cut" \in happened'
        /\ ("hurry" \in happened' => "hurry" \in happened)
  BY Zenon DEF Cut, Forgets
<1>3. lapses' = IF Mid("operator") THEN lapses + 1 ELSE lapses
  BY Zenon, CutsCounted DEF Cut
<1> QED BY Zenon, <1>1, <1>2, <1>3 DEF Ends

\* and so does one that returns, with an error or without,
LEMMA ErrorEnds ==
    ASSUME UsersInv, NEW invalid \in BOOLEAN, EndWithError(invalid)
             \/ (EndWithoutError /\ UNCHANGED happened),
           Still, UNCHANGED <<proxy, lapses>>, calls = <<>>
             \/ Head(calls) \notin Between
    PROVE  Ends
<1>1. NewTypes' /\ user' = 0 /\ calls' = <<>>
  BY Zenon, NoPassTypes DEF EndWithError, EndWithoutError, NewTypes, UsersInv,
       UsersTypes
<1>2. happened \subseteq happened' /\ ("hurry" \in happened' => "hurry" \in happened)
  BY Zenon DEF EndWithError, Forgets
<1> QED BY Zenon, <1>1, <1>2 DEF Ends, Mid

\* in every action that is not a call of a rotation.
LEMMA EndingSteps ==
    ASSUME UsersInv,
           \/ VersionNotReady \/ ConnectionRefused \/ CutShort \/ Deploy
           \/ \E c \in ChoreNames : ChoreCutShort(c)
    PROVE  Ends
<1>0. proxy \in [1..ProxyPods -> [admin : PasswordOrNone, monitor : PasswordOrNone,
        root : PasswordOrNone]]
  BY Zenon DEF UsersInv, UsersTypes
<1>1. CASE VersionNotReady
  BY Zenon, <1>1, ErrorEnds DEF VersionNotReady, Still, history
<1>2. CASE ConnectionRefused
  BY Zenon, <1>2, ErrorEnds DEF ConnectionRefused, Still, NeedsConnection,
       SQLCalls, Between
<1>3. CASE CutShort
  BY Zenon, <1>0, <1>3, CutEnds DEF CutShort, Still
<1>4. CASE Deploy
  <2>1. calls = <<>>
    BY <1>4, Known DEF Deploy, UsersInv, CallsFit
  <2> QED BY Zenon, <1>0, <1>4, <2>1, CutEnds, ErrorEnds DEF Deploy, Still,
       history
<1>5. CASE \E c \in ChoreNames : ChoreCutShort(c)
  BY Zenon, <1>0, <1>5, CutEnds DEF ChoreCutShort, Still
<1> QED BY Zenon, <1>1, <1>2, <1>3, <1>4, <1>5

-----------------------------------------------------------------------------
\* The calls that change no password.
LEMMA ReturnFits ==
    ASSUME UsersTypes, user \in 1..Len(UserNames), NEW rest \in Seq(CallNames),
             Return(rest),
           Order(Current, rest), UNCHANGED <<conf, desired, internal>>,
           Current = "proxyadmin" /\ rest # <<>> => conf.proxy = "proxysql",
           Current \in SQLUsers =>
             (Patches(rest) => ~Same(Current))
               /\ (rest # <<>> /\ Head(rest) \in After => Same(Current))
    PROVE  /\ CallsFit' /\ calls' = rest /\ (rest # <<>> => Current' = Current)
           /\ user' \in 0..(Len(UserNames) + 2) /\ user' # 0
<1>1. calls' = rest /\ user' = IF rest = <<>> THEN user + 1 ELSE user
  BY Zenon DEF Return
<1>2. user' \in 0..(Len(UserNames) + 2) /\ user' # 0
  BY <1>1, Known
<1>3. rest # <<>> => Current' = Current /\ user' = user
  BY Zenon, <1>1 DEF Current
<1>4. \A u : Same(u)' <=> Same(u)
  BY Zenon DEF Same
<1>5. CallsFit'
  BY Zenon, <1>1, <1>3, <1>4 DEF CallsFit
<1> QED BY Zenon, <1>1, <1>2, <1>3, <1>5

\* When a call other than the patch returns, the calls that remain fit.
LEMMA TailFits ==
    ASSUME UsersTypes, CallsFit, calls # <<>>, Return(Tail(calls)),
             Head(calls) # "patch",
           UNCHANGED <<conf, desired, internal>>
    PROVE  /\ CallsFit' /\ calls' = Tail(calls) /\ calls' \in Seq(CallNames)
           /\ calls' # <<>> => Current' = Current
           /\ user' \in 0..(Len(UserNames) + 2) /\ user' # 0
<1>1. calls \in Seq(CallNames) /\ Order(Current, calls) /\ user \in 1..Len(UserNames)
  BY Zenon DEF UsersTypes, CallsFit
<1>2. Tail(calls) \in Seq(CallNames) /\ Order(Current, Tail(calls))
        /\ (Patches(Tail(calls)) => Patches(calls))
  BY Zenon, <1>1, TailOrder
<1>3. ASSUME Current \in SQLUsers, Tail(calls) # <<>>,
               Head(Tail(calls)) \in After PROVE Same(Current)
  <2>1. Head(calls) \in Before \cup Between \cup After
    BY Zenon, <1>1, <1>3, FirstCall
  <2>2. Head(calls) \in After
    BY Zenon, <1>1, <1>3, <2>1, NextCall DEF Before, Between, After, ChoreNames
  <2> QED BY Zenon, <1>3, <2>2 DEF CallsFit
<1> QED BY Zenon, <1>1, <1>2, <1>3, ReturnFits DEF CallsFit

\* The call that was made is gone; the password it may have changed is not in
\* between before it, or is so still.
LEMMA CallMoves ==
    ASSUME UsersInv, calls # <<>>, Return(Tail(calls)), Still,
           Head(calls) \notin {"alter", "initFile", "patch", "add", "discard"},
           UNCHANGED <<desired, happened, lapses>>, Admitted', NewTypes',
           Head(calls) = "isPassPropagated"
             => \A p \in MountPods : mount[p] = desired["monitor"]
    PROVE  Moves
<1>1. UsersTypes /\ CallsFit /\ up /\ user # 0
  BY DEF UsersInv, Filled, CallsFit
<1>2. /\ CallsFit' /\ calls' = Tail(calls)
      /\ calls' # <<>> => Current' = Current
      /\ user' # 0
  BY Zenon, <1>1, TailFits DEF Still
<1>3. calls \in Seq(CallNames) /\ Order(Current, calls)
  BY Zenon, <1>1 DEF UsersTypes, CallsFit
<1>4. Head(calls) \in CallNames
  BY <1>3
<1>5. Head(calls) \in ChoreNames
        \cup {"isOldPasswordDiscarded", "syncUsers", "updateProxy", "isPassPropagated"}
  BY Zenon, <1>4 DEF CallNames, Before, Between, After
<1>6. ASSUME NEW u \in SQLUsers
      PROVE  (Mid(u)' <=> Mid(u))
               /\ (Mid(u) => (Head(calls') = "initFile" <=> Head(calls) = "initFile"))
  <2>1. CASE Current # u
    BY Zenon, <1>2, <2>1 DEF Mid
  <2>2. CASE Current = u /\ Head(calls) \in {"syncUsers", "updateProxy"}
    <3>1. Tail(calls) # <<>> /\ Head(Tail(calls)) = "patch"
      BY Zenon, <1>3, <2>2, NextCall
    <3> QED BY Zenon, <1>2, <2>2, <3>1 DEF Mid, Between
  <2>3. CASE Current = u /\ Head(calls) \in ChoreNames
               \cup {"isOldPasswordDiscarded", "isPassPropagated"}
    <3>1. Head(calls) \notin Between
      BY Zenon, <2>3 DEF Between, ChoreNames
    <3>2. Tail(calls) # <<>> => Head(Tail(calls)) \in Before \cup After
      BY Zenon, <1>3, <2>3, NextCall DEF After
    <3>3. Tail(calls) # <<>> => Head(Tail(calls)) \notin Between
      BY Zenon, <3>2 DEF Between, ChoreNames, Before, After
    <3> QED BY Zenon, <1>2, <3>1, <3>3 DEF Mid
  <2> QED BY Zenon, <1>5, <2>1, <2>2, <2>3
<1>7. ASSUME Discarding' PROVE \A p \in MountPods : mount[p] = internal["monitor"]
  <2>1. Tail(calls) # <<>> /\ Current = "monitor" /\ Head(Tail(calls)) = "discard"
    BY Zenon, <1>2, <1>7 DEF Discarding
  <2>2. Head(calls) = "isPassPropagated"
    BY Zenon, <1>3, <2>1, NextCall
  <2>3. Same("monitor")
    BY Zenon, <1>1, <2>1, <2>2, Known DEF CallsFit, After
  <2> QED BY Zenon, <2>2, <2>3 DEF Same
<1> QED BY Zenon, <1>1, <1>2, <1>6, <1>7 DEF Moves

\* Calls are chosen by a handler, or after the look at the retained password.
LEMMA ChoiceMoves ==
    ASSUME UsersInv, InUsers, NEW rest, Return(rest), Still,
             UNCHANGED <<desired, happened, lapses, proxy>>,
           rest \in Seq(CallNames), Order(Current, rest),
           Current = "proxyadmin" /\ rest # <<>> => conf.proxy = "proxysql"
             /\ Head(rest) # "patch",
           Current \in SQLUsers =>
             /\ Patches(rest) => ~Same(Current)
             /\ rest # <<>> => Head(rest) \in Before
                  \/ (Head(rest) \in After /\ Same(Current)),
           Current = "monitor" /\ rest # <<>> => Head(rest) # "discard",
           calls = <<>> \/ Head(calls) \notin Between
    PROVE  Moves
<1>1. UsersTypes /\ up /\ user \in 1..Len(UserNames) /\ user # 0
  BY DEF UsersInv, InUsers
<1>2. Before \cap (Between \cup After) = {} /\ After \cap Between = {}
  BY Zenon DEF Before, Between, After, ChoreNames
<1>3. /\ CallsFit' /\ calls' = rest /\ (rest # <<>> => Current' = Current)
      /\ user' \in 0..(Len(UserNames) + 2) /\ user' # 0
  BY Zenon, <1>1, <1>2, ReturnFits DEF Still
<1>4. \A u \in SQLUsers : ~Mid(u) /\ ~Mid(u)'
  BY Zenon, <1>2, <1>3 DEF Mid
<1>5. ~AdminMid /\ ~AdminMid' /\ ~Discarding'
  BY Zenon, <1>3 DEF AdminMid, Between, Discarding
<1>6. Admitted'
  BY Zenon, <1>5 DEF UsersInv, Admitted, Still
<1>7. NewTypes'
  BY Zenon, <1>1, <1>3 DEF NewTypes, UsersTypes
<1> QED BY Zenon, <1>1, <1>3, <1>4, <1>5, <1>6, <1>7 DEF Moves

\* Entering the handler of a user (updateUsers).
LEMMA HandleMoves == ASSUME UsersInv, Handle PROVE Moves
<1> DEFINE rest == IF conf.dual THEN UpdateUsers(Current)
             ELSE UpdateUsersWithoutDP(Current)
<1>1. InUsers /\ calls = <<>> /\ Return(rest)
  BY Zenon DEF Handle
<1>2. Still /\ UNCHANGED <<desired, happened, lapses, proxy>>
  BY Zenon DEF Handle, Still, world, history
<1>3. Current \in SQLUsers \cup PMMUsers \cup {"proxyadmin"}
  BY Zenon, <1>1, Known DEF InUsers, Current
<1>4. CASE Current \in SQLUsers
  <2>1. Chosen(Current, rest)
    BY Zenon, <1>4, HandlersChoose
  <2>2. Current # "proxyadmin"
    BY Zenon, <1>4 DEF SQLUsers
  <2>3. rest # <<>> => Head(rest) # "discard"
    BY Zenon, <2>1 DEF Chosen, Before, ChoreNames
  <2> HIDE DEF rest
  <2> QED BY Zenon, <1>1, <1>2, <1>4, <2>1, <2>2, <2>3, ChoiceMoves DEF Chosen
<1>5. CASE Current \in PMMUsers \cup {"proxyadmin"}
  <2>1. rest \in Seq(CallNames) /\ Order(Current, rest)
        /\ (Current = "proxyadmin" /\ rest # <<>> => conf.proxy = "proxysql"
             /\ Head(rest) # "patch")
    BY <1>5, OthersChoose
  <2>2. Current \notin SQLUsers /\ Current # "monitor"
    BY Zenon, <1>5 DEF SQLUsers, PMMUsers
  <2> HIDE DEF rest
  <2> QED BY Zenon, <1>1, <1>2, <2>1, <2>2, ChoiceMoves
<1> QED BY Zenon, <1>3, <1>4, <1>5

\* Only a user of MySQL has a retained password.
LEMMA SQLCallers ==
    ASSUME UsersInv, calls # <<>>,
             Head(calls) \in {"isOldPasswordDiscarded", "alter", "initFile",
               "isPassPropagated", "discard"}
    PROVE  Current \in SQLUsers /\ Order(Current, calls) /\ user \in 1..Len(UserNames)
             /\ calls \in Seq(CallNames) /\ up
<1>1. Order(Current, calls) /\ user \in 1..Len(UserNames) /\ calls \in Seq(CallNames)
        /\ up
  BY Zenon DEF UsersInv, CallsFit, UsersTypes, Filled
<1> QED BY Zenon, <1>1, FirstCall

\* Looking whether the old password is discarded already.
LEMMA LookMoves == ASSUME UsersInv, IsOldPasswordDiscarded PROVE Moves
<1> DEFINE rest == IF ~Same(Current) THEN Rotate(Current)
                   ELSE IF Discarded(Current) THEN <<>> ELSE Finish(Current)
<1>1. InUsers /\ calls # <<>> /\ Head(calls) = "isOldPasswordDiscarded" /\ Return(rest)
  BY Zenon DEF IsOldPasswordDiscarded, Calling
<1>2. Still /\ UNCHANGED <<desired, happened, lapses, proxy>>
  BY Zenon DEF IsOldPasswordDiscarded, Still, world, history
<1>3. Current \in SQLUsers
  BY Zenon, <1>1, SQLCallers
<1>4. Head(calls) \notin Between /\ Current # "proxyadmin"
  BY Zenon, <1>1, <1>3 DEF Between, SQLUsers
<1>5. CASE ~Same(Current)
  <2>1. Rotation(Current, rest)
    BY Zenon, <1>3, <1>5 DEF Rotation, Rotate, SQLUsers, RotateRootUser,
         RotateOperatorUser, RotateMonitorUser,
                      RotateXtrabackupUser, RotateReplicationUser
  <2>2. rest \in Seq(CallNames) /\ rest # <<>> /\ Order(Current, rest)
          /\ Head(rest) = "alter"
    BY Zenon, <1>3, <2>1, RotationOrder
  <2>3. Head(rest) \in Before
    BY Zenon, <2>2 DEF Before
  <2> HIDE DEF rest
  <2> QED BY Zenon, <1>1, <1>2, <1>3, <1>4, <1>5, <2>2, <2>3, ChoiceMoves
<1>6. CASE Same(Current)
  <2>1. \/ rest = <<>>
        \/ Current # "monitor" /\ rest = <<"discard">>
        \/ rest = <<"isPassPropagated", "discard">>
    BY Zenon, <1>6 DEF Finish
  <2>2. rest \in Seq(CallNames) /\ Order(Current, rest) /\ ~Patches(rest)
    BY Zenon, <1>3, <2>1, OtherOrder
  <2>3. rest # <<>> => Head(rest) \in After
          /\ (Current = "monitor" => Head(rest) # "discard")
    BY <2>1 DEF After
  <2> HIDE DEF rest
  <2> QED BY Zenon, <1>1, <1>2, <1>3, <1>4, <1>6, <2>2, <2>3, ChoiceMoves
<1> QED BY Zenon, <1>5, <1>6

\* Waiting for the monitor's password to reach the pods.
LEMMA WaitMoves == ASSUME UsersInv, IsPassPropagated PROVE Moves
<1>1. InUsers /\ calls # <<>> /\ Head(calls) = "isPassPropagated"
  BY Zenon DEF IsPassPropagated, Calling
<1>2. Still /\ UNCHANGED <<desired, happened, lapses, proxy>>
  BY Zenon DEF IsPassPropagated, Still, world, history
<1>3. Head(calls) \notin Between /\ AdminMid = FALSE
  BY Zenon, <1>1 DEF Between, AdminMid
<1>4. CASE Return(Tail(calls)) /\ \A p \in MountPods : mount[p] = desired["monitor"]
  <2>1. /\ calls' = Tail(calls) /\ calls' \in Seq(CallNames)
        /\ calls' # <<>> => Current' = Current
        /\ user' \in 0..(Len(UserNames) + 2)
    BY Zenon, <1>1, <1>2, <1>4, TailFits DEF UsersInv, Still
  <2>2. NewTypes'
    BY Zenon, <1>2, <2>1 DEF NewTypes, UsersInv, UsersTypes
  <2>3. calls' # <<>> => Head(calls') # "patch"
    BY Zenon, <1>1, <2>1, SQLCallers, NextCall DEF After
  <2>4. Admitted'
    BY Zenon, <1>2, <1>3, <2>3 DEF Admitted, AdminMid, UsersInv, Still
  <2> QED BY Zenon, <1>1, <1>2, <1>4, <2>2, <2>4, CallMoves
<1>5. CASE Return(<<>>)
  <2>1. Current \in SQLUsers
    BY Zenon, <1>1, SQLCallers
  <2>2. <<>> \in Seq(CallNames) /\ Order(Current, <<>>) /\ ~Patches(<<>>)
    BY Zenon, <2>1, OtherOrder
  <2> QED BY Zenon, <1>1, <1>2, <1>3, <1>5, <2>1, <2>2, ChoiceMoves
<1> QED BY Zenon, <1>4, <1>5 DEF IsPassPropagated

\* The grants and the other calls before a rotation.
LEMMA ChoreMoves == ASSUME UsersInv, NEW c \in ChoreNames, Chore(c) PROVE Moves
<1>1. InUsers /\ calls # <<>> /\ Head(calls) = c /\ Return(Tail(calls))
  BY Zenon DEF Chore, Calling
<1>2. Still /\ UNCHANGED <<desired, happened, lapses, proxy>>
  BY Zenon DEF Chore, Still, history
<1>3. /\ calls' = Tail(calls) /\ calls' \in Seq(CallNames)
      /\ calls' # <<>> => Current' = Current
      /\ user' \in 0..(Len(UserNames) + 2)
  BY Zenon, <1>1, <1>2, TailFits DEF UsersInv, Still, ChoreNames
<1>4. NewTypes'
  BY Zenon, <1>2, <1>3 DEF NewTypes, UsersInv, UsersTypes
<1>5. ~AdminMid /\ Head(calls) \notin {"alter", "initFile", "patch", "add", "discard",
        "isPassPropagated"}
  BY Zenon, <1>1 DEF AdminMid, ChoreNames
<1>6. calls' # <<>> => Head(calls') # "patch"
  <2>1. calls \in Seq(CallNames) /\ Order(Current, calls)
    BY Zenon, <1>1 DEF UsersInv, UsersTypes, CallsFit
  <2>2. calls' # <<>> => Head(calls') \in Before \cup {"updateProxy"}
    BY Zenon, <1>1, <1>3, <2>1, NextCall
  <2> QED BY Zenon, <2>2 DEF Before, ChoreNames
<1>7. Admitted'
  BY Zenon, <1>2, <1>5, <1>6 DEF Admitted, AdminMid, UsersInv, Still
<1> QED BY Zenon, <1>1, <1>2, <1>4, <1>5, <1>7, CallMoves

\* The surroundings, and the goroutine that copies MySQL's users.
LEMMA OutsideMoves ==
    ASSUME UsersInv, ResyncPXCUsers \/ ResyncPod \/ HealthChanges \/ Recovers
    PROVE  Moves
<1>1. UsersTypes /\ CallsFit
  BY Zenon DEF UsersInv
<1>2. Still /\ UNCHANGED <<desired, happened, lapses, calls>>
  BY Zenon DEF ResyncPXCUsers, ResyncPod, HealthChanges, Recovers, Still, pass,
       history
<1>3. user' = user \/ (ResyncPXCUsers /\ calls = <<>>)
  BY <1>1, Known DEF ResyncPXCUsers, ResyncPod, HealthChanges, Recovers, pass,
       CallsFit
<1>4. /\ proxy' \in [1..ProxyPods -> [admin : PasswordOrNone, monitor : PasswordOrNone,
           root : PasswordOrNone]]
      /\ \A i \in 1..ProxyPods : proxy'[i].admin = proxy[i].admin
  <2>1. CASE UNCHANGED proxy
    BY Zenon, <1>1, <2>1 DEF UsersTypes
  <2>2. CASE ResyncPod
    <3>1. account["root"].cur \in PasswordOrNone
      BY Zenon, <1>1 DEF UsersTypes, SQLUsers
    <3> QED BY Zenon, <1>1, <2>2, <3>1 DEF ResyncPod, UsersTypes
  <2> QED BY Zenon, <2>1, <2>2 DEF ResyncPXCUsers, HealthChanges, Recovers
<1>5. user' \in 0..(Len(UserNames) + 2) /\ (user' # 0 <=> user # 0)
  BY <1>1, <1>3, Known DEF UsersTypes, ResyncPXCUsers
<1>6. NewTypes'
  BY Zenon, <1>1, <1>2, <1>4, <1>5 DEF NewTypes, UsersTypes
<1>7. calls # <<>> => Current' = Current /\ user' = user
  BY Zenon, <1>3 DEF Current
<1>8. CallsFit'
  BY Zenon, <1>1, <1>2, <1>7 DEF CallsFit, Same, Still
<1>9. (\A u \in SQLUsers : Mid(u)' <=> Mid(u)) /\ (AdminMid' <=> AdminMid)
        /\ (Discarding' <=> Discarding)
  BY Zenon, <1>2, <1>7 DEF Mid, AdminMid, Discarding
<1>10. Admitted'
  BY Zenon, <1>2, <1>4, <1>9 DEF UsersInv, Admitted, Still
<1>11. ~up => calls' = <<>>
  BY Zenon, <1>2 DEF UsersInv, Filled
<1> QED BY Zenon, <1>2, <1>5, <1>6, <1>8, <1>9, <1>10, <1>11 DEF Moves

-----------------------------------------------------------------------------
\* The calls that visit the ProxySQL pods.
ProxyTypes == [1..ProxyPods -> [admin : PasswordOrNone, monitor : PasswordOrNone,
  root : PasswordOrNone]]

\* Writing a password to the first j pods of ProxySQL.
LEMMA CredentialsWritten ==
    ASSUME proxy \in ProxyTypes, NEW field \in {"admin", "monitor", "root"},
             NEW p \in PasswordOrNone, NEW j \in Nat
    PROVE  /\ Credentials(field, p, j) \in ProxyTypes
           /\ \A i \in 1..ProxyPods :
                Credentials(field, p, j)[i].admin = IF field = "admin" /\ i <= j THEN p
                  ELSE proxy[i].admin
<1>1. ASSUME NEW i \in 1..ProxyPods
      PROVE  /\ [proxy[i] EXCEPT ![field] = p] \in [admin : PasswordOrNone,
                  monitor : PasswordOrNone, root : PasswordOrNone]
             /\ [proxy[i] EXCEPT ![field] = p].admin = IF field = "admin" THEN p
                  ELSE proxy[i].admin
  BY Zenon DEF ProxyTypes
<1> QED BY Zenon, <1>1 DEF Credentials, ProxyTypes

\* proxysql-admin --syncusers, in every pod or until one of them fails.
LEMMA SyncKeeps == ASSUME UsersInv, SyncPXCUsersWithProxySQL PROVE Ends \/ Moves
<1> DEFINE n == IF status = "ready" THEN Proxies ELSE 0
<1>1. InUsers /\ calls # <<>> /\ Head(calls) = "syncUsers" /\ Still
        /\ proxy \in ProxyTypes
  BY Zenon DEF SyncPXCUsersWithProxySQL, Calling, Still, UsersInv, UsersTypes,
       ProxyTypes
<1>2. n \in Nat
  BY Zenon, UsersAssumption DEF Proxies
<1>3. PICK j \in 0..n :
        /\ proxy' = Credentials("root", account["root"].cur, j)
        /\ \/ Return(Tail(calls))
                /\ UNCHANGED <<status, resync, desired, restart, history>>
           \/ Cut(FALSE)
  BY Zenon DEF SyncPXCUsersWithProxySQL
<1>4. j \in Nat /\ account["root"].cur \in PasswordOrNone
  BY <1>2 DEF UsersInv, UsersTypes, SQLUsers
<1>5. proxy' \in ProxyTypes /\ \A i \in 1..ProxyPods : proxy'[i].admin = proxy[i].admin
  BY Zenon, <1>1, <1>3, <1>4, CredentialsWritten
<1>6. CASE Cut(FALSE)
  BY Zenon, <1>1, <1>5, <1>6, CutEnds DEF ProxyTypes
<1>7. CASE Return(Tail(calls))
             /\ UNCHANGED <<status, resync, desired, restart, history>>
  <2>1. /\ calls' = Tail(calls) /\ calls' \in Seq(CallNames)
        /\ calls' # <<>> => Current' = Current
        /\ user' \in 0..(Len(UserNames) + 2)
    BY Zenon, <1>1, <1>7, TailFits DEF UsersInv, Still
  <2>2. NewTypes'
    BY Zenon, <1>5, <1>7, <2>1 DEF NewTypes, UsersInv, UsersTypes, ProxyTypes
  <2>3. Current = "root"
    BY Zenon, <1>1, FirstCall DEF UsersInv, CallsFit, UsersTypes
  <2>4. ~AdminMid /\ ~AdminMid'
    BY Zenon, <2>1, <2>3 DEF AdminMid
  <2>5. Admitted'
    BY Zenon, <1>1, <1>5, <1>7, <2>4 DEF Admitted, UsersInv, Still, history
  <2> QED BY Zenon, <1>1, <1>7, <2>2, <2>5, CallMoves DEF history
<1> QED BY Zenon, <1>3, <1>6, <1>7

\* The new password of monitor or proxyadmin, pod by pod, or until one fails.
LEMMA UpdateProxyKeeps == ASSUME UsersInv, UpdateProxyUser PROVE Ends \/ Moves
<1>1. InUsers /\ calls # <<>> /\ Head(calls) = "updateProxy" /\ Still
        /\ proxy \in ProxyTypes
  BY Zenon DEF UpdateProxyUser, Calling, Still, UsersInv, UsersTypes, ProxyTypes
<1>2. Proxies \in 0..ProxyPods /\ ProxyPods \in Nat /\ conf \in Confs
  BY UsersAssumption DEF Proxies, UsersInv, UsersTypes
<1>3. PICK j \in 0..Proxies :
        /\ \A i \in 1..j : Admits(i)
        /\ proxy' = Credentials(ProxyField, desired[Current], j)
        /\ \/ j = Proxies /\ Return(Tail(calls))
                /\ UNCHANGED <<status, resync, desired, restart, history>>
           \/ j < Proxies /\ ~Admits(j + 1) /\ EndWithError(FALSE)
                /\ UNCHANGED <<resync, edits, cuts, lapses>>
           \/ 0 < j /\ j < Proxies /\ Cut(Current = "proxyadmin")
  BY Zenon DEF UpdateProxyUser
<1>4. /\ j \in Nat /\ Order(Current, calls) /\ calls \in Seq(CallNames)
      /\ user \in 1..Len(UserNames) /\ up /\ desired \in [Names -> PasswordOrNone]
  BY <1>1, <1>2 DEF UsersInv, UsersTypes, CallsFit, InUsers
<1>5. Current \in {"monitor", "proxyadmin"} /\ ~AdminMid
  BY Zenon, <1>1, <1>4, FirstCall DEF AdminMid
<1>6. desired[Current] \in PasswordOrNone /\ ProxyField \in {"admin", "monitor", "root"}
  BY Zenon, <1>4, Known DEF Current, ProxyField
<1>7. /\ proxy' \in ProxyTypes
      /\ \A i \in 1..ProxyPods :
           proxy'[i].admin = IF ProxyField = "admin" /\ i <= j THEN desired[Current]
             ELSE proxy[i].admin
  BY Zenon, <1>1, <1>3, <1>4, <1>6, CredentialsWritten
<1>8. CASE j < Proxies /\ ~Admits(j + 1) /\ EndWithError(FALSE)
             /\ UNCHANGED <<resync, edits, cuts, lapses>>
  <2>1. "cut" \in happened
    <3>1. j + 1 \in 1..ProxyPods
      BY <1>2, <1>4, <1>8
    <3> QED BY Zenon, <1>4, <1>5, <1>8, <3>1 DEF UsersInv, Admitted, Admits
  <2>2. ~Mid("operator")
    BY Zenon, <1>5 DEF Mid
  <2>3. NewTypes' /\ user' = 0 /\ calls' = <<>>
    BY Zenon, <1>7, <1>8, NoPassTypes DEF EndWithError, NewTypes, ProxyTypes
  <2>4. happened \subseteq happened' /\ ("hurry" \in happened' => "hurry" \in happened)
    BY Zenon, <1>8 DEF EndWithError, Forgets
  <2> QED BY Zenon, <1>1, <1>8, <2>1, <2>2, <2>3, <2>4 DEF Ends
<1>9. CASE Cut(Current = "proxyadmin")
  BY Zenon, <1>1, <1>7, <1>9, CutEnds DEF ProxyTypes
<1>10. CASE j = Proxies /\ Return(Tail(calls))
              /\ UNCHANGED <<status, resync, desired, restart, history>>
  <2>1. /\ calls' = Tail(calls) /\ calls' \in Seq(CallNames)
        /\ calls' # <<>> => Current' = Current
        /\ user' \in 0..(Len(UserNames) + 2)
    BY Zenon, <1>1, <1>10, TailFits DEF UsersInv, Still
  <2>2. NewTypes'
    BY Zenon, <1>7, <1>10, <2>1 DEF NewTypes, UsersInv, UsersTypes, ProxyTypes
  <2>3. calls' # <<>> /\ Head(calls') = "patch"
    BY Zenon, <1>1, <1>4, <2>1, NextCall
  <2>4. Admitted'
    <3>1. CASE Current = "monitor"
      <4>1. ~AdminMid' /\ ProxyField = "monitor"
        BY Zenon, <2>1, <2>3, <3>1 DEF AdminMid, ProxyField
      <4> QED BY Zenon, <1>1, <1>5, <1>7, <1>10, <4>1 DEF Admitted, UsersInv,
           Still, history
    <3>2. CASE Current = "proxyadmin"
      <4>1. AdminMid' /\ ProxyField = "admin" /\ j = ProxyPods
        BY Zenon, <1>1, <1>10, <2>1, <2>3, <3>2 DEF AdminMid, ProxyField,
             Proxies, UsersInv, CallsFit
      <4> QED BY <1>2, <1>7, <1>10, <3>2, <4>1 DEF Admitted
    <3> QED BY Zenon, <1>5, <3>1, <3>2
  <2> QED BY Zenon, <1>1, <1>10, <2>2, <2>4, CallMoves DEF history
<1> QED BY Zenon, <1>3, <1>8, <1>9, <1>10

-----------------------------------------------------------------------------
\* The steps that change a password, or a copy of one.
LEMMA InitFits == ASSUME Init PROVE UsersInv
<1>1. UsersTypes
  <2>1. Nobody \in [Names -> PasswordOrNone] /\ None \in PasswordOrNone
          /\ Generated \in PasswordOrNone
    BY Zenon DEF Nobody, PasswordOrNone
  <2>2. secrets \in [Names -> PasswordOrNone] /\ internal \in [Names -> PasswordOrNone]
        /\ desired \in [Names -> PasswordOrNone]
    BY Zenon, <2>1 DEF Init
  <2>3. calls \in Seq(CallNames) /\ user \in 0..(Len(UserNames) + 2) /\ lapses \in Nat
    <3>1. calls = <<>> /\ user = 0 /\ lapses = 0
      BY Zenon DEF Init
    <3> QED BY <3>1, Known
  <2>5. up \in BOOLEAN /\ conf \in Confs
    BY Zenon DEF Init
  <2>4. /\ account \in [SQLUsers -> [cur : PasswordOrNone, old : PasswordOrNone]]
        /\ proxy \in [1..ProxyPods -> [admin : PasswordOrNone, monitor : PasswordOrNone,
             root : PasswordOrNone]]
        /\ initFile \in [SQLUsers -> PasswordOrNone]
        /\ mount \in [MountPods -> PasswordOrNone]
    BY Zenon, <2>1 DEF Init
  <2> QED BY Zenon, <2>2, <2>3, <2>4, <2>5 DEF UsersTypes
<1> QED BY Zenon, <1>1 DEF Init, UsersInv, Filled, CallsFit, Reads, LoginKept,
     Retained, Admitted, Mounted

\* Outside the users nothing is in between.
LEMMA IdleBetween ==
    ASSUME calls = <<>>
    PROVE  (\A u : ~Mid(u)) /\ ~AdminMid /\ ~Discarding
  BY Zenon DEF Mid, AdminMid, Discarding

\* Reading the secrets, with the passwords that are filled in.
LEMMA ReadKeeps == ASSUME UsersInv, ReconcileUsersSecret PROVE UsersInv'
<1>1. user = 0 /\ calls = <<>> /\ UsersTypes /\ Filled
  BY DEF ReconcileUsersSecret, UsersInv, CallsFit
<1>2. CASE UNCHANGED secrets /\ EndWithError(FALSE)
  <2>1. Ends
    BY Zenon, <1>1, <1>2, ErrorEnds DEF ReconcileUsersSecret, Still
  <2> QED BY Zenon, <2>1, EndsKeeps
<1>3. CASE /\ secrets' = SetUserSecretDefaults(secrets)
           /\ desired' = secrets' /\ user' = 1
           /\ UNCHANGED <<calls, restart, status, happened>>
  <2>1. UNCHANGED <<conf, internal, account, proxy, initFile, mount, up, lapses, calls,
          happened>>
    BY Zenon, <1>3 DEF ReconcileUsersSecret
  <2>2. secrets' \in [Names -> PasswordOrNone]
          /\ \A u \in Names \ PMMUsers : secrets'[u] # None
    BY Zenon, <1>1, <1>3, UsersAssumption DEF SetUserSecretDefaults, UsersTypes,
         PasswordOrNone
  <2>3. internal # Nobody => secrets' = secrets
    BY Zenon, <1>1, <1>3 DEF SetUserSecretDefaults, UsersTypes, Filled
  <2>4. UsersTypes'
    BY <1>1, <1>3, <2>1, <2>2, Known DEF UsersTypes
  <2>5. Filled' /\ CallsFit' /\ Reads'
    BY Zenon, <1>1, <1>3, <2>1, <2>2 DEF Filled, CallsFit, Reads
  <2>6. (\A u : ~Mid(u) /\ ~Mid(u)') /\ ~AdminMid /\ ~AdminMid'
    BY Zenon, <1>1, <2>1 DEF Mid, AdminMid
  <2>7. up => secrets' = secrets
    BY Zenon, <1>1, <2>3 DEF Filled
  <2>8. LoginKept'
    BY Zenon, <1>3, <2>1, <2>6, <2>7 DEF UsersInv, LoginKept
  <2>9. Retained' /\ Admitted'
    BY Zenon, <2>1, <2>6 DEF UsersInv, Retained, Admitted
  <2>10. Mounted'
    BY Zenon, <1>1, <2>1, <2>6, <2>7 DEF UsersInv, Mounted
  <2> QED BY Zenon, <2>4, <2>5, <2>8, <2>9, <2>10 DEF UsersInv
<1> QED BY Zenon, <1>2, <1>3 DEF ReconcileUsersSecret

\* The internal secret is created as a copy of the user's.
LEMMA CreateKeeps == ASSUME UsersInv, CreateInternalSecret PROVE UsersInv'
<1>1. user = 1 /\ calls = <<>> /\ ~up /\ ~up' /\ UsersTypes /\ Filled
  BY Zenon DEF CreateInternalSecret, UsersInv, Filled
<1>2. internal' = desired /\ NoPass
  BY Zenon DEF CreateInternalSecret, EndWithoutError
<1>3. user' = 0 /\ calls' = <<>> /\ desired' \in [Names -> PasswordOrNone]
      /\ user' \in 0..(Len(UserNames) + 2) /\ calls' \in Seq(CallNames)
  BY Zenon, <1>2, NoPassTypes
<1>4. UNCHANGED <<conf, secrets, account, proxy, initFile, mount, up, lapses, happened>>
  BY Zenon DEF CreateInternalSecret, history
<1>5. UsersTypes'
  BY Zenon, <1>1, <1>2, <1>3, <1>4 DEF UsersTypes
<1>6. Filled' /\ CallsFit' /\ Reads'
  BY <1>1, <1>2, <1>3, <1>4 DEF Filled, CallsFit, Reads
<1> QED BY Zenon, <1>1, <1>5, <1>6 DEF UsersInv, LoginKept, Retained, Admitted,
     Mounted

\* A call of another user than u leaves u where it was.
LEMMA OthersRest ==
    ASSUME calls # <<>>, Return(Tail(calls)), NEW u, Current # u
    PROVE  ~(calls # <<>> /\ Current = u) /\ ~(calls # <<>> /\ Current = u)'
  BY Zenon DEF Return, Current

\* ALTER USER: from here on MySQL is ahead of the internal secret.
LEMMA AlterKeeps == ASSUME UsersInv, Alter PROVE UsersInv'
<1>1. InUsers /\ calls # <<>> /\ Head(calls) = "alter" /\ UsersTypes /\ Filled
        /\ CallsFit
  BY Zenon DEF Alter, Calling, UsersInv
<1>2. /\ Current \in SQLUsers /\ Order(Current, calls) /\ user \in 1..Len(UserNames)
      /\ calls \in Seq(CallNames) /\ up
  BY Zenon, <1>1, SQLCallers
<1>3. CASE EndWithError(TRUE) /\ UNCHANGED account
  <2>1. Head(calls) \notin Between
    BY Zenon, <1>1 DEF Between
  <2>2. Ends
    BY Zenon, <1>3, <2>1, ErrorEnds DEF Alter, Still
  <2> QED BY Zenon, <2>2, EndsKeeps
<1>4. CASE /\ account' = [account EXCEPT ![Current] =
                            IF conf.dual THEN UpdateUserPass(@, desired[Current])
                            ELSE UpdateUserPassWithoutDP(@, desired[Current])]
           /\ Return(Tail(calls))
           /\ UNCHANGED <<status, desired, restart, happened>>
  <2>1. UNCHANGED <<conf, secrets, internal, proxy, initFile, mount, up, lapses,
          desired, happened>>
    BY Zenon, <1>4 DEF Alter
  <2>2. /\ CallsFit' /\ calls' = Tail(calls) /\ calls' \in Seq(CallNames)
        /\ user' \in 0..(Len(UserNames) + 2) /\ user' # 0
    BY Zenon, <1>1, <1>4, <2>1, TailFits
  <2>3. calls' # <<>> /\ Head(calls') = "initFile" /\ Current' = Current
    BY Zenon, <1>1, <1>2, <1>4, <2>2, NextCall, TailFits, <2>1
  <2>4. desired[Current] \in PasswordOrNone
    BY Zenon, <1>1, <1>2, Known DEF UsersTypes
  <2>5. /\ account' \in [SQLUsers -> [cur : PasswordOrNone, old : PasswordOrNone]]
        /\ account'[Current].cur = desired[Current]
        /\ conf.dual => account'[Current].old = account[Current].cur
        /\ \A u \in SQLUsers \ {Current} : account'[u] = account[u]
    BY Zenon, <1>1, <1>2, <1>4, <2>4 DEF UsersTypes, UpdateUserPass,
         UpdateUserPassWithoutDP
  <2>6. UsersTypes'
    BY Zenon, <1>1, <2>1, <2>2, <2>5 DEF UsersTypes
  <2>7. Filled' /\ Reads'
    BY <1>1, <1>2, <2>1, <2>2 DEF Filled, Reads, UsersInv
  <2>8. \A u : ~Mid(u) /\ (Mid(u)' <=> u = Current)
    BY Zenon, <1>1, <2>3 DEF Mid, Between
  <2>9. ~AdminMid /\ ~AdminMid' /\ ~Discarding'
    BY Zenon, <1>1, <2>3 DEF AdminMid, Discarding
  <2>10. LoginKept'
    BY <2>1, <2>2, <2>5, <2>8, Known, <1>2 DEF LoginKept, UsersInv
  <2>11. Retained'
    BY <2>1, <2>3, <2>5, <2>8, <1>2 DEF Retained, UsersInv
  <2>12. Admitted'
    BY Zenon, <2>1, <2>9 DEF Admitted, UsersInv
  <2>13. Mounted'
    <3>1. CASE Current = "monitor"
      <4>1. ~Same("monitor")
        <5>1. \E i \in 1..Len(calls) : calls[i] = "patch"
          BY Zenon, <1>1, <1>2, MidPatches DEF Patches
        <5> QED BY Zenon, <1>1, <1>2, <3>1, <5>1 DEF CallsFit, Patches
      <4>2. "hurry" \notin happened => secrets["monitor"] # internal["monitor"]
        BY <1>1, <1>2, <4>1, Known DEF Same, Reads, UsersInv
      <4> QED BY Zenon, <2>1, <4>2 DEF Mounted, UsersInv
    <3>2. CASE Current # "monitor"
      BY Zenon, <2>1, <2>5, <2>8, <2>9, <3>2, Known DEF Mounted, UsersInv,
           Discarding
    <3> QED BY Zenon, <3>1, <3>2
  <2> QED BY Zenon, <2>2, <2>6, <2>7, <2>10, <2>11, <2>12, <2>13 DEF UsersInv
<1> QED BY Zenon, <1>3, <1>4 DEF Alter

\* The file of ALTER statements that a starting node runs.
LEMMA InitFileKeeps == ASSUME UsersInv, UpdateMySQLInitFile PROVE UsersInv'
<1>1. InUsers /\ calls # <<>> /\ Head(calls) = "initFile" /\ UsersTypes /\ Filled
        /\ CallsFit /\ Return(Tail(calls))
  BY Zenon DEF UpdateMySQLInitFile, Calling, UsersInv
<1>2. /\ Current \in SQLUsers /\ Order(Current, calls) /\ user \in 1..Len(UserNames)
      /\ calls \in Seq(CallNames) /\ up
  BY Zenon, <1>1, SQLCallers
<1>3. UNCHANGED <<conf, secrets, internal, account, proxy, mount, up, lapses, desired,
        happened>>
  BY Zenon DEF UpdateMySQLInitFile, history
<1>4. /\ CallsFit' /\ calls' = Tail(calls) /\ calls' \in Seq(CallNames)
      /\ (calls' # <<>> => Current' = Current)
      /\ user' \in 0..(Len(UserNames) + 2) /\ user' # 0
  BY Zenon, <1>1, <1>3, TailFits
<1>5. calls' # <<>> /\ Head(calls') \in Between \ {"initFile"} /\ Current' = Current
  BY Zenon, <1>1, <1>2, <1>4, NextCall
<1>6. /\ initFile' \in [SQLUsers -> PasswordOrNone]
      /\ initFile'[Current] = desired[Current]
      /\ \A u \in SQLUsers \ {Current} : initFile'[u] = initFile[u]
  BY Zenon, <1>1, <1>2, Known DEF UpdateMySQLInitFile, UsersTypes
<1>7. UsersTypes'
  BY Zenon, <1>1, <1>3, <1>4, <1>6 DEF UsersTypes
<1>8. Filled' /\ Reads'
  BY <1>1, <1>2, <1>3, <1>4 DEF Filled, Reads, UsersInv
<1>9. \A u : (Mid(u) <=> u = Current) /\ (Mid(u)' <=> u = Current)
  BY Zenon, <1>1, <1>5 DEF Mid, Between
<1>10. ~AdminMid /\ ~AdminMid' /\ ~Discarding'
  BY Zenon, <1>1, <1>2, <1>5 DEF AdminMid, Discarding, SQLUsers, Between
<1>11. LoginKept'
  BY <1>3, <1>4, <1>9, <1>2 DEF LoginKept, UsersInv
<1>12. Retained'
  BY Zenon, <1>1, <1>2, <1>3, <1>5, <1>6, <1>9 DEF Retained, UsersInv
<1>13. Admitted'
  BY Zenon, <1>3, <1>10 DEF Admitted, UsersInv
<1>14. Mounted'
  BY Zenon, <1>3, <1>9, <1>10 DEF Mounted, UsersInv, Discarding
<1> QED BY Zenon, <1>4, <1>7, <1>8, <1>11, <1>12, <1>13, <1>14 DEF UsersInv

\* The internal secret takes over a password of the pass.
LEMMA RecordFits ==
    ASSUME UsersInv, InUsers, calls # <<>>, Head(calls) \in {"patch", "add"},
             Return(Tail(calls)),
           internal' = [internal EXCEPT ![Current] = desired[Current]],
           UNCHANGED <<conf, secrets, account, proxy, initFile, mount, up, desired,
             happened>>,
           lapses' \in {0, lapses}
    PROVE  /\ UsersTypes' /\ Filled' /\ CallsFit' /\ Reads'
           /\ calls' = Tail(calls) /\ user \in 1..Len(UserNames) /\ Current \in Names
           /\ up /\ Order(Current, calls) /\ calls \in Seq(CallNames)
           /\ calls' # <<>> => Current' = Current
           /\ internal'[Current] = desired[Current]
           /\ \A u \in Names \ {Current} : internal'[u] = internal[u]
<1>1. /\ user \in 1..Len(UserNames) /\ Current \in Names /\ up /\ internal # Nobody
      /\ Order(Current, calls) /\ calls \in Seq(CallNames) /\ UsersTypes /\ CallsFit
      /\ Filled
  BY Zenon, Known DEF InUsers, Current, UsersInv, UsersTypes, CallsFit
<1>2. calls' = Tail(calls) /\ user' = IF calls' = <<>> THEN user + 1 ELSE user
  BY Zenon DEF Return
<1>3. calls' # <<>> => Current' = Current /\ user' = user
  BY Zenon, <1>2 DEF Current
<1>4. /\ internal' \in [Names -> PasswordOrNone]
      /\ internal'[Current] = desired[Current]
      /\ \A u \in Names \ {Current} : internal'[u] = internal[u]
  BY Zenon, <1>1 DEF UsersTypes
<1>5. /\ Tail(calls) \in Seq(CallNames) /\ Order(Current, Tail(calls))
      /\ Patches(Tail(calls)) => Patches(calls) /\ Head(calls) # "patch"
  BY Zenon, <1>1, TailOrder
<1>6. user' \in 1..(Len(UserNames) + 1) /\ user' \in 0..(Len(UserNames) + 2)
        /\ user' # 0
  <2>1. Len(UserNames) \in Nat /\ user \in 1..Len(UserNames)
          /\ (user' = user \/ user' = user + 1)
    BY Zenon, <1>1, <1>2, Known
  <2> QED BY <2>1
<1>7. UsersTypes'
  <2>1. lapses' \in Nat
    BY <1>1 DEF UsersTypes
  <2> QED BY Zenon, <1>1, <1>2, <1>4, <1>5, <1>6, <2>1 DEF UsersTypes
<1>8. Filled'
  <2>1. "operator" \in Names \ PMMUsers /\ Nobody["operator"] = None
    BY Zenon, Known DEF Nobody
  <2>2. \A u \in Names \ PMMUsers : internal'[u] # None
    BY <1>1, <1>4 DEF Filled
  <2>3. internal' # Nobody
    BY Zenon, <2>1, <2>2
  <2>4. user # 0
    BY <1>1, Known
  <2>5. up' /\ UNCHANGED <<desired, secrets>>
    BY Zenon, <1>1
  <2> QED BY Zenon, <1>1, <2>2, <2>3, <2>4, <2>5 DEF Filled
<1>9. CallsFit'
  <2>1. ASSUME Current \in SQLUsers, calls' # <<>>
        PROVE  Head(calls) = "patch" /\ Same(Current)'
    <3>1. Head(calls) # "add"
      BY Zenon, <1>1, <2>1, FirstCall DEF Before, Between, After, ChoreNames
    <3>2. desired'[Current] = internal'[Current]
      BY Zenon, <1>4
    <3> QED BY Zenon, <1>3, <2>1, <3>1, <3>2 DEF Same
  <2> QED BY Zenon, <1>1, <1>2, <1>3, <1>5, <2>1 DEF CallsFit
<1>10. Reads'
  BY <1>1, <1>4 DEF Reads, UsersInv
<1> QED BY Zenon, <1>1, <1>2, <1>3, <1>4, <1>7, <1>8, <1>9, <1>10

\* A key that the internal secret lacked is added.
LEMMA AddKeeps == ASSUME UsersInv, AddKey PROVE UsersInv'
<1>1. InUsers /\ calls # <<>> /\ Head(calls) = "add" /\ Return(Tail(calls))
  BY Zenon DEF AddKey, Calling
<1>2. UNCHANGED <<conf, secrets, account, proxy, initFile, mount, up, lapses, desired,
        happened>>
  BY Zenon DEF AddKey, history
<1>3. /\ UsersTypes' /\ Filled' /\ CallsFit' /\ Reads'
      /\ calls' = Tail(calls) /\ Order(Current, calls) /\ calls \in Seq(CallNames)
      /\ calls' # <<>> => Current' = Current
      /\ \A u \in Names \ {Current} : internal'[u] = internal[u]
  BY Zenon, <1>1, <1>2, RecordFits DEF AddKey
<1>4. Current \notin SQLUsers \cup {"proxyadmin"}
  BY Zenon, <1>1, <1>3, FirstCall DEF Before, Between, After, ChoreNames
<1>5. \A u \in SQLUsers \cup {"proxyadmin"} : internal'[u] = internal[u]
  BY Zenon, <1>3, <1>4, Known
<1>6. (\A u \in SQLUsers : ~Mid(u) /\ ~Mid(u)') /\ ~AdminMid /\ ~AdminMid'
        /\ ~Discarding'
  BY Zenon, <1>3, <1>4, Known DEF Mid, AdminMid, Discarding
<1>7. LoginKept'
  BY <1>1, <1>2, <1>5, <1>6, Known DEF LoginKept, UsersInv, InUsers
<1>8. Retained'
  BY Zenon, <1>2, <1>5, <1>6 DEF Retained, UsersInv
<1>9. Admitted'
  BY Zenon, <1>2, <1>5, <1>6 DEF Admitted, UsersInv
<1>10. Mounted'
  BY Zenon, <1>2, <1>5, <1>6, Known DEF Mounted, UsersInv, Discarding
<1> QED BY Zenon, <1>3, <1>7, <1>8, <1>9, <1>10 DEF UsersInv

\* The patch of the internal secret: it agrees with MySQL again.
LEMMA PatchKeeps == ASSUME UsersInv, Patch PROVE UsersInv'
<1>1. InUsers /\ calls # <<>> /\ Head(calls) = "patch" /\ Return(Tail(calls))
  BY Zenon DEF Patch, Calling
<1>2. UNCHANGED <<conf, secrets, account, proxy, initFile, mount, up, desired,
        happened>>
  BY Zenon DEF Patch
<1>3. /\ UsersTypes' /\ Filled' /\ CallsFit' /\ Reads'
      /\ calls' = Tail(calls) /\ user \in 1..Len(UserNames) /\ Current \in Names
      /\ up /\ Order(Current, calls) /\ calls \in Seq(CallNames)
      /\ calls' # <<>> => Current' = Current
      /\ internal'[Current] = desired[Current]
      /\ \A u \in Names \ {Current} : internal'[u] = internal[u]
  BY Zenon, <1>1, <1>2, RecordFits DEF Patch
<1>4. calls' # <<>> => Head(calls') \in After
  BY Zenon, <1>1, <1>3, NextCall
<1>5. \A u : (Mid(u) <=> u = Current) /\ ~Mid(u)'
  BY Zenon, <1>1, <1>4 DEF Mid, Between, After
<1>6. (AdminMid <=> Current = "proxyadmin") /\ ~AdminMid'
  BY Zenon, <1>1, <1>4 DEF AdminMid, After
<1>7. ~Discarding'
  BY <1>1, <1>3, NextCall DEF Discarding
<1>8. UsersTypes /\ Filled /\ user # 0
  BY <1>3, Known DEF UsersInv
<1>9. LoginKept'
  <2>1. CASE Current = "operator"
    <3>1. lapses' = 0 /\ account["operator"].cur = internal'["operator"]
            /\ UNCHANGED <<account, up>>
      BY Zenon, <1>2, <1>3, <1>5, <2>1 DEF Patch, LoginKept, UsersInv
    <3> QED BY <1>5, <3>1 DEF LoginKept
  <2>2. CASE Current # "operator"
    <3>1. lapses' = lapses /\ internal'["operator"] = internal["operator"]
      BY Zenon, <1>3, <2>2, Known DEF Patch
    <3> QED BY Zenon, <1>2, <1>5, <1>8, <2>2, <3>1 DEF LoginKept, UsersInv
  <2> QED BY Zenon, <2>1, <2>2
<1>10. Retained'
  <2> SUFFICES ASSUME up, conf.dual, "cut" \notin happened, NEW u \in SQLUsers
               PROVE  account[u].cur = internal'[u]
                        /\ initFile[u] \in {None, internal'[u]}
    BY Zenon, <1>2, <1>5 DEF Retained
  <2>1. CASE u = Current
    BY Zenon, <1>1, <1>3, <1>5, <2>1 DEF Retained, UsersInv
  <2>2. CASE u # Current
    BY Zenon, <1>3, <1>5, <2>2, Known DEF Retained, UsersInv
  <2> QED BY Zenon, <2>1, <2>2
<1>11. Admitted'
  <2> SUFFICES ASSUME up, "cut" \notin happened, NEW i \in 1..ProxyPods
               PROVE  proxy[i].admin = internal'["proxyadmin"]
    BY Zenon, <1>2, <1>6 DEF Admitted
  <2>1. CASE Current = "proxyadmin"
    BY Zenon, <1>3, <1>6, <2>1 DEF Admitted, UsersInv
  <2>2. CASE Current # "proxyadmin"
    BY Zenon, <1>3, <1>6, <2>2, Known DEF Admitted, UsersInv
  <2> QED BY Zenon, <2>1, <2>2
<1>12. Mounted'
  <2> SUFFICES ASSUME up, conf.dual, happened \cap {"cut", "hurry"} = {},
                        NEW p \in MountPods
               PROVE  \/ mount[p] = internal'["monitor"]
                      \/ /\ mount[p] = account["monitor"].old /\ mount[p] # None
                         /\ secrets["monitor"] = internal'["monitor"]
    BY Zenon, <1>2, <1>5, <1>7 DEF Mounted, Discarding
  <2>1. CASE Current = "monitor"
    <3>1. mount[p] = internal["monitor"]
      BY Zenon, <1>5, <2>1 DEF Mounted, UsersInv
    <3>2. account["monitor"].old = internal["monitor"]
      BY Zenon, <1>5, <2>1, Known DEF Retained, UsersInv
    <3>3. internal["monitor"] # None
      BY Zenon, <1>1, <1>8, Known DEF InUsers, Filled
    <3>4. ~Same("monitor")
      BY Zenon, <1>5, <1>8, <2>1, MidChanges, Known DEF UsersInv
    <3>5. desired["monitor"] = secrets["monitor"]
      BY Zenon, <1>8, <3>4, Known DEF Same, Reads, UsersInv
    <3> QED BY Zenon, <1>3, <2>1, <3>1, <3>2, <3>3, <3>5
  <2>2. CASE Current # "monitor"
    <3>1. internal'["monitor"] = internal["monitor"]
      BY Zenon, <1>3, <2>2, Known
    <3> QED BY Zenon, <3>1 DEF Mounted, UsersInv
  <2> QED BY Zenon, <2>1, <2>2
<1> QED BY Zenon, <1>3, <1>9, <1>10, <1>11, <1>12 DEF UsersInv

\* DISCARD OLD PASSWORD: no pod mounts it any more.
LEMMA DiscardKeeps == ASSUME UsersInv, DiscardOldPassword PROVE UsersInv'
<1>1. InUsers /\ calls # <<>> /\ Head(calls) = "discard" /\ UsersTypes /\ Filled
        /\ CallsFit /\ Return(Tail(calls))
  BY Zenon DEF DiscardOldPassword, Calling, UsersInv
<1>2. /\ Current \in SQLUsers /\ Order(Current, calls) /\ user \in 1..Len(UserNames)
      /\ calls \in Seq(CallNames) /\ up
  BY Zenon, <1>1, SQLCallers
<1>3. UNCHANGED <<conf, secrets, internal, proxy, initFile, mount, up, lapses, desired,
        happened>>
  BY Zenon DEF DiscardOldPassword, history
<1>4. /\ CallsFit' /\ calls' = Tail(calls) /\ calls' \in Seq(CallNames)
      /\ (calls' # <<>> => Current' = Current)
      /\ user' \in 0..(Len(UserNames) + 2) /\ user' # 0
  BY Zenon, <1>1, <1>3, TailFits
<1>5. calls' # <<>> => Head(calls') \in After
  BY Zenon, <1>1, <1>2, <1>4, NextCall DEF After
<1>6. /\ account' \in [SQLUsers -> [cur : PasswordOrNone, old : PasswordOrNone]]
      /\ \A u \in SQLUsers : account'[u].cur = account[u].cur
           /\ (u # Current => account'[u] = account[u])
  BY Zenon, <1>1, <1>2 DEF DiscardOldPassword, UsersTypes, PasswordOrNone
<1>7. UsersTypes'
  BY Zenon, <1>1, <1>3, <1>4, <1>6 DEF UsersTypes
<1>8. Filled' /\ Reads'
  BY <1>1, <1>2, <1>3, <1>4, Known DEF Filled, Reads, UsersInv
<1>9. \A u : ~Mid(u) /\ ~Mid(u)'
  BY Zenon, <1>1, <1>5 DEF Mid, Between, After
<1>10. ~AdminMid /\ ~AdminMid'
  BY Zenon, <1>1, <1>5 DEF AdminMid, After
<1>11. Same(Current) /\ user # 0
  BY <1>1, <1>2, Known DEF CallsFit, After
<1>12. LoginKept'
  <2>1. Current = "operator" => ~(lapses = 1 /\ conf.dual /\ "hurry" \notin happened)
    BY Zenon, <1>2, <1>11 DEF LoginKept, UsersInv, Same
  <2> QED BY Zenon, <1>3, <1>6, <1>9, <1>11, <2>1, Known DEF LoginKept, UsersInv
<1>13. Retained'
  BY Zenon, <1>3, <1>6, <1>9 DEF Retained, UsersInv
<1>14. Admitted'
  BY Zenon, <1>3, <1>10 DEF Admitted, UsersInv
<1>15. Mounted'
  <2>1. CASE Current = "monitor"
    BY Zenon, <1>1, <1>3, <2>1 DEF Mounted, UsersInv
  <2>2. CASE Current # "monitor"
    BY Zenon, <1>3, <1>4, <1>6, <1>9, <2>2, Known DEF Mounted, UsersInv
  <2> QED BY Zenon, <2>1, <2>2
<1> QED BY Zenon, <1>4, <1>7, <1>8, <1>12, <1>13, <1>14, <1>15 DEF UsersInv

\* The first node starts with the passwords of the internal secret.
LEMMA BootstrapKeeps == ASSUME UsersInv, Bootstrap PROVE UsersInv'
<1>1. /\ ~up /\ up' /\ internal # Nobody /\ UsersTypes /\ Filled
      /\ UNCHANGED <<conf, secrets, internal, initFile, desired, user, calls, lapses,
           happened>>
  BY Zenon DEF Bootstrap, UsersInv, pass, history
<1>2. calls = <<>> /\ lapses = 0 /\ \A u \in SQLUsers : initFile[u] = None
  BY Zenon, <1>1 DEF Filled
<1>3. /\ \A u \in SQLUsers : account'[u].cur = internal[u]
      /\ \A i \in 1..ProxyPods : proxy'[i].admin = internal["proxyadmin"]
      /\ \A p \in MountPods : mount'[p] = internal["monitor"]
  BY Zenon DEF Bootstrap
<1>4. \A u \in SQLUsers \cup {"proxyadmin"} : internal[u] \in PasswordOrNone
  BY Zenon, <1>1, Known DEF UsersTypes
<1>5. /\ account' \in [SQLUsers -> [cur : PasswordOrNone, old : PasswordOrNone]]
      /\ proxy' \in ProxyTypes /\ mount' \in [MountPods -> PasswordOrNone]
      /\ up' \in BOOLEAN
  BY Zenon, <1>4, Known DEF Bootstrap, ProxyTypes, PasswordOrNone, SQLUsers
<1>6. UsersTypes'
  BY Zenon, <1>1, <1>5 DEF UsersTypes, ProxyTypes
<1>7. Filled' /\ CallsFit' /\ Reads'
  BY Zenon, <1>1, <1>2 DEF Filled, CallsFit, Reads, UsersInv
<1>8. (\A u : ~Mid(u)') /\ ~AdminMid'
  BY Zenon, <1>1, <1>2 DEF Mid, AdminMid
<1>9. LoginKept' /\ Retained'
  BY <1>1, <1>2, <1>3, <1>8, Known DEF LoginKept, Retained
<1>10. Admitted' /\ Mounted'
  BY Zenon, <1>1, <1>3, <1>8 DEF Admitted, Mounted
<1> QED BY Zenon, <1>6, <1>7, <1>9, <1>10 DEF UsersInv

\* The kubelet refreshes a mount, mysqld removes the file it has run, the user
\* edits the secret.
LEMMA SurroundingsKeep ==
    ASSUME UsersInv,
           \/ RemoveInitFile
           \/ \E p \in MountPods : RefreshMount(p)
           \/ \E u \in conf.edited, p \in conf.passwords : EditSecret(u, p)
    PROVE  UsersInv'
<1>1. UNCHANGED <<conf, internal, account, proxy, up, desired, user, calls, lapses>>
  BY Zenon DEF RemoveInitFile, RefreshMount, EditSecret, pass, history
<1>2. CallsFit' /\ \A u : (Mid(u)' <=> Mid(u)) /\ (AdminMid' <=> AdminMid)
  BY Zenon, <1>1 DEF UsersInv, CallsFit, Same, Current, Mid, AdminMid
<1>3. CASE RemoveInitFile
  <2>1. initFile' = [u \in SQLUsers |-> None] /\ UNCHANGED <<secrets, mount, happened>>
    BY Zenon, <1>3 DEF RemoveInitFile, history
  <2>2. UsersTypes' /\ Filled' /\ Reads'
    BY Zenon, <1>1, <2>1 DEF UsersInv, UsersTypes, Filled, Reads, PasswordOrNone
  <2>3. LoginKept' /\ Admitted'
    BY Zenon, <1>1, <1>2, <2>1 DEF UsersInv, LoginKept, Admitted
  <2>4. Retained'
    BY Zenon, <1>1, <1>2, <2>1 DEF UsersInv, Retained
  <2>5. Mounted'
    BY Zenon, <1>1, <1>2, <2>1 DEF UsersInv, Mounted, Current
  <2> QED BY Zenon, <1>2, <2>2, <2>3, <2>4, <2>5 DEF UsersInv
<1>4. CASE \E p \in MountPods : RefreshMount(p)
  <2>1. PICK p \in MountPods : RefreshMount(p)
    BY Zenon, <1>4
  <2>2. UNCHANGED <<secrets, initFile, happened>>
    BY Zenon, <2>1 DEF RefreshMount, history
  <2>3. mount' \in [MountPods -> PasswordOrNone]
          /\ \A q \in MountPods : mount'[q] \in {mount[q], internal["monitor"]}
    BY Zenon, <2>1, Known DEF RefreshMount, UsersInv, UsersTypes
  <2>4. UsersTypes' /\ Filled' /\ Reads'
    BY Zenon, <1>1, <2>2, <2>3 DEF UsersInv, UsersTypes, Filled, Reads
  <2>5. LoginKept' /\ Admitted' /\ Retained'
    BY Zenon, <1>1, <1>2, <2>2 DEF UsersInv, LoginKept, Admitted, Retained
  <2>6. Mounted'
    BY Zenon, <1>1, <1>2, <2>2, <2>3 DEF UsersInv, Mounted, Current
  <2> QED BY Zenon, <1>2, <2>4, <2>5, <2>6 DEF UsersInv
<1>5. CASE \E u \in conf.edited, p \in conf.passwords : EditSecret(u, p)
  <2>1. PICK u \in conf.edited, p \in conf.passwords : EditSecret(u, p)
    BY Zenon, <1>5
  <2>2. u \in Names /\ p \in PasswordOrNone /\ p # None
    BY Zenon, <2>1, UsersAssumption DEF UsersInv, UsersTypes, PasswordOrNone
  <2>3. /\ UNCHANGED <<initFile, mount>> /\ up
        /\ secrets' = [secrets EXCEPT ![u] = p]
        /\ happened' \cap {"cut", "hurry"} = (happened \cap {"cut", "hurry"})
             \cup (IF Unfinished(u) THEN {"hurry"} ELSE {})
    BY Zenon, <2>1 DEF EditSecret
  <2>4. secrets' \in [Names -> PasswordOrNone]
          /\ \A v \in Names : secrets'[v] = IF v = u THEN p ELSE secrets[v]
    BY Zenon, <2>2, <2>3 DEF UsersInv, UsersTypes
  <2>5. ("cut" \in happened' <=> "cut" \in happened)
          /\ ("hurry" \in happened' <=> "hurry" \in happened \/ Unfinished(u))
    BY <2>3
  <2>6. UsersTypes' /\ Filled'
    BY Zenon, <1>1, <2>2, <2>3, <2>4 DEF UsersInv, UsersTypes, Filled
  <2>7. Reads'
    BY Zenon, <1>1, <2>4, <2>5 DEF UsersInv, Reads, Unfinished
  <2>8. LoginKept'
    BY Zenon, <1>1, <1>2, <2>3, <2>4, <2>5, Known DEF UsersInv, LoginKept,
         Unfinished
  <2>9. Admitted' /\ Retained'
    BY Zenon, <1>1, <1>2, <2>3, <2>5 DEF UsersInv, Admitted, Retained
  <2>10. Mounted'
    BY Zenon, <1>1, <1>2, <2>3, <2>4, <2>5, Known DEF UsersInv, Mounted,
         Current, Unfinished
  <2> QED BY Zenon, <1>2, <2>6, <2>7, <2>8, <2>9, <2>10 DEF UsersInv
<1> QED BY Zenon, <1>3, <1>4, <1>5

\* A step of something else changes nothing here.
LEMMA StutterKeeps == ASSUME UsersInv, UNCHANGED vars PROVE UsersInv'
<1>1. UNCHANGED <<conf, secrets, internal, account, proxy, initFile, mount, up, desired,
        user, calls, lapses, happened>>
  BY Zenon DEF vars, world, pass, history
<1>2. \A u : (Mid(u)' <=> Mid(u)) /\ (AdminMid' <=> AdminMid)
  BY Zenon, <1>1 DEF Mid, AdminMid, Current
<1>3. UsersTypes' /\ Filled' /\ Reads' /\ CallsFit'
  BY Zenon, <1>1 DEF UsersInv, UsersTypes, Filled, Reads, CallsFit, Same,
       Current
<1>4. LoginKept' /\ Admitted' /\ Retained' /\ Mounted'
  BY Zenon, <1>1, <1>2 DEF UsersInv, LoginKept, Admitted, Retained, Mounted,
       Current
<1> QED BY Zenon, <1>3, <1>4 DEF UsersInv

-----------------------------------------------------------------------------
\* Every step of the operator, of a pod, of the kubelet and of the user keeps
\* the invariant.
LEMMA UsersInvariant == Spec => []UsersInv
<1>1. Init => UsersInv
  BY Zenon, InitFits
<1>2. ASSUME UsersInv, [Next]_vars PROVE UsersInv'
  <2>1. CASE UNCHANGED vars
    BY Zenon, <1>2, <2>1, StutterKeeps
  <2>2. CASE VersionNotReady \/ ConnectionRefused \/ CutShort \/ Deploy
               \/ \E c \in ChoreNames : ChoreCutShort(c)
    BY Zenon, <1>2, <2>2, EndingSteps, EndsKeeps
  <2>3. CASE Handle \/ IsOldPasswordDiscarded \/ IsPassPropagated
    BY Zenon, <1>2, <2>3, HandleMoves, LookMoves, WaitMoves, MovesKeeps
  <2>4. CASE \E c \in ChoreNames : Chore(c)
    BY Zenon, <1>2, <2>4, ChoreMoves, MovesKeeps
  <2>5. CASE ResyncPXCUsers \/ ResyncPod \/ HealthChanges \/ Recovers
    BY Zenon, <1>2, <2>5, OutsideMoves, MovesKeeps
  <2>6. CASE SyncPXCUsersWithProxySQL \/ UpdateProxyUser
    BY Zenon, <1>2, <2>6, SyncKeeps, UpdateProxyKeeps, EndsKeeps, MovesKeeps
  <2>7. CASE ReconcileUsersSecret \/ CreateInternalSecret
    BY Zenon, <1>2, <2>7, ReadKeeps, CreateKeeps
  <2>8. CASE Alter \/ UpdateMySQLInitFile
    BY Zenon, <1>2, <2>8, AlterKeeps, InitFileKeeps
  <2>9. CASE Patch \/ AddKey \/ DiscardOldPassword
    BY Zenon, <1>2, <2>9, PatchKeeps, AddKeeps, DiscardKeeps
  <2>10. CASE Bootstrap
    BY Zenon, <1>2, <2>10, BootstrapKeeps
  <2>11. CASE \/ RemoveInitFile \/ \E p \in MountPods : RefreshMount(p)
              \/ \E u \in conf.edited, p \in conf.passwords : EditSecret(u, p)
    BY Zenon, <1>2, <2>11, SurroundingsKeep
  <2> QED BY Zenon, <1>2, <2>1, <2>2, <2>3, <2>4, <2>5, <2>6, <2>7, <2>8, <2>9,
       <2>10, <2>11 DEF Next, Reconcile
<1> QED BY <1>1, <1>2, PTL DEF Spec

\* Every login of users.go as "operator" is accepted while MySQL answers, unless
\* two passes in a row were cut between the ALTER USER and the patch of the
\* internal secret (one, without dual passwords or after a hasty edit): for any
\* passwords, any number of edits, cuts and pods.
THEOREM LoginNeverLost == Spec => []OperatorConnects
<1>1. ASSUME UsersInv PROVE OperatorConnects
  <2> SUFFICES ASSUME NeedsConnection, health # "down",
                      lapses = 0 \/ (lapses = 1 /\ conf.dual /\ "hurry" \notin happened)
               PROVE  Connects
    BY <1>1 DEF OperatorConnects, UsersInv, UsersTypes
  <2>1. up /\ internal # Nobody /\ ~Mid("operator")
    BY Zenon DEF NeedsConnection, InUsers, Mid, Between, SQLCalls
  <2>2. internal["operator"] # None
    BY Zenon, <1>1, <2>1, Known DEF UsersInv, Filled
  <2>3. internal["operator"] \in {account["operator"].cur, account["operator"].old}
    BY Zenon, <1>1, <2>1 DEF UsersInv, LoginKept
  <2> QED BY Zenon, <2>2, <2>3 DEF Connects, Accepted
<1> QED BY <1>1, UsersInvariant, PTL

\* What dual passwords are for: the password of the monitor that a pod still
\* mounts is accepted, while no pass is cut and no edit comes before the last
\* one has gone through.
THEOREM MountsStayValid == Spec => []MountedPasswordAccepted
<1>1. ASSUME UsersInv PROVE MountedPasswordAccepted
  <2> SUFFICES ASSUME up, conf.dual, happened \cap {"cut", "hurry"} = {},
                        NEW p \in MountPods
               PROVE  mount[p] \in Accepted("monitor")
    BY Zenon DEF MountedPasswordAccepted
  <2>1. internal["monitor"] # None
    BY Zenon, <1>1, Known DEF UsersInv, Filled
  <2>2. internal["monitor"] \in {account["monitor"].cur, account["monitor"].old}
    BY Zenon, <1>1, Known DEF UsersInv, Retained
  <2>3. mount[p] = internal["monitor"]
          \/ (mount[p] = account["monitor"].old /\ mount[p] # None)
    BY Zenon, <1>1 DEF UsersInv, Mounted
  <2> QED BY Zenon, <2>1, <2>2, <2>3 DEF Accepted
<1> QED BY <1>1, UsersInvariant, PTL

\* A node that starts and runs mysql-init accepts the passwords of the internal
\* secret, while no pass is cut, however fast the secret is edited.
THEOREM StartingNodeAccepts == Spec => []NodeStartAccepts
<1>1. ASSUME UsersInv PROVE NodeStartAccepts
  <2> SUFFICES ASSUME up, conf.dual, "cut" \notin happened, NEW u \in SQLUsers
               PROVE  internal[u] \in {IF initFile[u] = None THEN account[u].cur
                        ELSE initFile[u], account[u].old}
    BY Zenon DEF NodeStartAccepts
  <2> QED BY Zenon, <1>1 DEF UsersInv, Retained
<1> QED BY <1>1, UsersInvariant, PTL
====
