--------------------------- MODULE ClusterDeletion ---------------------------
(***************************************************************************)
(* The deletion of a cluster: the part of Reconcile that runs when the CR  *)
(* has a deletion timestamp (pkg/controller/pxc/controller.go).  A pass    *)
(* works through the finalizers in their order and then stores the ones    *)
(* whose work is not done; the CR disappears when none is left, and        *)
(* Kubernetes collects what it owns.                                       *)
(*                                                                         *)
(* "err" is one variable of the whole pass: a finalizer the switch does    *)
(* not know ("other", a finalizer of somebody else) is judged by what the  *)
(* finalizer before it left there.                                         *)
(***************************************************************************)
EXTENDS Naturals, Sequences, Functions

CONSTANTS Size,            \* PXC pods
          FinalizerLists,  \* the lists of finalizers a CR may have
          MaxCuts          \* calls that fail, or restarts of the operator

ASSUME DeletionBounds ==
    Size \in Nat \ {0} /\ MaxCuts \in Nat /\ FinalizerLists \subseteq Seq(STRING)

VARIABLES asked,      \* the finalizers the CR had when it was deleted
          valid,      \* does CheckNSetDefaults accept its spec?
          fins,       \* the finalizers it has now
          exists,     \* is the CR still there?
          replicas,   \* replicas of the PXC StatefulSet, 0 when it is gone
          nodes,      \* ordinals of the PXC pods
          proxy,      \* is the ProxySQL StatefulSet there?
          claims,     \* the claims: {"pxc", "proxysql"} or less
          secrets,    \* are the users' secrets there?
          certs,      \* the issuers, certificates and their secrets
          collector,  \* is the binlog collector there?
          dpc,        \* the pass: idle, at finalizer dpc, or storing
          derr,       \* err
          kept,       \* the finalizers to keep
          cuts,       \* how many calls may still fail
          cutIn,      \* the finalizers whose work was cut short
          unread      \* the kinds of certificates whose read has failed

dvars == <<asked, valid, fins, exists, replicas, nodes, proxy, claims, secrets,
           certs, collector, dpc, derr, kept, cuts, cutIn, unread>>
objects == <<exists, replicas, nodes, proxy, claims, secrets, certs, collector>>

Known == {"in-order", "ssl", "proxysql-pvc", "pxc-pvc"}
Certs == {"issuers", "certificates", "certSecrets"}

DeletionTypeOK ==
    /\ asked \in FinalizerLists /\ Range(fins) \union Range(kept) \subseteq Range(asked)
    /\ exists \in BOOLEAN /\ replicas \in 0..Size /\ nodes \subseteq 0..Size - 1
    /\ proxy \in BOOLEAN /\ claims \subseteq {"pxc", "proxysql"}
    /\ secrets \in BOOLEAN /\ certs \subseteq Certs /\ collector \in BOOLEAN
    /\ dpc \in 0..Len(asked) + 1 /\ derr \in BOOLEAN
    /\ cuts \in 0..MaxCuts /\ cutIn \subseteq Range(asked)
    /\ valid \in BOOLEAN /\ unread \subseteq Certs

DeletionInit ==
    /\ asked \in FinalizerLists /\ fins = asked
    /\ exists = TRUE /\ replicas = Size /\ nodes = 0..Size - 1
    /\ proxy = TRUE /\ claims = {"pxc", "proxysql"} /\ secrets = TRUE
    /\ certs = Certs /\ collector = TRUE
    /\ dpc = 0 /\ derr = FALSE /\ kept = <<>>
    /\ cuts = MaxCuts /\ cutIn = {} /\ valid \in BOOLEAN /\ unread = {}

-----------------------------------------------------------------------------
\* What the work of one finalizer comes to: the objects after its calls, and
\* whether it returned an error.  "cut" is the number of deletions after which
\* a call fails (or the operator dies), a large number when none does; "skip"
\* the kinds of certificates that cannot be read.
NoCut == 9

World == [replicas |-> replicas, proxy |-> proxy, claims |-> claims,
          secrets |-> secrets, certs |-> certs, collector |-> collector]

\* len(podList.Items) <= 1
AtMostOnePod == \A m, n \in nodes : m = n

\* deletePXCPods: scale down to one pod and wait; then the binlog collector.
deletePXCPods(cut) ==
    IF AtMostOnePod
    THEN [w |-> IF cut > 0 THEN [World EXCEPT !.collector = FALSE] ELSE World,
          err |-> cut = 0]
    ELSE [w |-> IF cut > 0 /\ replicas # 0 THEN [World EXCEPT !.replicas = 1]
                                           ELSE World,
          err |-> TRUE]

\* deleteCerts: issuers, certificates, secrets.  An object whose read fails, for
\* whatever reason, is passed over without an error; a deletion that fails ends
\* the work.
deleteCerts(cut, skip) ==
    LET order == <<"issuers", "certificates", "certSecrets">>
        reached == {order[k] : k \in 1..(IF cut < 3 THEN cut ELSE 3)}
    IN  [w |-> [World EXCEPT !.certs = @ \ (reached \ skip)],
         err |-> cut < 3]

\* deleteStatefulSet: nothing to do when the StatefulSet is gone; otherwise
\* the StatefulSet, its claims and, for PXC, the users' secrets.
deleteStatefulSet(app, cut) ==
    IF (app = "pxc" /\ replicas = 0) \/ (app = "proxysql" /\ ~proxy)
    THEN [w |-> World, err |-> cut = 0]
    ELSE [w |-> [World EXCEPT
                   !.replicas = IF app = "pxc" /\ cut > 0 THEN 0 ELSE @,
                   !.proxy    = @ /\ ~(app = "proxysql" /\ cut > 0),
                   !.claims   = IF cut > 1 THEN @ \ {app} ELSE @,
                   !.secrets  = @ /\ ~(app = "pxc" /\ cut > 2)],
          err |-> cut < (IF app = "pxc" THEN 3 ELSE 2)]

Work(f, cut, skip) ==
    CASE f = "ssl"          -> deleteCerts(cut, skip)
      [] f = "proxysql-pvc" -> deleteStatefulSet("proxysql", cut)
      [] f = "pxc-pvc"      -> deleteStatefulSet("pxc", cut)
      [] f = "in-order"     -> deletePXCPods(cut)
      [] OTHER              -> [w |-> World, err |-> derr]

Becomes(w) ==
    /\ replicas' = w.replicas /\ proxy' = w.proxy /\ claims' = w.claims
    /\ secrets' = w.secrets /\ certs' = w.certs /\ collector' = w.collector

\* A pass begins; it is over at once when CheckNSetDefaults returns an error.
BeginDeletion ==
    /\ exists /\ dpc = 0 /\ valid
    /\ dpc' = 1 /\ derr' = FALSE /\ kept' = <<>>
    /\ UNCHANGED <<asked, valid, fins, objects, cuts, cutIn, unread>>

\* A mutant: every finalizer goes in the first pass.
MustKeepNever(err) == FALSE

\* Is the finalizer kept, given the error its work came to?
MustKeep(err) == err

\* The next finalizer of the list.
Finalize ==
    /\ exists /\ dpc \in 1..Len(fins)
    /\ \E cut \in 0..2 \union {NoCut}, skip \in SUBSET certs :
         LET f == fins[dpc]
             r == Work(f, cut, skip)
         IN  /\ cut # NoCut \/ skip # {} =>
                  cuts > 0 /\ f \in Known /\ r # Work(f, NoCut, {})
             /\ Becomes(r.w)
             /\ derr' = r.err
             /\ kept' = IF MustKeep(r.err) THEN Append(kept, f) ELSE kept
             /\ cuts' = IF cut = NoCut /\ skip = {} THEN cuts ELSE cuts - 1
             /\ cutIn' = IF cut = NoCut THEN cutIn ELSE cutIn \union {f}
             /\ unread' = unread \union skip
    /\ dpc' = dpc + 1
    /\ UNCHANGED <<asked, valid, fins, exists, nodes>>

\* The operator dies in the middle of a finalizer's work.
DieInFinalizer ==
    /\ exists /\ dpc \in 1..Len(fins) /\ cuts > 0
    /\ \E cut \in 1..2 : Becomes(Work(fins[dpc], cut, {}).w)
    /\ cuts' = cuts - 1 /\ cutIn' = cutIn \union {fins[dpc]}
    /\ dpc' = 0 /\ derr' = FALSE /\ kept' = <<>>
    /\ UNCHANGED <<asked, valid, fins, exists, nodes, unread>>

\* SetFinalizers and Update; the object goes when no finalizer is left.
StoreFinalizers ==
    /\ exists /\ dpc = Len(fins) + 1
    /\ \/ fins' = kept /\ exists' = (kept # <<>>) /\ UNCHANGED cuts
       \/ cuts > 0 /\ cuts' = cuts - 1 /\ UNCHANGED <<fins, exists>>
    /\ dpc' = 0 /\ derr' = FALSE /\ kept' = <<>>
    /\ UNCHANGED <<asked, valid, replicas, nodes, proxy, claims, secrets, certs,
                   collector, cutIn, unread>>

\* The StatefulSet controller scales down from the top,
ScaleDown ==
    /\ replicas > 0
    /\ \E n \in nodes : /\ n >= replicas /\ \A m \in nodes : m <= n
                         /\ nodes' = nodes \ {n}
    /\ UNCHANGED <<asked, valid, fins, exists, replicas, proxy, claims, secrets,
                   certs, collector, dpc, derr, kept, cuts, cutIn, unread>>

\* and the pods of a deleted StatefulSet go in any order.
CollectPod ==
    /\ replicas = 0
    /\ \E n \in nodes : nodes' = nodes \ {n}
    /\ UNCHANGED <<asked, valid, fins, exists, replicas, proxy, claims, secrets,
                   certs, collector, dpc, derr, kept, cuts, cutIn, unread>>

\* What the CR owned goes after it (the claims are nobody's).
CollectOwned ==
    /\ ~exists /\ (replicas # 0 \/ proxy \/ collector)
    /\ replicas' = 0 /\ proxy' = FALSE /\ collector' = FALSE
    /\ UNCHANGED <<asked, valid, fins, exists, nodes, claims, secrets, certs, dpc,
                   derr, kept, cuts, cutIn, unread>>

\* The user repairs the spec.
RepairSpec ==
    /\ exists /\ ~valid
    /\ valid' = TRUE
    /\ UNCHANGED <<asked, fins, objects, dpc, derr, kept, cuts, cutIn, unread>>

DeletionPass == BeginDeletion \/ Finalize \/ StoreFinalizers
DeletionNext ==
    \/ DeletionPass \/ DieInFinalizer
    \/ ScaleDown \/ CollectPod \/ CollectOwned \/ RepairSpec

DeletionSpec == DeletionInit /\ [][DeletionNext]_dvars

-----------------------------------------------------------------------------
\* A finalizer that is gone has done what it is for: the claims and the users'
\* secrets, the claims of ProxySQL, the certificates are deleted and at most
\* one pod was left, unless its work was once cut short: deleteStatefulSet
\* then finds no StatefulSet the next time, returns nil, and the claims and
\* secrets stay behind.
WorkDone ==
    LET gone(f) == f \in Range(asked) \ (Range(fins) \union cutIn)
    IN  /\ gone("pxc-pvc") => "pxc" \notin claims /\ ~secrets
        /\ gone("proxysql-pvc") => "proxysql" \notin claims
        /\ gone("in-order") => AtMostOnePod /\ ~collector

\* With delete-ssl every cut leaves work that the next pass takes up: when the
\* finalizer is gone so are the issuers, certificates and secrets, but for those
\* whose read has failed: deleteCerts passes over them, and returns nil.
CertsAreGone == "ssl" \in Range(asked) \ Range(fins) => certs \subseteq unread

\* While the CR keeps delete-pxc-pods-in-order the pods go one by one from the
\* highest ordinal, the order in which the StatefulSet scales down, unless
\* delete-pxc-pvc is there too: that one deletes the whole StatefulSet in the
\* same pass, without waiting.
InOrderStep ==
    /\ "in-order" \in Range(fins) /\ "pxc-pvc" \notin Range(asked)
    => nodes' = nodes \/ \E n \in nodes : nodes = 0..n /\ nodes' = 0..n - 1

\* A finalizer keeps its word: when it goes its work is done, and until then the
\* pods leave in order (the switch over the finalizers in Reconcile).  Two things
\* break it: work of deleteStatefulSet or deletePXCPods that was cut short, and a
\* read of deleteCerts that fails.
FinalizersKeepTheirWord ==
    [][InOrderStep /\ WorkDone' /\ CertsAreGone']_dvars

\* A deleted cluster disappears in the end, and its pods with it, whatever the
\* finalizers and wherever their work was cut short; not as long as its spec
\* fails validation, which comes first (controller.go:267).
DeletionEnded ==
    ~valid \/ (~exists /\ nodes = {} /\ ~proxy /\ ~collector)
DeletionEnds == <>[]DeletionEnded
=============================================================================
