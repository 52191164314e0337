--------------------------- MODULE ExposedServices ---------------------------
(***************************************************************************)
(* The Services a reconcile pass keeps: one per exposed PXC pod            *)
(* (pkg/controller/pxc/replication.go), or those of HAProxy (reconcileHA-  *)
(* Proxy), through createOrUpdateService of controller.go.  The pass reads *)
(* a Service, prepares what it should be from the custom resource, merges  *)
(* what it is to keep of the annotations, and compares a hash of the spec  *)
(* and the metadata before it writes.  Others write annotations too: a     *)
(* cloud controller notes its load balancer in one.                        *)
(*                                                                         *)
(* The annotations are two keys, one the user gives in the custom resource *)
(* and one a cloud controller writes.  NewExposedPXCService hands out the  *)
(* annotation map of the custom resource itself, and so do NewServicePXC   *)
(* and NewServicePXCUnready, whose two headless Services the pass writes   *)
(* first: all are prepared in one shared map, and the pass follows it      *)
(* (map).  Of the headless Services only the annotation kept in them       *)
(* matters here (oldann); no cloud controller writes to them.              *)
(***************************************************************************)
EXTENDS Naturals, Sequences, FiniteSets

CONSTANTS MaxSize,     \* PXC pods, or Services of HAProxy
          MaxEdits,    \* changes of the custom resource
          MaxForeign,  \* writes of the cloud controller
          MaxSlips     \* passes that fail, and backups or restores that run

VARIABLES family,    \* whose Services: "pods" or "haproxy"
          ignore,    \* is the foreign key in spec.ignoreAnnotations?
          braces,    \* does the custom resource say annotations: {} if it has none?
          cr,        \* the custom resource
          seen,      \* as the pass read it
          busy,      \* does a backup or a restore run?
          svc,       \* the Services
          epc,       \* idle, read, write, remove
          todo,      \* the Services this pass still has to look at
          oldann,    \* the user's annotation in the headless Services of PXC
          map,       \* the annotations of the custom resource in this pass
          new,       \* the Service prepared
          mixed,     \* has the shared map taken in another Service's annotation?
          raced,     \* has the cloud controller written beside the pass?
          edits, foreign, slips

evars == <<family, ignore, braces, cr, seen, busy, svc, epc, todo, oldann, map,
           new, mixed, raced, edits, foreign, slips>>
world == <<family, ignore, braces>>
budget == <<edits, foreign, slips>>

Names  == 1..MaxSize
Types  == {"ClusterIP", "NodePort", "LoadBalancer"}
No     == 0
Absent == [there |-> FALSE]
CRs    == [on : BOOLEAN, size : 1..MaxSize, paused : BOOLEAN, type : Types,
           headless : BOOLEAN, user : 0..2]
Specs  == [type : Types, ip : {"address", "None"}, external : BOOLEAN]
Annotations == [user : 0..2, foreign : 0..MaxSize, hash : {Absent} \union Specs]
Services == [there : {TRUE}, spec : Specs, ann : Annotations]

ServicesTypeOK ==
    /\ family \in {"pods", "haproxy"} /\ ignore \in BOOLEAN /\ braces \in BOOLEAN
    /\ cr \in CRs /\ seen \in CRs /\ busy \in BOOLEAN
    /\ \A n \in Names : svc[n] \in Services \union {Absent}
    /\ epc \in {"idle", "read", "write", "remove"} /\ todo \in Seq(Names)
    /\ oldann \in 0..2 /\ map \in Annotations /\ new \in Services \union {Absent}
    /\ mixed \in BOOLEAN /\ raced \in BOOLEAN
    /\ edits \in 0..MaxEdits /\ foreign \in 0..MaxForeign /\ slips \in 0..MaxSlips

NoAnnotations == [user |-> 0, foreign |-> No, hash |-> Absent]
Given(c)      == [NoAnnotations EXCEPT !.user = c.user]

ServicesInit ==
    /\ family \in {"pods", "haproxy"} /\ ignore \in BOOLEAN
    /\ braces \in IF family = "pods" THEN BOOLEAN ELSE {FALSE}
    /\ cr \in {c \in CRs : c.size = MaxSize /\ ~c.paused /\ c.type # "NodePort"
                           /\ c.on /\ c.user < 2 /\ (c.headless => family = "haproxy")}
    /\ seen = cr /\ busy = FALSE
    /\ svc = [n \in Names |-> Absent] /\ epc = "idle" /\ todo = <<>>
    /\ oldann = 0 /\ map = NoAnnotations /\ new = Absent
    /\ mixed = FALSE /\ raced = FALSE
    /\ edits = MaxEdits /\ foreign = MaxForeign /\ slips = MaxSlips

\* NewExposedPXCService: a headless Service is not for a pod.
NewExposedPXCService(c) ==
    [type |-> c.type, ip |-> "address", external |-> c.type \in {"NodePort", "LoadBalancer"}]

\* NewServiceHAProxy, and NewServiceHAProxyReplicas alike.
NewServiceHAProxy(c) ==
    [type |-> c.type, ip |-> IF c.headless /\ c.type = "ClusterIP" THEN "None" ELSE "address",
     external |-> c.type \in {"NodePort", "LoadBalancer"}]

NewService(c) == IF family = "pods" THEN NewExposedPXCService(c) ELSE NewServiceHAProxy(c)

\* The Services the custom resource asks for: of the pods below the size; the
\* first of HAProxy and, if it is enabled, the one for the replicas.
Wanted(c) == IF c.on THEN 1..c.size ELSE {}
There     == {n \in Names : svc[n].there}

\* ensurePxcPodServices and removePxcPodServices leave a paused cluster alone,
\* the first also one with a backup or a restore; reconcileHAProxy does not ask.
Skips == family = "pods" /\ (cr.paused \/ (cr.on /\ busy))

\* The map of the custom resource is used in place unless it is nil.
Shared(c) == family = "pods" /\ (c.user # 0 \/ braces)

\* createOrUpdateService for NewServicePXC and NewServicePXCUnready: without an
\* annotation of the user the old one stays; a shared map is left with it, and
\* with the hash of the headless Service.
Headless       == [type |-> "ClusterIP", ip |-> "None", external |-> FALSE]
KeptAnn(c)     == IF c.user # 0 THEN c.user ELSE oldann
FilledMap(c)   == IF Shared(c) THEN [user |-> KeptAnn(c), foreign |-> No, hash |-> Headless]
                  ELSE Given(c)

BeginServices ==
    /\ epc = "idle"
    /\ oldann' = IF family = "pods" THEN KeptAnn(cr) ELSE oldann
    /\ IF Skips THEN UNCHANGED <<seen, map, todo, epc>>
       ELSE /\ seen' = cr /\ map' = FilledMap(cr)
            /\ todo' = [i \in 1..Cardinality(Wanted(cr)) |-> i]
            /\ epc' = IF Wanted(cr) = {} THEN "remove" ELSE "read"
    /\ UNCHANGED <<world, cr, busy, svc, new, mixed, raced, budget>>

\* The annotations a Service is prepared in: the shared map, or one of its own.
Fresh       == IF family = "pods" THEN map ELSE Given(seen)
saveOldMeta == Fresh.user = 0 /\ Fresh.foreign = No /\ Fresh.hash = Absent
               /\ ~seen.headless

\* mergeMaps: the values of x win.
mergeMaps(x, y) == [user    |-> IF x.user # 0 THEN x.user ELSE y.user,
                    foreign |-> IF x.foreign # No THEN x.foreign ELSE y.foreign,
                    hash    |-> IF x.hash # Absent THEN x.hash ELSE y.hash]

\* A mutant: the old values are dropped.
setIgnoredNothing(x, y) == x

\* setIgnoredAnnotationsAndLabels: the old value of an ignored key wins.
setIgnoredAnnotationsAndLabels(x, y) ==
    IF ignore /\ y.foreign # No THEN [x EXCEPT !.foreign = y.foreign] ELSE x

\* What createOrUpdateService makes of the annotations x before it calls
\* createOrUpdate.
Prepared(x, old) ==
    IF ~old.there THEN x
    ELSE setIgnoredAnnotationsAndLabels(
             IF saveOldMeta THEN mergeMaps(x, old.ann) ELSE x, old.ann)

ReadService ==
    /\ epc = "read"
    /\ LET n   == Head(todo)
           ann == [Prepared(Fresh, svc[n]) EXCEPT !.hash = NewService(seen)]
       IN /\ new' = [there |-> TRUE, spec |-> NewService(seen), ann |-> ann]
          /\ map' = IF Shared(seen) THEN ann ELSE map
          /\ mixed' = (mixed \/ (Shared(seen) /\ ann.foreign # No))
    /\ epc' = "write"
    /\ UNCHANGED <<world, cr, seen, busy, svc, todo, oldann, raced, budget>>

\* An update keeps the address the Service has.
KeepClusterIP(spec, old) == [spec EXCEPT !.ip = old.ip]

\* createOrUpdate: the Service is made, or updated when the hash of its spec
\* or its metadata differ from what was prepared.
createOrUpdate(old) ==
    IF ~old.there THEN new
    ELSE IF old.ann # new.ann THEN [new EXCEPT !.spec = KeepClusterIP(new.spec, old.spec)]
    ELSE old

\* What the API server refuses: another address, a policy for traffic from
\* outside in a Service that takes none, and no address in one that does.
Refuses(old, s) ==
    \/ old.there /\ s.spec.ip # old.spec.ip
    \/ s.spec.external /\ s.spec.type = "ClusterIP"
    \/ s.spec.ip = "None" /\ s.spec.type # "ClusterIP"

\* A refusal ends the pass.
WriteService ==
    /\ epc = "write"
    /\ LET n == Head(todo)
           s == createOrUpdate(svc[n])
       IN IF Refuses(svc[n], s) THEN epc' = "idle" /\ UNCHANGED <<svc, todo>>
          ELSE /\ svc' = [svc EXCEPT ![n] = s] /\ todo' = Tail(todo)
               /\ epc' = IF Len(todo) = 1 THEN "remove" ELSE "read"
    /\ UNCHANGED <<world, cr, seen, busy, oldann, map, new, mixed, raced, budget>>

\* removeOutdatedServices, removePxcPodServices and deleteServices: what is
\* not asked for goes, one after another.
RemoveServices ==
    /\ epc = "remove"
    /\ \/ /\ There \ Wanted(seen) = {} /\ epc' = "idle" /\ UNCHANGED svc
       \/ \E n \in There \ Wanted(seen) :
            svc' = [svc EXCEPT ![n] = Absent] /\ UNCHANGED epc
    /\ UNCHANGED <<world, cr, seen, busy, todo, oldann, map, new, mixed, raced, budget>>

\* A call of the pass fails.
FailServices ==
    /\ epc # "idle" /\ slips > 0 /\ epc' = "idle" /\ slips' = slips - 1
    /\ UNCHANGED <<world, cr, seen, busy, svc, todo, oldann, map, new, mixed, raced,
                   edits, foreign>>

\* A backup or a restore of the cluster starts or ends.
Busy == /\ family = "pods" /\ (busy \/ slips > 0) /\ busy' = ~busy
        /\ slips' = IF busy THEN slips ELSE slips - 1
        /\ UNCHANGED <<world, cr, seen, svc, epc, todo, oldann, map, new, mixed, raced,
                       edits, foreign>>

\* The user changes one thing of the custom resource.
EditExpose ==
    /\ edits > 0 /\ edits' = edits - 1
    /\ \/ cr' = [cr EXCEPT !.on = ~@]
       \/ \E k \in 1..MaxSize : k # cr.size /\ cr' = [cr EXCEPT !.size = k]
       \/ family = "pods" /\ cr' = [cr EXCEPT !.paused = ~@]
       \/ \E t \in Types : t # cr.type /\ cr' = [cr EXCEPT !.type = t]
       \/ family = "haproxy" /\ cr' = [cr EXCEPT !.headless = ~@]
       \/ \E u \in 0..2 : u # cr.user /\ cr' = [cr EXCEPT !.user = u]
    /\ UNCHANGED <<world, seen, busy, svc, epc, todo, oldann, map, new, mixed, raced,
                   foreign, slips>>

\* The cloud controller notes its own thing of a Service.
ForeignWrite(n) ==
    /\ foreign > 0 /\ svc[n].there /\ svc[n].ann.foreign # n
    /\ svc' = [svc EXCEPT ![n] = [@ EXCEPT !.ann = [@ EXCEPT !.foreign = n]]]
    /\ foreign' = foreign - 1
    /\ raced' = (raced \/ (epc = "write" /\ Head(todo) = n))
    /\ UNCHANGED <<world, cr, seen, busy, epc, todo, oldann, map, new, mixed, edits, slips>>

ServicesPass == BeginServices \/ ReadService \/ WriteService \/ RemoveServices
ServicesNext ==
    \/ ServicesPass \/ FailServices \/ Busy \/ EditExpose
    \/ \E n \in Names : ForeignWrite(n)
\* The work queue repeats the pass, and a backup or a restore ends.
ServicesSpec == /\ ServicesInit /\ [][ServicesNext]_evars
                /\ WF_evars(ServicesPass) /\ WF_evars(busy /\ Busy)

-----------------------------------------------------------------------------
\* A Service keeps what a cloud controller noted in it, whatever the passes do
\* to the Service, when the custom resource asks for it (ignoreAnnotations) or
\* gives no annotations of its own (saveOldMeta).  It does not hold for a note
\* written between the read and the write of a pass, nor after the Services of
\* two pods were prepared in one map.
NotesKeptStep ==
    \A n \in Names :
       svc[n].there /\ svc'[n].there /\ svc[n].ann.foreign = n /\ ~raced' /\ ~mixed'
         /\ (ignore \/ (seen.user = 0 /\ ~seen.headless /\ ~(family = "pods" /\ braces)))
         => svc'[n].ann.foreign = n
NotesKept == [][NotesKeptStep]_evars

\* A Service made without an address keeps that, so it can take no other type:
\* the pass fails at it and never comes to what is behind it.
Blocked(n) == svc[n].there /\ svc[n].spec.ip = "None" /\ cr.type # "ClusterIP"
Reached    == {n \in Wanted(cr) : \A k \in 1..n : ~Blocked(k)}

\* In the end, the cluster neither paused nor changed, there are exactly the
\* Services asked for, each of the type and with the annotations asked for,
\* and a pass writes nothing any more; all that for the Services before the
\* first one that is in the way for good.
ServicesSettled ==
    Skips \/
    /\ Reached = Wanted(cr) => There = Wanted(cr)
    /\ \A n \in Reached : /\ svc[n].there /\ svc[n].spec.type = cr.type
                          /\ cr.user # 0 => svc[n].ann.user = cr.user
    /\ epc = "write" /\ Head(todo) \in Reached =>
          createOrUpdate(svc[Head(todo)]) = svc[Head(todo)]
ServicesSettle == <>[]ServicesSettled
=============================================================================
