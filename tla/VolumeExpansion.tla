---------------------------- MODULE VolumeExpansion ----------------------------
(***************************************************************************)
(* Expansion of the data volumes of a cluster: reconcilePersistentVolumes   *)
(* (pkg/controller/pxc/volumes.go) and the part of updatePod that follows   *)
(* it in every reconcile.                                                   *)
(*                                                                          *)
(* A StatefulSet cannot change its volume template.  When the spec asks for *)
(* larger volumes the operator marks the cluster with an annotation, asks   *)
(* for the new size on every claim, waits until all claims have it, deletes *)
(* the StatefulSet without its pods, and removes the annotation, so that a  *)
(* later reconcile creates the StatefulSet with the new template.  When the *)
(* resize fails, the spec is set back to the size of the template.          *)
(*                                                                          *)
(* Every write to the API server is a step of its own; the reads that come  *)
(* before the first write are one step.  Sizes are in units of which GiB    *)
(* make a gibibyte.  A call that fails ends the reconcile and is CutShort.  *)
(* Only events since the last annotation are kept: the code ignores older   *)
(* ones.                                                                    *)
(***************************************************************************)
EXTENDS Integers, FiniteSets, FiniteSetsExt

CONSTANTS
    GiB,          \* units in a gibibyte
    Sizes,        \* sizes the spec may ask for
    FirstSize,    \* the size at the beginning
    ClusterSize,  \* pods of the cluster
    Leftovers,    \* claims left behind by an earlier, larger cluster
    Events,       \* the kinds of disturbance that may happen
    MaxHappened,  \* bound on the disturbances, each of which happens once
    MaxEdits      \* bound on edits of the spec and on pods that stop

Disturbances == {"crash", "quota", "fail", "same", "shrink", "disable"}

ASSUME ExpansionAssumption ==
    /\ GiB \in Nat \ {0}
    /\ ClusterSize \in Nat \ {0}
    /\ {MaxHappened, MaxEdits, Leftovers} \subseteq Nat
    /\ FirstSize \in Sizes
    /\ Sizes \subseteq Nat \ {0}
    /\ Events \subseteq Disturbances

Pods == 0 .. ClusterSize - 1

Claims == 0 .. ClusterSize + Leftovers - 1

VARIABLES
    spec,      \* the cluster: size asked for, is expansion enabled
    marked,    \* has the cluster the annotation pvc-resize-in-progress
    sts,       \* the StatefulSet: does it exist, the size in its template
    claim,     \* the claims: size asked for, capacity
    events,    \* what the events on a claim since the annotation say
    pods,      \* pods that exist
    pc,        \* the step the reconcile is at
    mem,       \* what the reconcile has read
    todo,      \* claims it still has to update, as it has read them
    edits,     \* how many edits and stops of pods there were
    happened   \* the disturbances that have happened

apiVars == <<spec, marked, sts, claim, events, pods>>
memVars == <<pc, mem, todo>>
envVars == <<edits, happened>>
vars == <<apiVars, memVars, envVars>>

Labels == {"idle", "volumes", "annotate", "resize", "deleteSts", "deannotate",
           "revert", "revertFailed", "deannotateFailed", "deploy"}

NoMemory == [size |-> FirstSize, enabled |-> TRUE, marked |-> FALSE]

RoundUpGiB(size) == ((size + GiB - 1) \div GiB) * GiB

Init ==
    /\ spec \in [size : {FirstSize}, enabled : BOOLEAN]
    /\ marked = FALSE
    /\ sts = [exists |-> TRUE, template |-> FirstSize]
    /\ claim = [c \in Claims |->
                   [request |-> FirstSize, capacity |-> RoundUpGiB(FirstSize)]]
    /\ events = [c \in Claims |-> {}]
    /\ pods = Pods
    /\ pc = "idle"
    /\ mem = NoMemory
    /\ todo = <<>>
    /\ edits = 0
    /\ happened = {}

Disturbs(kind) ==
    /\ kind \in Events \ happened
    /\ Cardinality(happened) < MaxHappened
    /\ happened' = happened \union {kind}
    /\ UNCHANGED edits

Edits ==
    /\ edits < MaxEdits
    /\ edits' = edits + 1
    /\ UNCHANGED happened

Goto(label) ==
    /\ pc' = label
    /\ UNCHANGED <<mem, todo>>

EndPass ==
    /\ pc' = "idle"
    /\ mem' = NoMemory
    /\ todo' = <<>>

-----------------------------------------------------------------------------
\* The reconcile reads the cluster.
Get ==
    /\ pc = "idle"
    /\ pc' = "volumes"
    /\ mem' = [size |-> spec.size, enabled |-> spec.enabled, marked |-> marked]
    /\ UNCHANGED <<todo, apiVars, envVars>>

requested == RoundUpGiB(mem.size)

pvcsToUpdate == Claims \intersect pods

actual == Min({claim[c].capacity : c \in Claims})

\* Claims whose capacity is the size asked for, with or without a pod.
updatedPVCs == {c \in Claims : claim[c].capacity = requested}

Reported(kind) == \E c \in Claims \ updatedPVCs : kind \in events[c]

\* The claims and the StatefulSet can be compared at all.
Comparable == Cardinality(pods) >= ClusterSize /\ sts.exists

ResizeFailed == Comparable /\ mem.marked /\ Reported("failed")

\* A mutant: one resized claim is enough.
ResizeSucceededSome ==
    /\ Comparable /\ mem.marked /\ ~ResizeFailed
    /\ updatedPVCs # {}

ResizeSucceeded ==
    /\ Comparable /\ mem.marked /\ ~ResizeFailed
    /\ Cardinality(updatedPVCs) = Cardinality(pvcsToUpdate)

\* No result of a resize to act on: the sizes are compared.
Compared == Comparable /\ ~ResizeFailed /\ ~ResizeSucceeded

\* Nothing is to be done about the volumes.
NothingToResize ==
    \/ ~Comparable
    \/ ResizeFailed /\ Reported("pending")
    \/ Compared /\ requested = actual

ReconcilePersistentVolumes ==
    /\ pc = "volumes"
    /\ \/ NothingToResize /\ Goto("deploy")
       \/ ResizeFailed /\ ~Reported("pending") /\ Goto("revertFailed")
       \/ ResizeSucceeded /\ Goto("deleteSts")
       \/ Compared /\ requested < actual /\ Goto("revert")
       \/ /\ Compared /\ requested > actual
          /\ ~mem.enabled
          /\ mem' = [mem EXCEPT !.size = sts.template]
          /\ pc' = "deploy"
          /\ UNCHANGED todo
       \/ /\ Compared /\ requested > actual
          /\ mem.enabled
          /\ todo' = [c \in pvcsToUpdate \ updatedPVCs |-> claim[c]]
          /\ pc' = "annotate"
          /\ UNCHANGED mem
    /\ UNCHANGED <<apiVars, envVars>>

\* AnnotateObject also sets the annotation on the object in memory.
Annotate ==
    /\ pc = "annotate"
    /\ marked' = TRUE
    /\ events' = [c \in Claims |-> {}]
    /\ mem' = [mem EXCEPT !.marked = TRUE]
    /\ pc' = "resize"
    /\ UNCHANGED <<todo, spec, sts, claim, pods, envVars>>

\* The Update of the next claim.  It conflicts with a change since the claim was
\* read; a smaller size is refused below the capacity, and below the size asked
\* for by older API servers.  These errors end the reconcile; a quota or a
\* storage class in the way is recorded as an event and the next claim follows.
UpdateClaim ==
    /\ pc = "resize"
    /\ DOMAIN todo # {}
    /\ LET c == Min(DOMAIN todo)
           Next1 == /\ todo' = [d \in DOMAIN todo \ {c} |-> todo[d]]
                    /\ UNCHANGED <<pc, mem>>
       IN  \/ /\ claim[c] = todo[c]
              /\ requested >= claim[c].capacity
              /\ claim' = [claim EXCEPT ![c].request = requested]
              /\ Next1
              /\ UNCHANGED <<events, envVars>>
           \/ /\ claim[c] # todo[c] \/ requested < claim[c].request
              /\ EndPass
              /\ UNCHANGED <<claim, events, envVars>>
           \/ /\ Disturbs("quota")
              /\ events' = [events EXCEPT ![c] = @ \union {"failed"}]
              /\ Next1
              /\ UNCHANGED claim
    /\ UNCHANGED <<spec, marked, sts, pods>>

ClaimsUpdated ==
    /\ pc = "resize"
    /\ DOMAIN todo = {}
    /\ Goto("deploy")
    /\ UNCHANGED <<apiVars, envVars>>

\* A mutant: the StatefulSet is left in place.
DeleteStatefulSetSkipped ==
    /\ pc = "deleteSts"
    /\ Goto("deannotate")
    /\ UNCHANGED <<apiVars, envVars>>

\* The StatefulSet is deleted and its pods are orphaned.
DeleteStatefulSet ==
    /\ pc = "deleteSts"
    /\ sts' = [sts EXCEPT !.exists = FALSE]
    /\ Goto("deannotate")
    /\ UNCHANGED <<spec, marked, claim, events, pods, envVars>>

\* DeannotateObject leaves the object in memory alone: this reconcile still
\* takes the resize to be in progress and does not create the StatefulSet.
Deannotate ==
    /\ pc = "deannotate"
    /\ marked' = FALSE
    /\ Goto("deploy")
    /\ UNCHANGED <<spec, sts, claim, events, pods, envVars>>

\* The patch with the size of the template is empty when that size was read.
RevertVolumeTemplate ==
    /\ spec' = IF mem.size = sts.template
               THEN spec ELSE [spec EXCEPT !.size = sts.template]
    /\ UNCHANGED <<marked, sts, claim, events, pods, envVars>>

\* Less is asked for than there is: the reconcile ends with an error.
Revert ==
    /\ pc = "revert"
    /\ RevertVolumeTemplate
    /\ EndPass

HandlePVCResizeFailure ==
    /\ pc = "revertFailed"
    /\ RevertVolumeTemplate
    /\ Goto("deannotateFailed")

DeannotateFailed ==
    /\ pc = "deannotateFailed"
    /\ marked' = FALSE
    /\ EndPass
    /\ UNCHANGED <<spec, sts, claim, events, pods, envVars>>

\* updatePod creates a missing StatefulSet; the API server refuses an update of
\* the template of an existing one.
UpdatePod ==
    /\ pc = "deploy"
    /\ sts' = IF mem.marked \/ sts.exists
              THEN sts ELSE [exists |-> TRUE, template |-> mem.size]
    /\ EndPass
    /\ UNCHANGED <<spec, marked, claim, events, pods, envVars>>

Reconcile ==
    \/ Get \/ ReconcilePersistentVolumes
    \/ Annotate \/ UpdateClaim \/ ClaimsUpdated
    \/ DeleteStatefulSet \/ Deannotate
    \/ Revert \/ HandlePVCResizeFailure \/ DeannotateFailed
    \/ UpdatePod

-----------------------------------------------------------------------------
\* A call fails or the operator restarts.
CutShort ==
    /\ pc # "idle"
    /\ Disturbs("crash")
    /\ EndPass
    /\ UNCHANGED apiVars

\* The user asks for a size: larger, the same in gibibytes, or smaller.
EditSize(size) ==
    /\ size # spec.size
    /\ \/ RoundUpGiB(size) > RoundUpGiB(spec.size) /\ Edits
       \/ RoundUpGiB(size) = RoundUpGiB(spec.size) /\ Disturbs("same")
       \/ RoundUpGiB(size) < RoundUpGiB(spec.size) /\ Disturbs("shrink")
    /\ spec' = [spec EXCEPT !.size = size]
    /\ UNCHANGED <<marked, sts, claim, events, pods, memVars>>

\* The user switches expansion on or off.
EditExpansion ==
    /\ IF spec.enabled THEN Disturbs("disable") ELSE Edits
    /\ spec' = [spec EXCEPT !.enabled = ~@]
    /\ UNCHANGED <<marked, sts, claim, events, pods, memVars>>

PodStops(p) ==
    /\ p \in pods
    /\ Edits
    /\ pods' = pods \ {p}
    /\ UNCHANGED <<spec, marked, sts, claim, events, memVars>>

PodStarts(p) ==
    /\ p \notin pods
    /\ sts.exists
    /\ pods' = pods \union {p}
    /\ UNCHANGED <<spec, marked, sts, claim, events, memVars, envVars>>

Resizing(c) == claim[c].capacity < claim[c].request

Record(c, kind) ==
    /\ events' = [events EXCEPT ![c] = @ \union {kind}]
    /\ UNCHANGED <<spec, marked, sts, claim, pods, memVars>>

ResizeStarts(c) ==
    /\ Resizing(c)
    /\ "pending" \notin events[c]
    /\ Record(c, "pending")
    /\ UNCHANGED envVars

ResizeFails(c) ==
    /\ Resizing(c)
    /\ Disturbs("fail")
    /\ Record(c, "failed")

ResizeEnds(c) ==
    /\ Resizing(c)
    /\ claim' = [claim EXCEPT ![c].capacity = claim[c].request]
    /\ UNCHANGED <<spec, marked, sts, events, pods, memVars, envVars>>

\* The API server drops events after an hour.
EventsExpire(c) ==
    /\ events[c] # {}
    /\ events' = [events EXCEPT ![c] = {}]
    /\ UNCHANGED <<spec, marked, sts, claim, pods, memVars, envVars>>

Environment ==
    \/ CutShort
    \/ \E size \in Sizes : EditSize(size)
    \/ EditExpansion
    \/ \E p \in Pods : PodStops(p) \/ PodStarts(p)
    \/ \E c \in Claims :
          ResizeStarts(c) \/ ResizeFails(c) \/ ResizeEnds(c) \/ EventsExpire(c)

Next == Reconcile \/ Environment

Spec == Init /\ [][Next]_vars

\* The cluster is reconciled again and again, the StatefulSet controller starts
\* missing pods, the resizer ends what it began, and events expire.
Fairness ==
    /\ WF_vars(Reconcile)
    /\ \A p \in Pods : WF_vars(PodStarts(p))
    /\ \A c \in Claims : WF_vars(ResizeEnds(c)) /\ WF_vars(EventsExpire(c))

FairSpec == Spec /\ Fairness

-----------------------------------------------------------------------------
\* Every variable keeps its type.
TypeOK ==
    /\ spec \in [size : Sizes, enabled : BOOLEAN]
    /\ marked \in BOOLEAN
    /\ sts \in [exists : BOOLEAN, template : Sizes]
    /\ claim \in [Claims -> [request : Nat, capacity : Nat]]
    /\ events \in [Claims -> SUBSET {"pending", "failed"}]
    /\ pods \subseteq Pods
    /\ pc \in Labels
    /\ mem \in [size : Sizes, enabled : BOOLEAN, marked : BOOLEAN]
    /\ DOMAIN todo \subseteq Claims
    /\ edits \in 0 .. MaxEdits
    /\ happened \subseteq Events

\* The StatefulSet is deleted only when the claim of every pod has at least the
\* size the reconcile has read (the test of updatedPVCs before the deletion),
\* whatever the resizer and the user did since the claims were listed.
LargeEnough == \A p \in Pods : claim[p].capacity >= requested
DeletedWhenResized == [][sts.exists /\ ~sts'.exists => LargeEnough]_vars

\* No failure has left a claim larger than the size asked for.
NoneTooLarge == \A c \in Claims : claim[c].capacity <= RoundUpGiB(spec.size)

Settled ==
    /\ ~marked
    /\ sts.exists
    /\ pods = Pods
    /\ spec.enabled =>
          /\ sts.template = spec.size
          /\ \A p \in Pods : claim[p].capacity = RoundUpGiB(spec.size)

\* A resize comes to an end.  Undisturbed the cluster settles: the StatefulSet is
\* back with the size of the spec in its template and every volume has that size,
\* although sizes are raised again, expansion is switched on and pods stop in the
\* middle of it.  When quotas or the resizer refuse the size the cluster at least
\* loses the annotation again (handlePVCResizeFailure), unless the failure has
\* left a claim it would have to shrink.
ResizesEnd ==
    /\ <>[](happened = {} => Settled)
    /\ []<>(happened \subseteq {"quota", "fail"} /\ NoneTooLarge => ~marked)

\* The smallest claim "indicates a failed resize operation" (volumes.go:99-100): a
\* resize is only begun when the claim of some pod is too small.
BeganForAPod ==
    [][~marked /\ marked' => \E p \in Pods : claim[p].capacity # requested]_vars
=============================================================================
