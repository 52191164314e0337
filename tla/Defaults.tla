------------------------------ MODULE Defaults ------------------------------
(***************************************************************************)
(* What a reconcile pass makes of a custom resource before it acts on it:  *)
(* Validate and CheckNSetDefaults of pkg/apis/pxc/v1/pxc_types.go, and the *)
(* validating webhook (pkg/webhook/hook.go), which asks Validate only, and *)
(* only of resources that enable it.  The defaults are set in the memory   *)
(* of the pass; the stored resource stays as the user wrote it, so the     *)
(* same resource is judged anew when the pause ends or its crVersion moves *)
(* on.  An autoscaler changes the size through the scale subresource,      *)
(* which the webhook lets through.                                         *)
(*                                                                         *)
(* The version is "old" (1.14) or "new" (1.15.0 and later).  A pointer     *)
(* that is not set is "nil"; of each list the case that matters is kept.   *)
(***************************************************************************)
EXTENDS Naturals, FiniteSets, FiniteSetsExt

CONSTANTS MaxEdits    \* changes of the custom resource

VARIABLES res,      \* the custom resource as it is stored
          applied,  \* what the last successful pass went on with
          panicked, \* has a pass followed a pointer that is not set?
          outcome,  \* of the last pass, "ok" or why it failed
          edits

dfvars == <<res, applied, panicked, outcome, edits>>

maxSafePXCSize   == 5
minSafeProxySize == 2
Sizes   == 0..7
Unsafe  == {"tls", "pxcSize", "proxySize"}
Proxies == {"none", "haproxy", "proxysql", "both"}

\* The values a field may be given.
Field == [version  |-> {"old", "new"},
          size     |-> Sizes,
          proxy    |-> Proxies,
          psize    |-> 0..3,
          unsafe   |-> SUBSET Unsafe,
          allow    |-> BOOLEAN,                  \* allowUnsafeConfigurations
          tls      |-> {"nil", "unset", "on", "off"},
          duration |-> {"default", "short", "beyondCA"},
          pause    |-> BOOLEAN,
          deleting |-> BOOLEAN,
          smart    |-> BOOLEAN,                  \* updateStrategy
          volume   |-> {"nil", "noSize", "ok"},  \* pxc.volumeSpec
          pvolume  |-> {"nil", "noSize", "ok"},  \* proxysql.volumeSpec
          pitr     |-> {"off", "noName", "unknown", "ok"},
          schedule |-> {"none", "unknown", "noVolume", "ok"},
          channels |-> {"none", "badName", "mixed", "noSources", "noCA", "source", "replica"},
          config   |-> {"nil", "ok"},            \* of a replica's channel
          twice    |-> {"no", "user", "volume"}, \* a name given twice
          template |-> BOOLEAN,                  \* pxc.configuration: one without a memory limit
          expose   |-> {"nil", "ok"},            \* haproxy.exposeReplicas
          webhook  |-> BOOLEAN]
Fields == DOMAIN Field

Ordinary == [version |-> "new", size |-> 3, proxy |-> "haproxy", psize |-> 2,
             unsafe |-> {}, allow |-> FALSE, tls |-> "nil", duration |-> "default",
             pause |-> FALSE, deleting |-> FALSE, smart |-> TRUE, volume |-> "ok",
             pvolume |-> "ok", pitr |-> "off", schedule |-> "ok", channels |-> "none",
             config |-> "nil", twice |-> "no", template |-> FALSE,
             expose |-> "nil", webhook |-> FALSE]

HAProxyEnabled(c)  == c.proxy \in {"haproxy", "both"}
ProxySQLEnabled(c) == c.proxy \in {"proxysql", "both"}

ChannelsValid(c) == c.channels \in {"none", "source", "replica"}

validateExtraPVCs(c) == c.twice # "volume"

\* A schedule names a storage there is, with a volume if it is a filesystem.
ScheduleValid(c) == c.schedule \in {"none", "ok"}

Validate(c) ==
    /\ ChannelsValid(c) /\ c.volume = "ok"
    /\ c.proxy # "both"
    /\ ProxySQLEnabled(c) => c.pvolume = "ok"
    /\ c.pitr \in {"off", "ok"} /\ ScheduleValid(c)
    /\ c.smart => HAProxyEnabled(c) \/ ProxySQLEnabled(c)
    /\ c.twice # "user" /\ validateExtraPVCs(c)

\* allowUnsafeConfigurations turns TLS off and all checks with it.
Allowed(c) == [c EXCEPT !.tls    = IF c.allow THEN "off"
                                   ELSE IF c.tls \in {"nil", "unset"} THEN "on" ELSE c.tls,
                        !.unsafe = IF c.allow THEN Unsafe ELSE c.unsafe]

TLSEnabled(c) == ~("tls" \in c.unsafe /\ c.tls = "off")

\* A mutant: an even size is let through.
checkSafeDefaultsEven(c) ==
    /\ "tls" \in c.unsafe \/ c.tls = "on"
    /\ "pxcSize" \in c.unsafe \/ c.size \in 3..maxSafePXCSize
    /\ "proxySize" \in c.unsafe \/ c.proxy = "none" \/ c.psize >= minSafeProxySize

checkSafeDefaults(c) ==
    /\ "tls" \in c.unsafe \/ c.tls = "on"
    /\ "pxcSize" \in c.unsafe \/ (c.size \in 3..maxSafePXCSize /\ c.size % 2 # 0)
    /\ "proxySize" \in c.unsafe \/ c.proxy = "none" \/ c.psize >= minSafeProxySize

\* Older resources are corrected instead.
setSafeDefaults(c) ==
    LET bounded == IF c.size < 3 THEN 3 ELSE IF c.size > maxSafePXCSize THEN maxSafePXCSize
                   ELSE c.size
    IN IF c.allow THEN c
       ELSE [c EXCEPT !.size  = IF bounded % 2 = 0 THEN bounded + 1 ELSE bounded,
                      !.psize = IF c.proxy # "none" /\ c.psize < minSafeProxySize
                                THEN minSafeProxySize ELSE c.psize]

\* A cluster that stops is not judged by its sizes.
Judges(c) == ~c.deleting /\ ~c.pause

Judged(c)  == IF Judges(c) /\ c.version = "old" THEN setSafeDefaults(c) ELSE c
Refused(c) == Judges(c) /\ c.version = "new" /\ ~checkSafeDefaults(c)

\* A template in the configuration needs the memory limit of the container.
executeConfigurationTemplate(c) == ~c.template

\* The part of the proxies, and what a pause does to the sizes.
ProxyDefaults(c) ==
    [c EXCEPT !.expose = IF HAProxyEnabled(c) /\ @ = "nil" THEN "ok" ELSE @,
              !.psize  = IF c.pause /\ c.proxy # "none" THEN 0 ELSE @]
PXCDefaults(c) ==
    [c EXCEPT !.config = IF c.channels = "replica" /\ @ = "nil" THEN "ok" ELSE @,
              !.size   = IF c.pause THEN 0 ELSE @]

\* The certificates must last, and not beyond their authority.
DurationsValid(c) == TLSEnabled(c) => c.duration = "default"

Defaulted(c) == ProxyDefaults(PXCDefaults(Judged(Allowed(c))))

\* Where the defaults follow a pointer: the volumes and, once the sizes and
\* the template are accepted, the storage and the volume of each schedule.
FollowsNil(c) ==
    \/ c.volume = "nil"
    \/ /\ ~Refused(Allowed(c)) /\ executeConfigurationTemplate(c)
       /\ \/ ProxySQLEnabled(c) /\ c.pvolume = "nil"
          \/ c.schedule \in {"unknown", "noVolume"}
\* Where the pass does, after them.
NilLeft(d) ==
    \/ d.tls \in {"nil", "unset"} \/ (HAProxyEnabled(d) /\ d.expose = "nil")
    \/ (d.channels = "replica" /\ d.config = "nil")

CheckNSetDefaults(c) == IF ~Validate(c) THEN "invalid"
                        ELSE IF Refused(Allowed(c)) THEN "unsafe"
                        ELSE IF ~executeConfigurationTemplate(c) THEN "template"
                        ELSE IF ~DurationsValid(Allowed(c)) THEN "tls"
                        ELSE "ok"

Nothing == [size |-> 0, psize |-> 0, tls |-> FALSE, of |-> Ordinary]

DefaultsTypeOK ==
    /\ \A f \in Fields : res[f] \in Field[f]
    /\ applied.size \in Sizes /\ applied.psize \in 0..3 /\ applied.tls \in BOOLEAN
    /\ panicked \in BOOLEAN /\ outcome \in {"", "ok", "invalid", "unsafe", "template", "tls"}
    /\ edits \in 0..MaxEdits

DefaultsInit == /\ res \in {Ordinary, [Ordinary EXCEPT !.version = "old"]}
                /\ applied = Nothing /\ panicked = FALSE /\ outcome = "" /\ edits = MaxEdits

\* A pass up to the end of CheckNSetDefaults, and what the rest will use.
DefaultsPass ==
    LET d == Defaulted(res)
    IN /\ outcome' = CheckNSetDefaults(res)
       /\ panicked' = (panicked \/ (outcome' # "invalid" /\ FollowsNil(res))
                                \/ (outcome' = "ok" /\ NilLeft(d)))
       /\ applied' = IF outcome' # "ok" THEN applied
                     ELSE [size |-> d.size, psize |-> d.psize, tls |-> TLSEnabled(d), of |-> res]
       /\ UNCHANGED <<res, edits>>

\* ServeHTTP: whether a change is admitted.
ServeHTTP(c) == ~c.webhook \/ Validate(c)

\* The user changes a field; the crVersion only moves on.
EditResource ==
    /\ edits > 0 /\ edits' = edits - 1
    /\ \E f \in Fields : \E v \in Field[f] :
         LET c == [res EXCEPT ![f] = v]
         IN /\ v # res[f] /\ f = "version" => v = "new"
            /\ f = "deleting" => v
            /\ ServeHTTP(c) /\ res' = c
    /\ UNCHANGED <<applied, panicked, outcome>>

\* The autoscaler changes the size, past the webhook.
Scale == /\ edits > 0 /\ edits' = edits - 1
         /\ \E n \in Sizes : n # res.size /\ res' = [res EXCEPT !.size = n]
         /\ UNCHANGED <<applied, panicked, outcome>>

DefaultsNext == DefaultsPass \/ EditResource \/ Scale
DefaultsSpec == DefaultsInit /\ [][DefaultsNext]_dfvars

-----------------------------------------------------------------------------
\* The size closest to what was asked for that keeps a quorum.
SafeSize(n) == Min({s \in {3, 5} : s >= n} \union {5})

\* No pass goes on with a size or without TLS that the resource had no leave
\* for, by whatever edits, upgrade of the crVersion, pause or scaling it came
\* to: an unsafe size is refused or, in an older resource, made the closest
\* safe one.
OnlySafeApplied ==
    LET c == applied.of
        leave(flag) == c.allow \/ (c.version = "new" /\ flag \in c.unsafe)
    IN applied # Nothing /\ ~c.deleting /\ ~c.pause =>
         /\ leave("pxcSize") \/ applied.size = SafeSize(c.size)
         /\ leave("proxySize") \/ c.proxy = "none" \/ applied.psize >= minSafeProxySize
         /\ c.version = "new" /\ ~leave("tls") => applied.tls

\* A pass never follows a pointer the user left unset: what Validate lets
\* through, the defaults complete.
NothingNil == ~panicked

=============================================================================
