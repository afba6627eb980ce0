---------------------- MODULE KubeletConfigController ----------------------
(***************************************************************************)
(* The KubeletConfig controller                                            *)
(* (internal/controller/kubeletconfig_controller.go): for every            *)
(* KubeletConfig that concerns a pool of the operator it keeps the         *)
(* ConfigMap the exporters of that pool mount.                             *)
(*                                                                         *)
(* On OpenShift a KubeletConfig selects pools by label and owns the        *)
(* ConfigMap made for it, which the garbage collector removes after it; on *)
(* HyperShift it is itself a ConfigMap with one pool, owns nothing, and    *)
(* the controller remembers the deleted ones in memory to clean up after   *)
(* them.                                                                   *)
(***************************************************************************)
EXTENDS Naturals, Sequences, FiniteSetsExt

CONSTANTS
    Platforms,      \* the ones of this instance, of "OpenShift" and "HyperShift"
    KCs,            \* names of KubeletConfigs
    Pools,          \* pool names
    MissingPools,   \* pools named by node groups that have no MachineConfigPool
    Payloads,       \* kubelet configurations
    Excludes,       \* values of spec.podExcludes
    GroupChoices,   \* sets of pools the node groups may select
    KCChoices,      \* what users may write into each KubeletConfig
    InitKC,         \* the KubeletConfigs at the start
    NoKC, NoCM, NoOwner,
    Disturbances,   \* kinds of external events and failures, for each platform
    Budget          \* bound on their number

VARIABLES
    platform,   \* what the process has detected
    kc,         \* KubeletConfigs
    nro,        \* the NUMAResourcesOperator resource, as far as it is read here
    cm,         \* the exporters' ConfigMaps
    gc,         \* garbageCollectionFor
    queue,      \* requests in the workqueue
    timers,     \* delayed requests
    touch,      \* the operator's controller has a status patch to make
    work,       \* the running Reconcile
    budget      \* disturbances left

cluster == <<platform, kc, nro, cm>>
vars == <<cluster, gc, queue, timers, touch, work, budget>>

\* An absent payload is "nil", one that cannot be decoded "bad".  The uid tells a
\* resource from an earlier one of the same name.
Content == [pools: SUBSET Pools, payload: Payloads \cup {"nil", "bad"}]
KCType == [pools: SUBSET Pools, payload: Payloads \cup {"nil", "bad"}, uid: 0 .. Budget]

Owner == [kc: KCs, uid: 0 .. Budget]
CMType == [data: Payloads \X Excludes, owner: Owner \cup {NoOwner}]

\* On HyperShift a KubeletConfig always has its pool.
ASSUME KCAssumption ==
    /\ Platforms \subseteq {"OpenShift", "HyperShift"}
    /\ GroupChoices \subseteq SUBSET Pools
    /\ Budget \in Nat
    /\ KCChoices \in [KCs -> SUBSET Content] /\ InitKC \in [KCs -> KCType \cup {NoKC}]
    /\ "HyperShift" \in Platforms =>
         \A k \in KCs : /\ \A new \in KCChoices[k] : new.pools # {}
                        /\ InitKC[k] # NoKC => InitKC[k].pools # {}
    /\ NoKC \notin KCType /\ NoCM \notin CMType /\ NoOwner \notin Owner

Idle == [stage |-> "idle"]

\* rteconfig.Render: what goes into the ConfigMap.
Render(payload, excludes) == <<payload, excludes>>

Disturb(kind) == kind \in Disturbances[platform] /\ budget > 0 /\ budget' = budget - 1

Init ==
    /\ platform \in Platforms /\ kc = InitKC
    /\ \E g \in GroupChoices, e \in Excludes : nro = [exists |-> TRUE, groups |-> g, excludes |-> e]
    /\ cm = [p \in Pools |-> NoCM]
    /\ gc = <<>> /\ timers = {} /\ touch = TRUE
    /\ queue = {k \in KCs : kc[k] # NoKC}
    /\ work = Idle /\ budget = Budget

-----------------------------------------------------------------------------
(* Reconcile.                                                              *)

\* getDeletedOwner.
getDeletedOwner(k) == {i \in DOMAIN gc : gc[i].kc = k}

\* removeDeletedOwner: the first entry for k goes.
removeDeletedOwner(k, list) ==
    LET hits == {i \in DOMAIN list : list[i].kc = k}
    IN  IF hits = {} THEN list
        ELSE LET i == Min(hits)
             IN  SubSeq(list, 1, i - 1) \o SubSeq(list, i + 1, Len(list))

\* makeKCHandlerForPlatform: the pools the KubeletConfig may be handled for, and
\* the two ways out of it without one.
HandledPools(k) ==
    IF platform = "OpenShift" THEN kc[k].pools \cap nro.groups ELSE kc[k].pools

HandlerFails(k) ==
    \/ kc[k] = NoKC
    \/ platform = "OpenShift" /\ nro.groups \cap MissingPools # {}
    \/ platform = "HyperShift" /\ kc[k].payload = "bad"

\* HandlerIgnores without the test for an empty payload.
HandlerIgnoresOthers(k) == HandledPools(k) = {}

HandlerIgnores(k) == HandledPools(k) = {} \/ kc[k].payload = "nil"

Finish == work' = Idle

\* Take a request.  Without the operator's resource it is tried again later, as
\* it is, rate limited, after an error.
Start(k) ==
    /\ work = Idle /\ k \in queue /\ queue' = queue \ {k}
    /\ LET deleted == getDeletedOwner(k)
           retry == timers' = timers \cup {k} /\ Finish
       IN  IF ~nro.exists THEN retry
           ELSE IF deleted # {}
           THEN /\ work' = [stage |-> "delete", kc |-> k, pool |-> gc[Min(deleted)].pool]
                /\ UNCHANGED timers
           ELSE IF HandlerFails(k) THEN retry
           ELSE IF HandlerIgnores(k) THEN Finish /\ UNCHANGED timers
           ELSE IF kc[k].payload = "bad" THEN retry
           ELSE /\ \E p \in HandledPools(k) :
                     work' = [stage |-> "write", kc |-> k, uid |-> kc[k].uid, pool |-> p,
                              data |-> Render(kc[k].payload, nro.excludes)]
                /\ UNCHANGED timers
    /\ UNCHANGED <<cluster, gc, touch, budget>>

\* Owners an event on a ConfigMap is mapped to; both the old and the new one.
Owners(old, new) ==
    {x.owner.kc : x \in {c \in {old, new} \ {NoCM} : c.owner # NoOwner}}

\* syncConfigMap if it updated the object without comparing it first.
WriteConfigMapAlways ==
    /\ work.stage = "write"
    /\ LET new == [data |-> work.data,
                   owner |-> IF platform = "OpenShift" THEN [kc |-> work.kc, uid |-> work.uid]
                             ELSE NoOwner]
       IN  /\ cm' = [cm EXCEPT ![work.pool] = new]
           /\ queue' = queue \cup Owners(cm[work.pool], new)
    /\ Finish
    /\ UNCHANGED <<platform, kc, nro, gc, timers, touch, budget>>

\* syncConfigMap.
WriteConfigMap ==
    /\ work.stage = "write"
    /\ LET p == work.pool
           new == [data |-> work.data,
                   owner |-> IF platform = "OpenShift" THEN [kc |-> work.kc, uid |-> work.uid]
                             ELSE NoOwner]
       IN  \/ /\ cm' = [cm EXCEPT ![p] = new]
              /\ queue' = IF cm[p] = new THEN queue ELSE queue \cup Owners(cm[p], new)
              /\ UNCHANGED <<timers, budget>>
           \/ Disturb("fault") /\ timers' = timers \cup {work.kc} /\ UNCHANGED <<cm, queue>>
    /\ Finish
    /\ UNCHANGED <<platform, kc, nro, gc, touch>>

\* deleteConfigMap if it forgot the KubeletConfig also when the deletion failed.
DeleteConfigMapOnce ==
    /\ work.stage = "delete"
    /\ work' = [stage |-> "forget", kc |-> work.kc, list |-> gc]
    /\ \/ cm' = [cm EXCEPT ![work.pool] = NoCM] /\ UNCHANGED budget
       \/ Disturb("fault") /\ UNCHANGED cm
    /\ UNCHANGED <<platform, kc, nro, gc, queue, timers, touch>>

\* deleteConfigMap, up to the deletion,
DeleteConfigMap ==
    /\ work.stage = "delete"
    /\ \/ /\ cm' = [cm EXCEPT ![work.pool] = NoCM]
          /\ work' = [stage |-> "forget", kc |-> work.kc, list |-> gc]
          /\ UNCHANGED <<timers, budget>>
       \/ Disturb("fault") /\ timers' = timers \cup {work.kc} /\ Finish /\ UNCHANGED cm
    /\ UNCHANGED <<platform, kc, nro, gc, queue, touch>>

\* and the assignment of the shortened list, which is not synchronized with the
\* event handler that appends to it.
ForgetDeleted ==
    /\ work.stage = "forget"
    /\ gc' = removeDeletedOwner(work.kc, work.list)
    /\ Finish
    /\ UNCHANGED <<cluster, queue, timers, touch, budget>>

TimerFires(k) ==
    /\ k \in timers /\ timers' = timers \ {k} /\ queue' = queue \cup {k}
    /\ UNCHANGED <<cluster, gc, touch, work, budget>>

\* Restart: memory is lost, and the initial lists queue what exists.
Crash ==
    /\ Disturb("crash")
    /\ gc' = <<>> /\ timers' = {} /\ work' = Idle
    /\ queue' = {k \in KCs : kc[k] # NoKC} \cup
                  UNION {Owners(cm[p], cm[p]) : p \in Pools}
    /\ UNCHANGED <<cluster, touch>>

-----------------------------------------------------------------------------
(* Users, the garbage collector and the operator's resource.               *)

Written(new, uid) == [pools |-> new.pools, payload |-> new.payload, uid |-> uid]

\* A KubeletConfig is written, or created with a uid no earlier one has.
SetKC(k, new) ==
    /\ \/ kc[k] = NoKC /\ Disturb("create") /\ kc' = [kc EXCEPT ![k] = Written(new, budget')]
       \/ /\ kc[k] # NoKC /\ kc[k] # Written(new, kc[k].uid) /\ Disturb("edit")
          /\ kc' = [kc EXCEPT ![k] = Written(new, kc[k].uid)]
    /\ queue' = queue \cup {k}
    /\ UNCHANGED <<platform, nro, cm, gc, timers, touch, work>>

\* A KubeletConfig is deleted: ignored on OpenShift; on HyperShift the predicate
\* itself takes a note of it.
DeleteKC(k) ==
    /\ kc[k] # NoKC /\ Disturb("delete")
    /\ kc' = [kc EXCEPT ![k] = NoKC]
    /\ IF platform = "HyperShift"
       THEN /\ gc' = Append(gc, [kc |-> k, pool |-> CHOOSE p \in kc[k].pools : TRUE])
            /\ queue' = queue \cup {k}
       ELSE UNCHANGED <<gc, queue>>
    /\ UNCHANGED <<platform, nro, cm, timers, touch, work>>

\* A ConfigMap goes, by the garbage collector after its owner, or by hand.
RemoveCM(p) ==
    /\ cm[p] # NoCM /\ cm' = [cm EXCEPT ![p] = NoCM]
    /\ queue' = queue \cup Owners(cm[p], NoCM)
    /\ UNCHANGED <<platform, kc, nro, gc, timers, touch, work>>

GarbageCollect(p) ==
    /\ cm[p] # NoCM /\ cm[p].owner # NoOwner
    /\ LET o == cm[p].owner IN kc[o.kc] # NoKC => kc[o.kc].uid # o.uid
    /\ RemoveCM(p) /\ UNCHANGED budget

DeleteCM(p) == RemoveCM(p) /\ Disturb("cmdelete")

\* numaResourcesOperatorPredicate as its comment reads.
nroPredicateOnChange(old, new) == old # new

\* numaResourcesOperatorPredicate: which updates of the resource are looked at.
nroPredicate(old, new) == old = new

\* numaResourcesOperatorToKubeletConfig.
AllKubeletConfigs == {k \in KCs : kc[k] # NoKC}

\* The specification changes; the operator's own controller will patch the status.
EditNRO(g, e) ==
    /\ nro.exists /\ <<g, e>> # <<nro.groups, nro.excludes>> /\ Disturb("spec")
    /\ nro' = [nro EXCEPT !.groups = g, !.excludes = e]
    /\ queue' = IF nroPredicate(nro.groups, g) THEN queue \cup AllKubeletConfigs ELSE queue
    /\ touch' = TRUE
    /\ UNCHANGED <<platform, kc, cm, gc, timers, work>>

\* That patch is an update with the same node groups.
PatchNROStatus ==
    /\ touch /\ nro.exists /\ touch' = FALSE
    /\ queue' = IF nroPredicate(nro.groups, nro.groups) THEN queue \cup AllKubeletConfigs ELSE queue
    /\ UNCHANGED <<cluster, gc, timers, work, budget>>

\* The resource is created or deleted: no predicate on that.
ToggleNRO ==
    /\ Disturb("toggle")
    /\ nro' = [nro EXCEPT !.exists = ~@]
    /\ queue' = queue \cup AllKubeletConfigs
    /\ touch' = nro'.exists
    /\ UNCHANGED <<platform, kc, cm, gc, timers, work>>

Reconcile == (\E k \in KCs : Start(k)) \/ WriteConfigMap \/ DeleteConfigMap \/ ForgetDeleted

Next ==
    \/ Reconcile \/ Crash \/ PatchNROStatus \/ ToggleNRO
    \/ \E k \in KCs : TimerFires(k) \/ DeleteKC(k) \/ \E new \in KCChoices[k] : SetKC(k, new)
    \/ \E p \in Pools : GarbageCollect(p) \/ DeleteCM(p)
    \/ \E g \in GroupChoices, e \in Excludes : EditNRO(g, e)

Spec == Init /\ [][Next]_vars

\* The worker goes on with what it began and the workqueue is first in, first
\* out; delayed requests, the garbage collector and the operator's status patch
\* come too.
FairSpec ==
    /\ Spec
    /\ WF_vars(Reconcile) /\ WF_vars(PatchNROStatus)
    /\ \A k \in KCs : SF_vars(Start(k)) /\ WF_vars(TimerFires(k))
    /\ \A p \in Pools : WF_vars(GarbageCollect(p))

-----------------------------------------------------------------------------
(* Properties.                                                             *)

\* Every variable has its type.
TypeOK ==
    /\ platform \in Platforms /\ kc \in [KCs -> KCType \cup {NoKC}]
    /\ nro \in [exists: BOOLEAN, groups: SUBSET Pools, excludes: Excludes]
    /\ cm \in [Pools -> CMType \cup {NoCM}]
    /\ gc \in Seq([kc: KCs, pool: Pools])
    /\ queue \subseteq KCs /\ timers \subseteq KCs
    /\ touch \in BOOLEAN /\ budget \in 0 .. Budget
    /\ work \in {Idle} \cup [stage: {"write"}, kc: KCs, uid: 0 .. Budget, pool: Pools,
                             data: Payloads \X Excludes]
                \cup [stage: {"delete"}, kc: KCs, pool: Pools]
                \cup [stage: {"forget"}, kc: KCs, list: Seq([kc: KCs, pool: Pools])]

Asleep == work = Idle /\ queue = {} /\ timers = {} /\ ~touch

\* With nothing left to do, every usable KubeletConfig has reached the ConfigMap
\* of a pool it is handled for, rendered with the present exclusions: neither
\* edits of the node groups nor of the exclusions, nor conflicting writes,
\* crashes or deleted ConfigMaps are missed (SetupWithManager, Reconcile).
ConfigReachesPool ==
    Asleep /\ nro.exists =>
        \A k \in KCs :
            kc[k] # NoKC /\ ~HandlerFails(k) /\ ~HandlerIgnores(k) /\ kc[k].payload # "bad" =>
                \E p \in HandledPools(k) :
                    cm[p] # NoCM /\ cm[p].data = Render(kc[k].payload, nro.excludes)

\* Only requests for KubeletConfigs that are gone are left, and none is known to
\* have a ConfigMap to delete.
Settled == work = Idle /\ ~touch /\ gc = <<>> /\ \A k \in queue \cup timers : kc[k] = NoKC

\* Requests that cannot succeed as things are: they come back for ever.
Stuck == {k \in KCs : \/ ~nro.exists \/ HandlerFails(k)
                      \/ ~HandlerIgnores(k) /\ kc[k].payload = "bad"}

\* Left alone, the controller comes to rest but for the requests that cannot
\* succeed: its own writes, mapped back to it through the owner of the ConfigMap
\* (Owns in SetupWithManager), do not keep waking it.
ComesToRest == <>[](work = Idle /\ ~touch /\ queue \cup timers \subseteq Stuck)

\* SetupWithManager filters the deletion of a KubeletConfig out because "we have
\* nothing to do in case of deletion": one that is gone is not worked on for ever.
DeletionNeedsNothing == \A k \in KCs : <>[](kc[k] = NoKC => k \notin queue \cup timers)
=============================================================================
