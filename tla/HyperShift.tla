----------------------------- MODULE HyperShift -----------------------------
(***************************************************************************)
(* The two controllers of the operator that keep exporters on HyperShift,  *)
(* run together: the KubeletConfig controller writes the ConfigMap of a    *)
(* pool, which is an event for the NUMAResourcesOperator controller, and   *)
(* the latter patches the status of the resource, which is an event for    *)
(* the former.  They are goroutines of one process with one cache.         *)
(***************************************************************************)
EXTENDS NROController

CONSTANTS
    KCs, Payloads, Excludes, KCChoices, InitKC, NoKC, NoOwner,  \* see KubeletConfigController
    InitExcludes,   \* spec.podExcludes of the resource when it is created
    MaxGen          \* bound on the generation of the resource

VARIABLES
    platform, kc, gc, queue, timers, work,  \* see KubeletConfigController
    excludes,   \* spec.podExcludes, in the API server and in the cache
    lost        \* pools of the deletions the process has forgotten

kcState == <<platform, kc, gc, queue, timers, work>>
hsVars == <<vars, kcState, excludes, lost>>

\* The two share the ConfigMaps.  The KubeletConfig controller reads the resource from
\* the cache.  On HyperShift the pools of the node groups do not matter to it; touch
\* is an update of the resource the cache has not received yet.
K == INSTANCE KubeletConfigController WITH
        Platforms <- {Platform}, Disturbances <- [p \in {Platform} |-> Disturbances],
        MissingPools <- {}, GroupChoices <- {{}},
        nro <- [exists |-> TRUE, groups |-> {}, excludes |-> excludes.view],
        touch <- view # cr

\* A KubeletConfig has its pool, and no ConfigMap has an owner: its contents are all
\* there is to it.  The specification at the start is one the operator accepts.
ASSUME HyperShiftAssumption ==
    /\ Platform = "HyperShift" /\ Datas = [data: Payloads \X Excludes, owner: {NoOwner}]
    /\ ValidNodeGroups(InitSpec.groups) /\ ~InitSpec.image
    /\ InitExcludes \in Excludes /\ NoKC \notin K!KCType
    /\ KCChoices \in [KCs -> SUBSET K!Content] /\ InitKC \in [KCs -> K!KCType \cup {NoKC}]
    /\ \A k \in KCs : /\ \A new \in KCChoices[k] : new.pools # {}
                      /\ InitKC[k] # NoKC => InitKC[k].pools # {}

\* The KubeletConfigs for pool p that can be used.
InitConfigs(p) ==
    {c \in {InitKC[k] : k \in KCs} \ {NoKC} : p \in c.pools /\ c.payload \notin {"nil", "bad"}}

\* The process starts where an earlier one had caught up with the resource, whose
\* pools all have exporters, and with the KubeletConfigs.
HSInit ==
    LET managed == ManagedDaemonSets(InitSpec.groups, InitMCP)
        group(p) == CHOOSE g \in {InitSpec.groups[i] : i \in DOMAIN InitSpec.groups} :
                        p \in TreeDaemonSets(g, InitMCP)
        data(p) == K!Render((CHOOSE c \in InitConfigs(p) : TRUE).payload, InitExcludes)
        conds == [InitStatus.conds EXCEPT !.base = "Available", !.gen = 1]
    IN  /\ cr = [InitCR EXCEPT !.status = [conds |-> conds, ds |-> managed, mcps |-> {},
                                           ngs |-> {<<p, group(p).cfg>> : p \in managed}]]
        /\ view = cr
        /\ mcp = InitMCP /\ mc = {} /\ shared = TRUE
        /\ cm = [p \in Pools |-> IF InitConfigs(p) = {} THEN NoCM
                                 ELSE [data |-> data(p), owner |-> NoOwner]]
        /\ ds = [p \in Pools |-> IF p \in managed
                                 THEN [custom |-> group(p).custom, cfg |-> group(p).cfg,
                                       hash |-> cm[p], owned |-> TRUE, rollout |-> "ready"]
                                 ELSE NoDS]
        /\ queued = TRUE /\ timer = FALSE /\ budget = Budget
        /\ pc = "idle" /\ inst = InitCR /\ snap = InitMCP /\ tree = 1
        /\ seen = [p \in Pools |-> NoDS] /\ hash = [p \in Pools |-> NoCM] /\ acc = NoResults
        /\ platform = Platform /\ kc = InitKC /\ gc = <<>> /\ timers = {} /\ work = K!Idle
        /\ queue = K!AllKubeletConfigs
        /\ excludes = [api |-> InitExcludes, view |-> InitExcludes] /\ lost = {}

-----------------------------------------------------------------------------
\* A step of the NUMAResourcesOperator controller, or of the cluster under it.
NROStep(step) == UNCHANGED <<excludes, kcState, lost>> /\ step

Notes(list) == {list[i] : i \in DOMAIN list}

\* A step of the KubeletConfig controller or of its users.  A ConfigMap created or
\* written is an event for the other controller; of a deleted one
\* configMapToNUMAResourceOperator finds nothing.  The notes that go without being
\* followed up are those the event handler appended while Reconcile shortened the list.
KCStep(step) ==
    /\ UNCHANGED <<cr, view, excludes, mcp, mc, ds, shared, timer, locals>>
    /\ step
    /\ queued' = (queued \/ \E p \in Pools : cm'[p] # cm[p] /\ cm'[p] # NoCM)
    /\ lost' = lost \cup {e.pool : e \in {n \in Notes(gc) \ Notes(gc') : n.kc # work.kc}}

\* The cache receives the resource: an event for the one controller, and for the
\* other if its predicate lets it through.
CacheReceives ==
    /\ UNCHANGED <<platform, kc, gc, timers, work, lost>>
    /\ excludes' = [excludes EXCEPT !.view = excludes.api]
    /\ WatchDeliver
    /\ queue' = IF K!nroPredicate(view.spec.groups, cr.spec.groups)
                THEN queue \cup K!AllKubeletConfigs ELSE queue

\* The user edits the resource, the node groups and the exclusions at once or not.
EditNRO(spec, e) ==
    /\ Disturb("spec") /\ cr.gen < MaxGen /\ <<spec, e>> # <<cr.spec, excludes.api>>
    /\ excludes' = [excludes EXCEPT !.api = e]
    /\ cr' = [cr EXCEPT !.spec = spec,
                        !.gen = IF e # excludes.api THEN @ + 1 ELSE Generation(spec)]
    /\ UNCHANGED <<view, objects, queued, timer, locals, kcState, lost>>

\* One process: both controllers lose their memory.
Restart ==
    /\ excludes' = [excludes EXCEPT !.view = excludes.api]
    /\ lost' = lost \cup {e.pool : e \in Notes(gc)}
    /\ Crash /\ K!Crash

\* What the process does by itself, in goroutines of their own.
NROWorker == NROStep(Reconcile \/ TimerFires)
KCWorker == KCStep(K!Reconcile \/ \E k \in KCs : K!TimerFires(k))
Process == NROWorker \/ KCWorker \/ CacheReceives

\* What the DaemonSet controller does.
Rollout(p) == NROStep(DSRollout(p) \/ DSReady(p))

HSNext ==
    \/ Process \/ Restart
    \/ \E p \in Pools : Rollout(p)
    \/ \E k \in KCs : \/ KCStep(K!DeleteKC(k))
                      \/ \E new \in KCChoices[k] : KCStep(K!SetKC(k, new))
    \/ \E spec \in Specs, e \in Excludes : EditNRO(spec, e)

HSSpec == HSInit /\ [][HSNext]_hsVars

\* Each of the process's goroutines goes on when it has something to do, and the
\* DaemonSet controller does its part.
HSFairSpec ==
    /\ HSSpec
    /\ WF_hsVars(NROWorker) /\ WF_hsVars(KCWorker) /\ WF_hsVars(CacheReceives)
    /\ \A p \in Pools : WF_hsVars(Rollout(p))

-----------------------------------------------------------------------------
(* Properties.                                                             *)

Usable(k) == kc[k] # NoKC /\ ~K!HandlerFails(k) /\ ~K!HandlerIgnores(k)

\* With both controllers asleep the exporters of a specification the operator accepts
\* run with the KubeletConfigs of their pools as they are now, rendered with the
\* present exclusions: an edit of either, which has to pass from one controller
\* through a ConfigMap to the other, and is let through by a predicate of each, has
\* not got lost on the way.  An exporter whose ConfigMap was deleted need not have
\* noticed.
ExportersFollowKubeletConfig ==
    Asleep /\ K!Asleep /\ ~cr.spec.pause /\ ToBeDone =>
        \A i \in DOMAIN groups : \A p \in TreeDaemonSets(groups[i], mcp) :
            /\ cm[p] # NoCM => UpToDate(p, groups[i])
            /\ \A k \in KCs : Usable(k) /\ p \in kc[k].pools =>
                 /\ cm[p] # NoCM
                 /\ ds[p].hash.data = K!Render(kc[k].payload, excludes.api)

\* A ConfigMap outlives its KubeletConfig only until the controller has caught up,
\* "when KubeletConfig will get deleted, the ConfigMap gets deleted as well"
\* (makeKCHandlerForPlatform), unless the note of the deletion is forgotten: it is in
\* memory only (garbageCollectionFor), and appended without a lock.
NoOrphanedConfig ==
    K!Settled => \A p \in Pools \ lost :
        cm[p] # NoCM => \E k \in KCs : kc[k] # NoKC /\ p \in kc[k].pools

\* Left alone the two come to rest, although each one's writes are events for the
\* other, but for KubeletConfigs that cannot be read, which are tried for ever.
BothComeToRest ==
    <>[](Asleep /\ work = K!Idle /\ queue \cup timers \subseteq K!Stuck)
=============================================================================
