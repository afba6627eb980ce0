--------------------------- MODULE NROController ---------------------------
(***************************************************************************)
(* The NUMAResourcesOperator controller                                    *)
(* (internal/controller/numaresourcesoperator_controller.go) together with *)
(* the parts of the cluster it reads and writes.                           *)
(*                                                                         *)
(* One Reconcile call is a chain of steps, one for each point where the    *)
(* code reads or writes the API: the node groups are taken from a cached   *)
(* copy of the resource, the MachineConfigPools from one List, DaemonSets  *)
(* and ConfigMap hashes are read per tree and written later, and the       *)
(* status is patched at the end.  Users, the machine config operator, the  *)
(* DaemonSet controller, the watch cache and crashes interleave with them. *)
(***************************************************************************)
EXTENDS NodeGroups, TreeResults

CONSTANTS
    Specs,              \* specifications the user may write, see SpecType
    Datas,              \* contents of the kubelet ConfigMaps
    NoCM,               \* no ConfigMap for the pool
    NoDS,               \* no DaemonSet for the pool
    NoMCSelector,       \* pools without a machineConfigSelector
    BadMCSelector,      \* pools whose selector rejects the generated label
    NoNodeSelector,     \* pools without a nodeSelector
    ForeignDS,          \* pools with a same-named DaemonSet of another owner
    Disturbances,       \* kinds of external events and failures of this instance
    Budget              \* bound on their number

CONSTANTS
    InitSpec,           \* the specification the resource is created with
    InitMCP             \* the MachineConfigPools at that time

ASSUME SpecsAssumption ==
    /\ Specs \subseteq [groups: Seq(NodeGroup), multi: BOOLEAN, pause: BOOLEAN, image: BOOLEAN]
    /\ InitSpec \in Specs
    /\ NoCM \notin Datas
    /\ Budget \in Nat

VARIABLES
    cr,         \* the NUMAResourcesOperator resource in the API server
    view,       \* the operator's cached copy of it
    mcp,        \* MachineConfigPools
    mc,         \* pools whose MachineConfig exists
    ds,         \* DaemonSets
    cm,         \* kubelet ConfigMaps, written by the KubeletConfig controller
    shared,     \* whether the CRD and the shared objects are in place
    queued,     \* a request is in the workqueue
    timer,      \* a delayed request is pending
    budget,     \* disturbances left
    pc,         \* where the running Reconcile is
    inst,       \* the copy of the resource it works on
    snap,       \* the MachineConfigPools it listed
    tree,       \* index of the tree in process
    seen,       \* the DaemonSets it read for the tree
    hash,       \* the ConfigMap hashes it read for the tree
    acc         \* results of the trees so far

objects == <<mcp, mc, ds, cm, shared>>
locals == <<pc, inst, snap, tree, seen, hash, acc>>
vars == <<cr, view, objects, queued, timer, budget, locals>>

-----------------------------------------------------------------------------
\* base is the one condition of Available, Progressing, Degraded that is true
\* (Available always comes with Upgradeable), msg its message, gen its observed
\* generation; ltt stands for the transition times, which are compared too when
\* a patch is computed.  A message is the pool it names or what failed.
Messages == Pools \cup {NoMessage, "spec", "trees", "list", "shared", "multi"}
Conditions == [base: StepTypes \cup {"Unset"}, msg: Messages, gen: Nat,
               paused: SUBSET Pools, ltt: {0, 1}]

Status == [conds: Conditions, ds: SUBSET Pools, mcps: SUBSET Pools,
           ngs: SUBSET (Pools \X Configs)]

StepType == [type: StepTypes, after: {0, 5, 60}, msg: Messages, failed: BOOLEAN]

\* The outcome of a tree, and of the trees so far.
Results == [ds: SUBSET Pools, mcps: SUBSET Pools, paused: SUBSET Pools, step: StepType]

CRType == [spec: Specs, gen: Nat, status: Status]

MCPType == [exists: BOOLEAN, label: Labels, paused: BOOLEAN, src: BOOLEAN, upd: BOOLEAN]

\* rollout: "unseen" by the DaemonSet controller, with counters that are all zero
\* (created) or those of the previous revision, all ready (changed); "rolling"
\* pods missing; "ready" all pods ready.
DSType == [custom: BOOLEAN, cfg: Configs, hash: Datas \cup {NoCM}, owned: BOOLEAN,
           rollout: {"unseen", "rolling", "ready"}]

ASSUME InitAssumption ==
    InitMCP \in [Pools -> MCPType] /\ NoDS \notin DSType /\ Configs # {}

InitStatus == [conds |-> [base |-> "Unset", msg |-> NoMessage, gen |-> 0, paused |-> {}, ltt |-> 0],
               ds |-> {}, mcps |-> {}, ngs |-> {}]

\* No pod desired, or all desired pods ready.
isDaemonSetReady(d) == d.rollout # "rolling"

\* IsMachineConfigPoolUpdated and IsMachineConfigPoolUpdatedAfterDeletion.
PoolUpdated(m, custom) == m.src = custom /\ m.upd

InitCR == [spec |-> InitSpec, gen |-> 1, status |-> InitStatus]

\* The node group in process and the pools of its tree, as listed.
Group == inst.spec.groups[tree]
TreePools == TreeDaemonSets(Group, snap)

\* The local variables of a Reconcile that is not running.
Reset ==
    /\ pc' = "idle" /\ inst' = InitCR /\ snap' = InitMCP /\ tree' = 1
    /\ seen' = [p \in Pools |-> NoDS] /\ hash' = [p \in Pools |-> NoCM]
    /\ acc' = NoResults

Disturb(kind) == kind \in Disturbances /\ budget > 0 /\ budget' = budget - 1

Init ==
    /\ cr = InitCR /\ view = InitCR
    /\ mcp = InitMCP /\ mc = {} /\ cm = [p \in Pools |-> NoCM] /\ shared = FALSE
    /\ ds = [p \in Pools |-> IF p \in ForeignDS
                             THEN [custom |-> FALSE, cfg |-> CHOOSE c \in Configs : TRUE,
                                   hash |-> NoCM, owned |-> FALSE, rollout |-> "ready"]
                             ELSE NoDS]
    /\ queued = TRUE /\ timer = FALSE /\ budget = Budget
    /\ pc = "idle" /\ inst = InitCR /\ snap = InitMCP /\ tree = 1
    /\ seen = [p \in Pools |-> NoDS] /\ hash = [p \in Pools |-> NoCM]
    /\ acc = NoResults

-----------------------------------------------------------------------------
(* Reconcile.                                                              *)

\* The pause annotation: nothing is done and nothing is requeued.
SkipPaused ==
    /\ pc = "idle" /\ queued /\ view.spec.pause
    /\ queued' = FALSE
    /\ UNCHANGED <<cr, view, objects, timer, budget, locals>>

\* Get the resource and list the pools, both from the cache, and validate:
\* NodeGroups, getTreesByNodeGroup, NodeGroupsTree.
StartReconcile ==
    /\ pc = "idle" /\ queued /\ ~view.spec.pause
    /\ queued' = FALSE
    /\ inst' = view /\ snap' = mcp
    /\ \/ /\ pc' = CASE view.spec.image \/ ~ValidNodeGroups(view.spec.groups) -> "degrade spec"
                     [] ~TreesFound(view.spec.groups, mcp) -> "degrade trees"
                     [] ~ValidTrees(view.spec.groups, mcp) -> "degrade trees"
                     [] OTHER -> "shared"
          /\ UNCHANGED budget
       \/ /\ ~view.spec.image /\ ValidNodeGroups(view.spec.groups)
          /\ Disturb("listfault") /\ pc' = "degrade list"
    /\ UNCHANGED <<cr, view, objects, timer, tree, seen, hash, acc>>

\* The CRD and the tree-agnostic objects; creating an owned object is an event.
SyncShared ==
    /\ pc = "shared"
    /\ \/ /\ shared' = TRUE /\ queued' = (queued \/ ~shared) /\ pc' = "cleanup"
          /\ UNCHANGED budget
       \/ Disturb("fault") /\ pc' = "failed" /\ UNCHANGED <<shared, queued>>
    /\ UNCHANGED <<cr, view, mcp, mc, ds, cm, timer, inst, snap, tree, seen, hash, acc>>

\* What DeleteUnusedDaemonSets would remove if it did not look at the owner.
danglingIgnoringOwner(names) == {p \in Pools : ds[p] # NoDS /\ p \notin names}

\* What it would remove if it only looked for pools that are gone.
danglingPoolGone(names) ==
    {p \in Pools : ds[p] # NoDS /\ ds[p].owned /\ p \notin names /\ ~snap[p].exists}

\* The DaemonSets owned by the operator no tree accounts for.
danglingDaemonSets(names) == {p \in Pools : ds[p] # NoDS /\ ds[p].owned /\ p \notin names}

danglingMachineConfigs(names) == IF Platform = "OpenShift" THEN mc \ names ELSE {}

\* DeleteUnusedDaemonSets and DeleteUnusedMachineConfigs: a failed deletion is
\* logged and reconciliation goes on, with no retry of its own.
Cleanup ==
    /\ pc = "cleanup"
    /\ LET unusedDS == danglingDaemonSets(buildDaemonSetNames(inst.spec.groups, snap))
           unusedMC == danglingMachineConfigs(expectedMachineConfigNames(inst.spec.groups, snap))
       IN  \E D \in SUBSET unusedDS, M \in SUBSET unusedMC :
             /\ IF D = unusedDS /\ M = unusedMC THEN UNCHANGED budget ELSE Disturb("cleanupfault")
             /\ ds' = [p \in Pools |-> IF p \in D THEN NoDS ELSE ds[p]]
             /\ mc' = mc \ M
             /\ queued' = (queued \/ D # {} \/ M # {})
    /\ pc' = IF inst.spec.groups = <<>> THEN "status" ELSE "tree"
    /\ UNCHANGED <<cr, view, mcp, cm, shared, timer, inst, snap, tree, seen, hash, acc>>

\* Record the result of the tree in process and go to the next one.
EndTree(result) ==
    /\ acc' = ReduceStep(acc, result)
    /\ pc' = IF tree < Len(inst.spec.groups) THEN "tree" ELSE "status"
    /\ tree' = IF tree < Len(inst.spec.groups) THEN tree + 1 ELSE tree
    /\ seen' = [p \in Pools |-> NoDS] /\ hash' = [p \in Pools |-> NoCM]

\* existing.PerTree: the DaemonSets of the tree and the hashes of its ConfigMaps.
ReadTree ==
    /\ seen' = [p \in Pools |-> IF p \in TreePools THEN ds[p] ELSE NoDS]
    /\ hash' = [p \in Pools |-> IF p \in TreePools THEN cm[p] ELSE NoCM]

\* The pools of the tree MachineConfigsState hands on: a paused pool and a pool
\* without a machine config selector are left alone.
PausedPools == {p \in TreePools : snap[p].paused}
WaitPools == TreePools \ (PausedPools \cup NoMCSelector)

\* Those of them the machine config operator has not brought up to date.
PendingPools == {p \in WaitPools : ~PoolUpdated(snap[p], Group.custom)}

\* WithMachineConfigs if a MachineConfig no longer wanted were kept.
WithMachineConfigsKept(D) == IF Group.custom THEN mc \cup D ELSE mc

\* MachineConfigs after the tree's ones are created, or deleted, for pools D.
WithMachineConfigs(D) == IF Group.custom THEN mc \cup D ELSE mc \ D

\* Create or delete the MachineConfigs of the tree, then wait for its pools.
reconcilePerTreeMachineConfig ==
    LET rejected == IF Group.custom THEN WaitPools \cap BadMCSelector ELSE {}
        result(mcps, step) == [ds |-> {}, mcps |-> mcps, paused |-> PausedPools, step |-> step]
    IN  \E D \in SUBSET (WaitPools \ rejected) :
          /\ mc' = WithMachineConfigs(D)
          /\ queued' = (queued \/ mc' # mc)
          /\ \/ /\ D # WaitPools
                /\ IF rejected # {} THEN UNCHANGED budget ELSE Disturb("fault")
                /\ EndTree(result({}, StepFailed))
             \/ /\ D = WaitPools /\ UNCHANGED budget
                /\ \E p \in PendingPools, visited \in SUBSET (TreePools \ PendingPools) :
                     EndTree(result(visited \cup {p}, WithMessage(StepOngoing(60), p)))
             \/ /\ D = WaitPools /\ PendingPools = {} /\ UNCHANGED budget
                /\ IF PausedPools # {}
                   THEN EndTree(result(TreePools, StepOngoing(0)))
                   ELSE pc' = "apply" /\ ReadTree /\ UNCHANGED <<tree, acc>>

\* The first half of an iteration over the trees; HyperShift has no machine configs.
SyncTree ==
    /\ pc = "tree"
    /\ IF Platform = "OpenShift"
       THEN reconcilePerTreeMachineConfig
       ELSE pc' = "apply" /\ ReadTree /\ UNCHANGED <<mc, queued, budget, tree, acc>>
    /\ UNCHANGED <<cr, view, mcp, ds, cm, shared, timer, inst, snap>>

\* Applied if the merge dropped the status of the existing DaemonSet,
AppliedWithoutStatus(p) ==
    [custom |-> Group.custom, cfg |-> Group.cfg, hash |-> hash[p], owned |-> TRUE,
     rollout |-> "unseen"]

\* and if the hash of the ConfigMap were not part of what is compared.
AppliedIgnoringHash(p) ==
    LET old == seen[p]
        new(rollout) == [custom |-> Group.custom, cfg |-> Group.cfg, hash |-> hash[p],
                         owned |-> TRUE, rollout |-> rollout]
    IN  IF old = NoDS THEN new("unseen")
        ELSE IF [old EXCEPT !.owned = TRUE, !.hash = hash[p]] = new(old.rollout) THEN old
        ELSE new(IF old.rollout = "rolling" THEN "rolling" ELSE "unseen")

\* A DaemonSet after the object built for the tree is applied over it.  Merging
\* keeps the status, so the counters of the previous revision stay.
Applied(p) ==
    LET old == seen[p]
        new(rollout) == [custom |-> Group.custom, cfg |-> Group.cfg, hash |-> hash[p],
                         owned |-> TRUE, rollout |-> rollout]
    IN  IF old = NoDS THEN new("unseen")
        ELSE IF [old EXCEPT !.owned = TRUE] = new(old.rollout) THEN new(old.rollout)
        ELSE new(IF old.rollout = "rolling" THEN "rolling" ELSE "unseen")

\* The result of a tree whose machine configs are in place; an unpaused tree.
DaemonSetResult(step) ==
    [ds |-> TreePools, mcps |-> IF Platform = "OpenShift" THEN TreePools ELSE {},
     paused |-> {}, step |-> step]

\* applyObjects on the DaemonSets of the tree.  The API server refuses to write an
\* object changed since it was read (resource version, or already exists); one
\* that compares equal to what is wanted may not be written at all, and then its
\* change goes unnoticed.  A pool without node selector cannot be turned into a
\* DaemonSet; the objects before the failing one stay applied.
ApplyDaemonSets ==
    /\ pc = "apply"
    /\ LET changed == {p \in TreePools : ds[p] # seen[p]}
           invalid == IF Platform = "OpenShift" THEN TreePools \cap NoNodeSelector ELSE {}
           refused == {p \in changed : Applied(p) # seen[p]} \cup invalid
       IN  \E D \in SUBSET (TreePools \ refused) :
             /\ ds' = [p \in Pools |-> IF p \in D \ changed THEN Applied(p) ELSE ds[p]]
             /\ queued' = (queued \/ ds' # ds)
             /\ IF D = TreePools
                THEN pc' = "ready" /\ UNCHANGED <<budget, tree, seen, hash, acc>>
                ELSE /\ IF changed \cup invalid \subseteq D THEN Disturb("fault")
                                                            ELSE UNCHANGED budget
                     /\ EndTree(DaemonSetResult(StepFailed))
    /\ UNCHANGED <<cr, view, mcp, mc, cm, shared, timer, inst, snap>>

\* Get every DaemonSet of the tree back and look at its readiness.  The cache
\* may still hold what was read before the apply.
CheckDaemonSets ==
    /\ pc = "ready"
    /\ \E stale \in SUBSET {p \in TreePools : seen[p] # ds[p]} :
         LET got(p) == IF p \in stale THEN seen[p] ELSE ds[p]
             missing == {p \in TreePools : got(p) = NoDS}
             waiting == {p \in TreePools \ missing : ~isDaemonSetReady(got(p))}
         IN  /\ IF stale = {} THEN UNCHANGED budget ELSE Disturb("stale")
             /\ \/ missing # {} /\ EndTree(DaemonSetResult(StepFailed))
                \/ \E p \in waiting : EndTree(DaemonSetResult(WithMessage(StepOngoing(5), p)))
                \/ missing = {} /\ waiting = {} /\ EndTree(DaemonSetResult(StepSuccess))
    /\ UNCHANGED <<cr, view, objects, queued, timer, inst, snap>>

-----------------------------------------------------------------------------
(* The end of Reconcile.                                                   *)

\* Status().Patch(MergeFrom(initialInstance)): only the fields that differ from
\* the cached copy are sent, and each replaces the one in the API server.
MergeFrom(new, read, stored) == IF new = read THEN stored ELSE new

PatchedStatus(new) ==
    [conds |-> MergeFrom(new.conds, inst.status.conds, cr.status.conds),
     ds    |-> MergeFrom(new.ds, inst.status.ds, cr.status.ds),
     mcps  |-> MergeFrom(new.mcps, inst.status.mcps, cr.status.mcps),
     ngs   |-> MergeFrom(new.ngs, inst.status.ngs, cr.status.ngs)]

Patched(new) == [cr EXCEPT !.status = PatchedStatus(new)]

\* PatchStatus if Reconcile returned without its error,
PatchStatusNoRetry(status, retry, after) ==
    /\ \/ /\ cr' = Patched(status)
          /\ timer' = (timer \/ after > 0)
          /\ UNCHANGED <<queued, budget>>
       \/ Disturb("fault") /\ queued' = TRUE /\ UNCHANGED <<cr, timer>>
    /\ Reset
    /\ UNCHANGED <<view, objects>>

\* and if it returned without its delay.
PatchStatusNoRequeue(status, retry, after) ==
    /\ \/ /\ cr' = Patched(status)
          /\ queued' = (queued \/ retry)
          /\ UNCHANGED <<timer, budget>>
       \/ Disturb("fault") /\ queued' = TRUE /\ UNCHANGED <<cr, timer>>
    /\ Reset
    /\ UNCHANGED <<view, objects>>

\* The status patch, or its failure, which makes the request come back.
PatchStatus(status, retry, after) ==
    /\ \/ /\ cr' = Patched(status)
          /\ queued' = (queued \/ retry) /\ timer' = (timer \/ after > 0)
          /\ UNCHANGED budget
       \/ Disturb("fault") /\ queued' = TRUE /\ UNCHANGED <<cr, timer>>
    /\ Reset
    /\ UNCHANGED <<view, objects>>

Conds(base, msg) == [inst.status.conds EXCEPT !.base = base, !.msg = msg, !.gen = inst.gen]

\* degradeStatus: the rest of the status is kept, and no error is returned.
DegradeStatus ==
    /\ pc \in {"degrade spec", "degrade trees", "degrade list"}
    /\ LET why == CASE pc = "degrade spec" -> "spec" [] pc = "degrade trees" -> "trees"
                     [] pc = "degrade list" -> "list"
       IN  PatchStatus([inst.status EXCEPT !.conds = Conds("Degraded", why)], FALSE, 0)

\* A failure of the shared objects: only the conditions change; retried.
ReportFailure ==
    /\ pc = "failed"
    /\ PatchStatus([inst.status EXCEPT !.conds = Conds("Degraded", "shared")], TRUE, 0)

\* syncNodeGroupsStatus if it stopped after the first node group.
syncFirstNodeGroupStatus(pools) ==
    {<<p, inst.spec.groups[1].cfg>> : p \in pools \cap TreeDaemonSets(inst.spec.groups[1], snap)}

\* Every pool of a completed reconciliation with the configuration of its group.
syncNodeGroupsStatus(pools) ==
    UNION {{<<p, inst.spec.groups[i].cfg>> : p \in pools \cap TreeDaemonSets(inst.spec.groups[i], snap)}
             : i \in DOMAIN inst.spec.groups}

\* The tail of reconcileResource and of Reconcile.  When several pools share a
\* group without the annotation, a completed reconciliation is first turned to
\* Available and then to Degraded, which renews the transition times.
UpdateStatus ==
    /\ pc = "status"
    /\ LET done == Done(acc.step)
           tolerable == done /\ MultipleMCPsPerTree(inst.spec.groups, snap, inst.spec.multi)
           conds == IF tolerable THEN Conds("Degraded", "multi")
                    ELSE Conds(acc.step.type, acc.step.msg)
       IN  \E t \in (IF tolerable THEN {0, 1} ELSE {inst.status.conds.ltt}) :
             PatchStatus([conds |-> [conds EXCEPT !.paused = acc.paused, !.ltt = t],
                          ds    |-> acc.ds,
                          mcps  |-> acc.mcps,
                          ngs   |-> IF done THEN syncNodeGroupsStatus(acc.ds)
                                    ELSE inst.status.ngs],
                         Failed(acc.step), acc.step.after)

Reconcile ==
    \/ SkipPaused \/ StartReconcile \/ SyncShared \/ Cleanup \/ SyncTree
    \/ ApplyDaemonSets \/ CheckDaemonSets \/ DegradeStatus \/ ReportFailure \/ UpdateStatus

-----------------------------------------------------------------------------
(* The workqueue, the watch on the resource, and restarts.                 *)

\* A delayed request becomes due.
TimerFires ==
    /\ timer /\ timer' = FALSE /\ queued' = TRUE
    /\ UNCHANGED <<cr, view, objects, budget, locals>>

\* WatchDeliver if the controller only reacted to changes of the specification.
WatchDeliverGenerationChanged ==
    /\ view # cr /\ view' = cr /\ queued' = (queued \/ view.gen # cr.gen)
    /\ UNCHANGED <<cr, objects, timer, budget, locals>>

\* The cache receives the resource.  For() has no predicate: any change, the
\* operator's own status patch included, queues a request.
WatchDeliver ==
    /\ view # cr /\ view' = cr /\ queued' = TRUE
    /\ UNCHANGED <<cr, objects, timer, budget, locals>>

\* The process dies and restarts: its memory and delayed requests are gone and
\* the initial list of the watches queues the resource.
Crash ==
    /\ Disturb("crash")
    /\ Reset
    /\ view' = cr /\ queued' = TRUE /\ timer' = FALSE
    /\ UNCHANGED <<cr, objects>>

-----------------------------------------------------------------------------
(* Users and other controllers.                                            *)

\* The generation after an edit; annotations do not change it.
Generation(spec) ==
    IF spec.groups = cr.spec.groups /\ spec.image = cr.spec.image THEN cr.gen ELSE cr.gen + 1

\* The user edits the resource.
EditSpec(spec) ==
    /\ Disturb("edit") /\ spec # cr.spec
    /\ cr' = [cr EXCEPT !.spec = spec, !.gen = Generation(spec)]
    /\ UNCHANGED <<view, objects, queued, timer, locals>>

\* mcpToNUMAResourceOperator: the pool is read again, so a deleted one maps to
\* nothing, and it is matched by the labels it has now.
mcpToNUMAResourceOperator(p, m) ==
    /\ Platform = "OpenShift" /\ m.exists
    /\ \E i \in DOMAIN view.spec.groups : nodeGroupMatchesMCP(view.spec.groups[i], p, m.label)

\* An update of a MachineConfigPool the predicate of the watch lets through.
SetMCP(p, m) ==
    /\ mcp' = [mcp EXCEPT ![p] = m]
    /\ queued' = (queued \/ mcpToNUMAResourceOperator(p, m))
    /\ UNCHANGED <<cr, view, mc, ds, cm, shared, timer, locals>>

PausePool(p) ==
    /\ mcp[p].exists /\ Disturb("pause") /\ SetMCP(p, [mcp[p] EXCEPT !.paused = ~@])

RelabelPool(p, label) ==
    /\ mcp[p].exists /\ label # mcp[p].label /\ Disturb("relabel")
    /\ SetMCP(p, [mcp[p] EXCEPT !.label = label])

TogglePool(p) == Disturb("pools") /\ SetMCP(p, [mcp[p] EXCEPT !.exists = ~@])

\* The machine config operator starts a rollout of its own.
RolloutPool(p) ==
    /\ mcp[p].exists /\ mcp[p].upd /\ Disturb("rollout")
    /\ SetMCP(p, [mcp[p] EXCEPT !.upd = FALSE])

\* The machine config operator notices the MachineConfig of a pool come or go,
MCOStart(p) ==
    /\ mcp[p].exists /\ ~mcp[p].paused /\ mcp[p].upd /\ mcp[p].src # (p \in mc)
    /\ SetMCP(p, [mcp[p] EXCEPT !.upd = FALSE]) /\ UNCHANGED budget

\* and has applied it to all the nodes.
MCODone(p) ==
    /\ mcp[p].exists /\ ~mcp[p].paused /\ ~mcp[p].upd
    /\ SetMCP(p, [mcp[p] EXCEPT !.upd = TRUE, !.src = (p \in mc)]) /\ UNCHANGED budget

\* A change of a DaemonSet; of status-only updates the predicate keeps none.
SetDS(p, d, event) ==
    /\ ds' = [ds EXCEPT ![p] = d]
    /\ queued' = (queued \/ event)
    /\ UNCHANGED <<cr, view, mcp, mc, cm, shared, timer, locals>>

DSRollout(p) ==
    /\ ds[p] # NoDS /\ ds[p].rollout = "unseen"
    /\ SetDS(p, [ds[p] EXCEPT !.rollout = "rolling"], FALSE) /\ UNCHANGED budget

DSReady(p) ==
    /\ ds[p] # NoDS /\ ds[p].rollout = "rolling"
    /\ SetDS(p, [ds[p] EXCEPT !.rollout = "ready"], FALSE) /\ UNCHANGED budget

PodDown(p) ==
    /\ ds[p] # NoDS /\ ds[p].rollout = "ready" /\ Disturb("poddown")
    /\ SetDS(p, [ds[p] EXCEPT !.rollout = "rolling"], FALSE)

DeleteDS(p) ==
    /\ ds[p] # NoDS /\ ds[p].owned /\ Disturb("dsdelete")
    /\ SetDS(p, NoDS, TRUE)

TamperDS(p, c) ==
    /\ ds[p] # NoDS /\ ds[p].owned /\ ds[p].cfg # c /\ Disturb("tamper")
    /\ SetDS(p, [ds[p] EXCEPT !.cfg = c, !.rollout = IF @ = "ready" THEN "unseen" ELSE @], TRUE)

\* configMapToNUMAResourceOperator reads the ConfigMap again: a deleted one
\* maps to nothing.
SetCM(p, d) ==
    /\ d # cm[p] /\ (IF d = NoCM THEN Disturb("cmdelete") ELSE Disturb("cm"))
    /\ cm' = [cm EXCEPT ![p] = d]
    /\ queued' = (queued \/ d # NoCM)
    /\ UNCHANGED <<cr, view, mcp, mc, ds, shared, timer, locals>>

\* Someone deletes a shared object: of an owned and watched kind or not.
DeleteShared(watched) ==
    /\ shared /\ (IF watched THEN Disturb("shared") ELSE Disturb("unwatched"))
    /\ shared' = FALSE /\ queued' = (queued \/ watched)
    /\ UNCHANGED <<cr, view, mcp, mc, ds, cm, timer, locals>>

Others ==
    \/ \E spec \in Specs : EditSpec(spec)
    \/ \E p \in Pools : \/ PausePool(p) \/ TogglePool(p) \/ RolloutPool(p)
                        \/ PodDown(p) \/ DeleteDS(p)
                        \/ \E l \in Labels : RelabelPool(p, l)
                        \/ \E c \in Configs : TamperDS(p, c)
                        \/ \E d \in Datas \cup {NoCM} : SetCM(p, d)
    \/ \E w \in BOOLEAN : DeleteShared(w)

Next ==
    \/ Reconcile \/ TimerFires \/ WatchDeliver \/ Crash \/ Others
    \/ \E p \in Pools : MCOStart(p) \/ MCODone(p) \/ DSRollout(p) \/ DSReady(p)

Spec == Init /\ [][Next]_vars

\* One worker always goes on with its request; due timers, the watch, the machine
\* config operator and the DaemonSet controller make progress too.
Fairness ==
    /\ WF_vars(Reconcile) /\ WF_vars(TimerFires) /\ WF_vars(WatchDeliver)
    /\ \A p \in Pools : /\ WF_vars(MCOStart(p)) /\ WF_vars(MCODone(p))
                        /\ WF_vars(DSRollout(p)) /\ WF_vars(DSReady(p))

FairSpec == Spec /\ Fairness

-----------------------------------------------------------------------------
(* Properties.                                                             *)

\* Every variable has its type.
TypeOK ==
    /\ cr \in CRType /\ view \in CRType /\ inst \in CRType
    /\ mcp \in [Pools -> MCPType] /\ snap \in [Pools -> MCPType]
    /\ mc \in SUBSET Pools /\ shared \in BOOLEAN
    /\ ds \in [Pools -> DSType \cup {NoDS}] /\ seen \in [Pools -> DSType \cup {NoDS}]
    /\ cm \in [Pools -> Datas \cup {NoCM}] /\ hash \in [Pools -> Datas \cup {NoCM}]
    /\ queued \in BOOLEAN /\ timer \in BOOLEAN /\ budget \in 0 .. Budget
    /\ pc \in {"idle", "shared", "cleanup", "tree", "apply", "ready", "status",
               "degrade spec", "degrade trees", "degrade list", "failed"}
    /\ tree \in Nat \ {0}
    /\ acc \in Results

-----------------------------------------------------------------------------
\* The specification and the cluster as they are now.
groups == cr.spec.groups
ToBeDone == ~cr.spec.image /\ ValidNodeGroups(groups) /\ TreesFound(groups, mcp)
            /\ ValidTrees(groups, mcp)
Managed == ManagedDaemonSets(groups, mcp)

\* Nothing will make the operator run again but an event.
Asleep == pc = "idle" /\ ~queued /\ ~timer /\ view = cr

\* The exporter of pool p runs as its node group and its ConfigMap say.
UpToDate(p, group) ==
    /\ ds[p] # NoDS /\ ds[p].owned
    /\ ds[p].custom = group.custom /\ ds[p].cfg = group.cfg /\ ds[p].hash = cm[p]

\* The machine config operator owes pool p no update.
Rolled(p, group) ==
    Platform = "HyperShift" \/ p \in NoMCSelector \/ PoolUpdated(mcp[p], group.custom)

\* When the operator has gone to sleep no wake-up was lost: unless the resource
\* is paused, nothing dangles, every tree whose pools are neither paused nor
\* rolling out has the exporters its node group and its ConfigMaps ask for, and
\* the conditions are those of the present generation.  Covers the event
\* predicates and mappings of SetupWithManager, the requeues of Reconcile, and
\* writes refused or applied half way.
NoLostWakeup ==
    Asleep /\ ~cr.spec.pause =>
        /\ cr.status.conds.gen = cr.gen
        /\ ~ToBeDone => cr.status.conds.base = "Degraded"
        /\ ToBeDone =>
             /\ shared
             /\ \A p \in Pools \ Managed : (ds[p] # NoDS => ~ds[p].owned) /\ p \notin mc
             /\ \A i \in DOMAIN groups :
                  LET pools == TreeDaemonSets(groups[i], mcp)
                  IN  (\A p \in pools : ~mcp[p].paused /\ Rolled(p, groups[i]))
                        => \A p \in pools : UpToDate(p, groups[i])

\* Asleep with no pool paused, the status tells the truth: complete, with all
\* the DaemonSets and all the node groups of the specification, although each
\* field is patched against a cached copy that may lag behind
\* (Status().Patch with MergeFrom).
StatusTellsTruth ==
    /\ Asleep /\ ~cr.spec.pause /\ ToBeDone
    /\ \A p \in Managed : ~mcp[p].paused
    => /\ cr.status.ds = Managed
       /\ cr.status.ngs = UNION {{<<p, groups[i].cfg>> : p \in TreeDaemonSets(groups[i], mcp)}
                                   : i \in DOMAIN groups}
       /\ cr.status.conds.paused = {}
       /\ cr.status.conds.base = IF MultipleMCPsPerTree(groups, mcp, cr.spec.multi)
                                 THEN "Degraded" ELSE "Available"

PolicyStep ==
    \A p \in Pools \ NoMCSelector :
        /\ Platform = "OpenShift" /\ ds'[p] # NoDS
        /\ ds[p] = NoDS \/ ds[p].custom # ds'[p].custom
        => (ds'[p].custom <=> p \in mc)

\* A step that creates an exporter or changes its security policy leaves it in
\* step with the MachineConfig of its pool: the custom policy is only used where
\* its MachineConfig exists, the built-in one where it does not, although the
\* node groups are edited and requests crash or fail in between
\* (reconcilePerTreeMachineConfig before reconcilePerTreeDaemonSet).
PolicyFollowsMachineConfig == [][PolicyStep]_vars

ForeignStep ==
    \A p \in Pools :
        /\ ds[p] # NoDS /\ ~ds[p].owned /\ ds'[p] # ds[p]
        /\ ds'[p] # NoDS => ds'[p].owned
        => pc = "apply" /\ p \in TreePools

\* A DaemonSet with an exporter's name that belongs to somebody else is neither
\* deleted nor taken over, unless a tree of the running reconciliation selects
\* its pool (isOwnedBy in the cleaner).
ForeignLeftAlone == [][ForeignStep]_vars

\* Once users and failures leave the cluster alone, the operator comes to rest:
\* its own writes and status patches do not keep waking it.
ComesToRest == <>[]Asleep
=============================================================================
