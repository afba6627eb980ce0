-------------------------- MODULE HyperShiftProofs --------------------------
(***************************************************************************)
(* The two controllers on HyperShift together, for any number of pools,    *)
(* node groups and KubeletConfigs and any disturbances: the status tells   *)
(* the truth, the exporters follow the KubeletConfigs of their pools, and  *)
(* no ConfigMap outlives its KubeletConfig unless the note of the deletion *)
(* was forgotten.                                                          *)
(***************************************************************************)
EXTENDS HyperShiftKCProofs, NROWakeProofs, WellFoundedInduction

LEMMA LeastNumber == LeastExists
<1> SUFFICES ASSUME NEW S \in SUBSET Nat, S # {} PROVE \E x \in S : \A y \in S : x <= y
  BY DEF LeastExists
<1>1. \E x \in S : \A y \in S : <<y, x>> \notin OpToRel(<, Nat)
  BY WFMin, NatLessThanWellFounded, Zenon
<1>2. \A x, y \in S : <<y, x>> \notin OpToRel(<, Nat) => x <= y
  BY DEF OpToRel
<1> QED
  BY <1>1, <1>2, Zenon

LEMMA NRORunsNext ==
    ASSUME NRORuns
    PROVE  [Next]_vars
BY Zenon DEF NRORuns, Next

-----------------------------------------------------------------------------
(* The other controller, with a world of its own.                          *)

\* What the KubeletConfig controller and its users may do to it.
KCFrame ==
    /\ UNCHANGED <<cr, view, excludes, mcp, mc, ds, shared, timer, locals>>
    /\ queued' = (queued \/ \E p \in Pools : cm'[p] # cm[p] /\ cm'[p] # NoCM)

LEMMA KCFrameTypes ==
    ASSUME TypeInv, cm' \in Hashes, budget' \in 0 .. Budget, KCFrame
    PROVE  TypeInv'
<1>1. /\ cr \in CRType /\ view \in CRType /\ mcp \in [Pools -> MCPType]
      /\ mc \in SUBSET Pools /\ ds \in DSs /\ FlagsOK /\ LocalsOK
  BY TypeParts, Zenon
<1>2. LocalsOK'
  BY <1>1, Zenon DEF KCFrame, LocalsOK, locals, IndexOK
<1>3. FlagsOK'
  BY <1>1 DEF KCFrame, FlagsOK
<1>4. cr' \in CRType /\ view' \in CRType /\ mcp' \in [Pools -> MCPType] /\ mc' \in SUBSET Pools /\ ds' \in DSs
  BY <1>1 DEF KCFrame
<1> QED
  BY <1>2, <1>3, <1>4, Zenon DEF TypeInv, TypeOK, FlagsOK, LocalsOK, DSs, Hashes

LEMMA KCFrameWakes ==
    ASSUME TypeInv, WakeInv, KCFrame
    PROVE  WakeInv'
<1>1. queued \in BOOLEAN /\ queued' \in BOOLEAN
  BY Zenon DEF TypeInv, TypeOK, KCFrame
<1>2. OwnInv /\ SamePools(mcp') /\ UNCHANGED <<cr, view, mcp, mc, ds, shared, timer, locals>>
  BY Zenon DEF WakeInv, OwnInv, KCFrame
<1>3. CASE queued'
  <2>1. queued' = TRUE
    BY <1>1, <1>3
  <2> QED
    BY <1>2, <2>1, QueuedKeeps
<1>4. CASE ~queued'
  <2>1. ~queued /\ OnlyGone(cm, cm')
    BY <1>4, Zenon DEF OnlyGone, KCFrame
  <2>2. \A p \in Pools : SameSpec(ds[p], ds'[p])
    BY <1>2 DEF SameSpec
  <2> QED
    BY <1>2, <1>4, <2>1, <2>2, SilentKeeps
<1> QED
  BY <1>3, <1>4

LEMMA KCStepTypes ==
    ASSUME TypeInv, ShapeInv, KCFrame,
           \/ K!Reconcile \/ \E k \in KCs : K!TimerFires(k) \/ K!DeleteKC(k)
           \/ \E k \in KCs : \E new \in KCChoices[k] : K!SetKC(k, new)
    PROVE  TypeInv'
<1>1. cm \in Hashes /\ budget \in 0 .. Budget
  BY TypeParts, Zenon
<1>2. cm' \in Hashes /\ budget' \in 0 .. Budget
  BY <1>1, ConfigMapsType, KCBudget DEF Hashes, ConfigMaps
<1> QED
  BY <1>2, KCFrameTypes

\* An edit of the resource reaches nobody by itself.
LEMMA EditTypes ==
    ASSUME TypeInv, NEW spec \in Specs, NEW e \in Excludes, EditNRO(spec, e)
    PROVE  TypeInv' /\ cr'.status = cr.status
<1>1. /\ UNCHANGED <<view, objects, queued, timer, locals>>
      /\ cr' = [cr EXCEPT !.spec = spec, !.gen = IF e # excludes.api THEN cr.gen + 1 ELSE Generation(spec)]
      /\ budget > 0 /\ budget' = budget - 1
  BY DEF EditNRO, Disturb
<1>2. cr.gen \in Nat /\ cr \in CRType /\ budget \in 0 .. Budget
  BY Zenon DEF TypeInv, TypeOK, CRType
<1>3. budget' \in 0 .. Budget
  BY <1>1, <1>2, SpecsAssumption
<1>4. (IF e # excludes.api THEN cr.gen + 1 ELSE Generation(spec)) \in Nat
  BY <1>2 DEF Generation
<1>5. cr' \in CRType /\ cr'.status = cr.status
  BY <1>1, <1>2, <1>4, WithSpec, Zenon DEF CRType
<1> QED
  BY <1>1, <1>3, <1>5, Zenon DEF objects, locals, TypeInv, TypeOK, IndexOK

LEMMA EditWakes ==
    ASSUME TypeInv, WakeInv, NEW spec \in Specs, NEW e \in Excludes, EditNRO(spec, e)
    PROVE  WakeInv'
<1>1. /\ UNCHANGED <<view, mc, shared, timer, locals>> /\ mcp' = mcp /\ cm' = cm /\ ds' = ds
      /\ queued' = queued /\ cr'.status = cr.status
  BY EditTypes, Zenon DEF EditNRO, objects
<1>2. OwnInv /\ SamePools(mcp') /\ queued \in BOOLEAN
  BY <1>1, Zenon DEF WakeInv, OwnInv, TypeInv, TypeOK
<1>3. CASE queued
  BY <1>1, <1>2, <1>3, QueuedKeeps
<1>4. CASE ~queued
  <2>1. OnlyGone(cm, cm') /\ \A p \in Pools : SameSpec(ds[p], ds'[p])
    BY <1>1 DEF OnlyGone, SameSpec
  <2> QED
    BY <1>1, <1>2, <1>4, <2>1, SilentKeeps
<1> QED
  BY <1>3, <1>4

-----------------------------------------------------------------------------
(* The start.                                                              *)

LEMMA InitAccepted == Accepts(InitSpec)
BY HyperShiftAssumption DEF Accepts, TreesFound, ValidTrees

\* The pools of the specification, and the node group of each.
LEMMA InitGroups ==
    /\ ManagedDaemonSets(InitSpec.groups, InitMCP) \subseteq Pools
    /\ \A p \in ManagedDaemonSets(InitSpec.groups, InitMCP) :
         (CHOOSE g \in {InitSpec.groups[i] : i \in DOMAIN InitSpec.groups} :
            p \in TreeDaemonSets(g, InitMCP)) \in NodeGroup
<1> DEFINE gs == {InitSpec.groups[i] : i \in DOMAIN InitSpec.groups}
<1>1. \A g \in gs : Tree(g) \subseteq Pools
  BY InitAccepted, TreeFacts, SpecsAssumption
<1>2. InitSpec.groups \in Seq(NodeGroup)
  BY SpecsAssumption
<1>3. \A g \in gs : g \in NodeGroup
  BY <1>2
<1>4. ManagedDaemonSets(InitSpec.groups, InitMCP) \subseteq Pools
  BY <1>1 DEF ManagedDaemonSets, Tree
<1>5. ASSUME NEW p \in ManagedDaemonSets(InitSpec.groups, InitMCP)
      PROVE  (CHOOSE g \in gs : p \in TreeDaemonSets(g, InitMCP)) \in NodeGroup
  <2>1. \E g \in gs : p \in TreeDaemonSets(g, InitMCP)
    BY DEF ManagedDaemonSets
  <2>2. (CHOOSE g \in gs : p \in TreeDaemonSets(g, InitMCP)) \in gs
    BY <2>1
  <2> QED
    BY <1>3, <2>2, Zenon
<1> QED
  BY <1>4, <1>5

LEMMA InitResource ==
    ASSUME HSInit
    PROVE  cr \in CRType /\ cm \in Hashes /\ ds \in DSs
<1> DEFINE managed == ManagedDaemonSets(InitSpec.groups, InitMCP)
           group(p) == CHOOSE g \in {InitSpec.groups[i] : i \in DOMAIN InitSpec.groups} :
                           p \in TreeDaemonSets(g, InitMCP)
           conds == [InitStatus.conds EXCEPT !.base = "Available", !.gen = 1]
           status == [conds |-> conds, ds |-> managed, mcps |-> {},
                      ngs |-> {<<p, group(p).cfg>> : p \in managed}]
<1>1. managed \subseteq Pools /\ \A p \in managed : group(p) \in NodeGroup
  BY InitGroups
<1>2. \A p \in managed : group(p).cfg \in Configs /\ group(p).custom \in BOOLEAN
  <2> HIDE DEF group
  <2> QED
    BY <1>1 DEF NodeGroup
<1>3. InitStatus \in Status
  BY DEF InitStatus, Status, Conditions, Messages
<1>4. conds \in Conditions
  BY Zenon DEF InitStatus, Conditions, Messages, StepTypes
<1>5. status \in Status
  <2> HIDE DEF group, conds, managed
  <2> QED
    BY <1>1, <1>2, <1>4 DEF Status
<1>6. cr = [InitCR EXCEPT !.status = status]
  BY DEF HSInit
<1>7. cr \in CRType
  <2> HIDE DEF status
  <2>1. InitCR \in CRType
    BY <1>3, SpecsAssumption DEF InitCR, CRType
  <2> QED
    BY <1>5, <1>6, <2>1, WithStatus
<1>8. cm \in Hashes
  <2> DEFINE data(p) == K!Render((CHOOSE c \in InitConfigs(p) : TRUE).payload, InitExcludes)
             one(p) == [data |-> data(p), owner |-> NoOwner]
  <2>1. ASSUME NEW p \in Pools, InitConfigs(p) # {} PROVE one(p) \in Datas
    BY <2>1, InitConfig, HyperShiftAssumption DEF K!Render
  <2>2. cm = [p \in Pools |-> IF InitConfigs(p) = {} THEN NoCM ELSE one(p)]
    BY DEF HSInit
  <2> HIDE DEF one
  <2> QED
    BY <2>1, <2>2 DEF Hashes
<1>9. ds \in DSs
  <2>1. ds = [p \in Pools |-> IF p \in managed
                              THEN [custom |-> group(p).custom, cfg |-> group(p).cfg,
                                    hash |-> cm[p], owned |-> TRUE, rollout |-> "ready"]
                              ELSE NoDS]
    BY Zenon DEF HSInit
  <2> HIDE DEF group, managed
  <2> QED
    BY <1>2, <1>8, <2>1, Zenon DEF DSs, DSType, Hashes
<1> QED
  BY <1>7, <1>8, <1>9

LEMMA InitWake ==
    ASSUME HSInit
    PROVE  TypeInv /\ WakeInv
<1>1. InitCR \in CRType /\ NoResults \in Results
  <2>1. InitStatus \in Status
    BY DEF InitStatus, Status, Conditions, Messages
  <2> QED
    BY <2>1, SpecsAssumption, StepsType DEF InitCR, CRType, NoResults, Results
<1>2. LocalsOK
  BY <1>1, InitAssumption DEF HSInit, LocalsOK, IndexOK, DSs, Hashes
<1>3. FlagsOK /\ budget \in 0 .. Budget
  <2>1. queued = TRUE /\ timer = FALSE /\ shared = TRUE /\ budget = Budget
    BY DEF HSInit
  <2>2. FlagsOK
    BY <2>1, Zenon DEF FlagsOK
  <2>3. budget \in 0 .. Budget
    BY <2>1, SpecsAssumption
  <2> QED
    BY <2>2, <2>3
<1>4. view = cr /\ mcp = InitMCP /\ mc = {}
  BY DEF HSInit
<1>5. TypeInv
  BY <1>2, <1>3, <1>4, InitResource, InitAssumption, TypeParts
<1>6. OwnInv /\ queued
  BY DEF HSInit, OwnInv, Working, InTrees, SamePools
<1> QED
  BY <1>5, <1>6 DEF WakeInv

-----------------------------------------------------------------------------
(* All the steps together, for the other controller.                       *)

\* What every variable is.
PartsInv == TypeInv /\ ShapeInv /\ ExcludesOK

\* The steps, as the other controller sees them.
LEMMA StepsOfNRO ==
    ASSUME [HSNext]_hsVars
    PROVE  \/ [Next]_vars
           \/ \E spec \in Specs, e \in Excludes : EditNRO(spec, e)
           \/ /\ KCFrame
              /\ \/ K!Reconcile \/ \E k \in KCs : K!TimerFires(k) \/ K!DeleteKC(k)
                 \/ \E k \in KCs : \E new \in KCChoices[k] : K!SetKC(k, new)
<1>1. CASE Elsewhere \/ CacheReceives \/ Restart
  BY <1>1, NRORunsNext, Zenon DEF Elsewhere, CacheReceives, Restart, Next
<1>2. ASSUME KCStep(K!WriteConfigMap) \/ KCStep(K!DeleteConfigMap) \/ KCStep(K!ForgetDeleted)
      PROVE  KCFrame /\ K!Reconcile
  BY <1>2, Zenon DEF KCStep, KCFrame, K!Reconcile
<1>3. ASSUME NEW k \in KCs, KCStep(K!Start(k)) PROVE KCFrame /\ K!Reconcile
  BY <1>3, Zenon DEF KCStep, KCFrame, K!Reconcile
<1>4. ASSUME NEW k \in KCs, KCStep(K!TimerFires(k)) \/ KCStep(K!DeleteKC(k))
      PROVE  KCFrame /\ (K!TimerFires(k) \/ K!DeleteKC(k))
  BY <1>4, Zenon DEF KCStep, KCFrame
<1>5. ASSUME NEW k \in KCs, NEW new \in KCChoices[k], KCStep(K!SetKC(k, new))
      PROVE  KCFrame /\ K!SetKC(k, new)
  BY <1>5, Zenon DEF KCStep, KCFrame
<1> QED
  BY <1>1, <1>2, <1>3, <1>4, <1>5, Steps, Zenon

LEMMA PartsShared ==
    ASSUME PartsInv
    PROVE  SharedInv
<1>1. cm \in Hashes /\ budget \in 0 .. Budget
  BY TypeParts, Zenon DEF PartsInv
<1> QED
  BY <1>1 DEF PartsInv, SharedInv, Hashes, ConfigMaps

LEMMA PartsInit ==
    ASSUME HSInit
    PROVE  PartsInv
BY InitWake, InitShape DEF PartsInv

LEMMA PartsStep ==
    ASSUME PartsInv, [HSNext]_hsVars
    PROVE  PartsInv'
<1>1. TypeInv'
  BY StepsOfNRO, TypeNext, EditTypes, KCStepTypes, Zenon DEF PartsInv
<1>2. ShapeInv' /\ ExcludesOK'
  BY LeastNumber, ShapeStep, ExcludesStep, TypeParts, Zenon DEF PartsInv
<1> QED
  BY <1>1, <1>2 DEF PartsInv

LEMMA WakeStep ==
    ASSUME EverythingNoticed, PartsInv, WakeInv, [HSNext]_hsVars
    PROVE  WakeInv'
BY StepsOfNRO, WakeInvStep, EditWakes, KCFrameWakes, Zenon DEF PartsInv

\* StatusTellsTruth with both controllers at work, under the condition it is proved
\* under for the one alone: whatever the KubeletConfig controller writes and deletes
\* and however the two interleave, an operator that has gone to sleep has left a
\* complete status (configMapToNUMAResourceOperator, updateStatus).
THEOREM HyperShiftStatusTheorem ==
    ASSUME EverythingNoticed
    PROVE  HSSpec => []StatusTellsTruth
<1> DEFINE Inv == PartsInv /\ WakeInv
<1>1. HSInit => Inv
  BY PartsInit, InitWake
<1>2. Inv /\ [HSNext]_hsVars => Inv'
  BY PartsStep, WakeStep
<1>3. Inv => StatusTellsTruth
  BY WakeInvTells
<1> QED
  BY <1>1, <1>2, <1>3, PTL DEF HSSpec

\* NoOrphanedConfig for any KubeletConfigs and pools: when the KubeletConfig
\* controller has nothing left to do, a ConfigMap without KubeletConfig can only be
\* one whose deletion was noted in memory and forgotten, by a crash or by the
\* unsynchronized assignment of garbageCollectionFor (deleteConfigMap).
THEOREM NoOrphanedTheorem == ASSUME OnePool PROVE HSSpec => []NoOrphanedConfig
<1> DEFINE Inv == PartsInv /\ FollowInv
<1>1. HSInit => Inv
  BY PartsInit, FollowInit
<1>2. Inv /\ [HSNext]_hsVars => Inv'
  BY LeastNumber, PartsShared, PartsStep, FollowStep
<1>3. Inv => NoOrphanedConfig
  <2> SUFFICES ASSUME FollowInv, K!Settled, NEW p \in Pools \ lost, cm[p] # NoCM
               PROVE  \E k \in KCs : kc[k] # NoKC /\ p \in kc[k].pools
    BY DEF NoOrphanedConfig
  <2>1. ~Noted(p)
    BY DEF K!Settled, Noted, Notes
  <2> QED
    BY <2>1 DEF FollowInv, Alive
<1> QED
  BY <1>1, <1>2, <1>3, PTL DEF HSSpec

-----------------------------------------------------------------------------
(* The generations of the resource.                                        *)

\* What a status patch does to the generations.
PatchGens ==
    /\ cr'.gen = cr.gen /\ cr'.spec = cr.spec
    /\ cr'.status.conds.gen \in {cr.status.conds.gen, inst.gen}

LEMMA PatchedGens ==
    ASSUME TypeOK, NEW s, s.conds.gen = inst.gen, cr' = Patched(s) \/ cr' = cr
    PROVE  PatchGens
<1>1. CASE cr' = cr
  BY <1>1 DEF PatchGens
<1>2. CASE cr' = Patched(s)
  <2>1. cr' = [cr EXCEPT !.status = PatchedStatus(s)] /\ cr \in CRType
    BY <1>2, Zenon DEF Patched, TypeOK
  <2>2. cr'.gen = cr.gen /\ cr'.spec = cr.spec /\ cr'.status = PatchedStatus(s)
    BY <2>1 DEF CRType
  <2>3. PatchedStatus(s).conds \in {s.conds, cr.status.conds}
    BY DEF PatchedStatus, MergeFrom
  <2> QED
    BY <2>2, <2>3 DEF PatchGens
<1> QED
  BY <1>1, <1>2

LEMMA StatusGens ==
    ASSUME TypeOK, DegradeStatus \/ ReportFailure \/ UpdateStatus
    PROVE  PatchGens
<1>1. ASSUME DegradeStatus \/ ReportFailure PROVE PatchGens
  <2> DEFINE St(why) == [inst.status EXCEPT !.conds = Conds("Degraded", why)]
  <2>1. \A why : St(why).conds.gen = inst.gen
    BY CondsFields, Zenon DEF TypeOK, CRType, Status
  <2>2. \E why : cr' = Patched(St(why)) \/ cr' = cr
    BY <1>1, Zenon DEF DegradeStatus, ReportFailure, PatchStatus
  <2> HIDE DEF St
  <2> QED
    BY <2>1, <2>2, PatchedGens
<1>2. ASSUME UpdateStatus PROVE PatchGens
  <2> DEFINE C == IF Done(acc.step) /\ MultipleMCPsPerTree(inst.spec.groups, snap, inst.spec.multi)
                  THEN Conds("Degraded", "multi") ELSE Conds(acc.step.type, acc.step.msg)
             St(t) == [conds |-> [C EXCEPT !.paused = acc.paused, !.ltt = t],
                       ds    |-> acc.ds,
                       mcps  |-> acc.mcps,
                       ngs   |-> IF Done(acc.step) THEN syncNodeGroupsStatus(acc.ds)
                                 ELSE inst.status.ngs]
  <2>1. C \in Conditions
    BY CondsType, Zenon DEF TypeOK, Results, StepType, StepTypes, Messages
  <2>2. C.gen = inst.gen
    BY CondsFields
  <2>3. \E t : cr' = Patched(St(t)) \/ cr' = cr
    BY <1>2, Zenon DEF UpdateStatus, PatchStatus
  <2>4. \A t : St(t).conds.gen = inst.gen
    <3> HIDE DEF C
    <3> QED
      BY <2>1, <2>2, Zenon DEF Conditions
  <2> HIDE DEF St
  <2> QED
    BY <2>3, <2>4, PatchedGens
<1> QED
  BY <1>1, <1>2

\* The copy a Reconcile works on is the one the cache had when it started.
LEMMA NRORunsGens ==
    ASSUME TypeInv, NRORuns
    PROVE  /\ cr'.gen = cr.gen /\ cr'.spec = cr.spec
           /\ \/ cr'.status.conds.gen = cr.status.conds.gen
              \/ pc # "idle" /\ cr'.status.conds.gen = inst.gen
           /\ pc' # "idle" => (pc # "idle" /\ inst' = inst) \/ inst' = view
<1>1. CASE DegradeStatus \/ ReportFailure \/ UpdateStatus
  <2>1. pc # "idle" /\ pc' = "idle"
    BY <1>1, Zenon DEF DegradeStatus, ReportFailure, UpdateStatus, PatchStatus, Reset
  <2>2. PatchGens
    BY <1>1, StatusGens DEF TypeInv
  <2> QED
    BY <2>1, <2>2 DEF PatchGens
<1>2. CASE SkipPaused \/ StartReconcile
  BY <1>2, Zenon DEF SkipPaused, StartReconcile, locals
<1>3. CASE SyncShared \/ Cleanup \/ SyncTree \/ ApplyDaemonSets \/ CheckDaemonSets
  <2>1. cr' = cr /\ inst' = inst /\ pc # "idle"
    BY <1>3, Zenon DEF SyncShared, Cleanup, SyncTree, ApplyDaemonSets, CheckDaemonSets
  <2> QED
    BY <2>1
<1>4. CASE TimerFires \/ (\E p \in Pools : DSRollout(p) \/ DSReady(p)) \/ UNCHANGED vars
  <2>1. cr' = cr /\ inst' = inst /\ pc' = pc
    BY <1>4 DEF TimerFires, DSRollout, DSReady, SetDS, vars, locals
  <2> QED
    BY <2>1
<1> QED
  BY <1>1, <1>2, <1>3, <1>4, Zenon DEF NRORuns, Reconcile

\* The status is never of a generation the cache has not seen, and a cache that lacks
\* an edit of the node groups or of the exclusions is of an older generation.
GenInv ==
    /\ view.gen <= cr.gen /\ cr.status.conds.gen <= view.gen
    /\ pc # "idle" => inst.gen <= view.gen
    /\ view.spec.groups # cr.spec.groups \/ excludes.view # excludes.api => view.gen < cr.gen

LEMMA GenInit ==
    ASSUME HSInit
    PROVE  GenInv
<1>1. /\ view = cr /\ pc = "idle" /\ excludes.view = excludes.api
      /\ cr.gen = 1 /\ cr.status.conds.gen = 1
  BY Zenon DEF HSInit, InitCR, InitStatus
<1> QED
  BY <1>1 DEF GenInv

LEMMA GenTypes ==
    ASSUME TypeInv
    PROVE  cr.gen \in Nat /\ view.gen \in Nat /\ inst.gen \in Nat /\ cr.status.conds.gen \in Nat
BY Zenon DEF TypeInv, TypeOK, CRType, Status, Conditions

LEMMA GenStep ==
    ASSUME PartsInv, GenInv, [HSNext]_hsVars
    PROVE  GenInv'
<1>0. TypeInv /\ TypeInv'
  BY PartsStep DEF PartsInv
<1>t. cr.gen \in Nat /\ view.gen \in Nat /\ inst.gen \in Nat /\ cr.status.conds.gen \in Nat
  BY <1>0, GenTypes
<1>1. CASE Elsewhere
  <2>1. /\ view' = view /\ excludes' = excludes
        /\ cr'.gen = cr.gen /\ cr'.spec = cr.spec
        /\ \/ cr'.status.conds.gen = cr.status.conds.gen
           \/ pc # "idle" /\ cr'.status.conds.gen = inst.gen
        /\ pc' # "idle" => (pc # "idle" /\ inst' = inst) \/ inst' = view
    BY <1>0, <1>1, NRORunsFrame, NRORunsGens DEF Elsewhere
  <2> QED
    BY <1>t, <2>1 DEF GenInv
<1>2. CASE CacheReceives \/ Restart
  <2>1. /\ view' = cr /\ cr' = cr /\ excludes' = [excludes EXCEPT !.view = excludes.api]
        /\ pc' # "idle" => pc # "idle" /\ inst' = inst
    BY <1>2 DEF CacheReceives, Restart, WatchDeliver, Crash, Reset, locals
  <2>2. excludes'.view = excludes'.api
    BY <2>1 DEF PartsInv, ExcludesOK
  <2> QED
    BY <1>t, <2>1, <2>2 DEF GenInv
<1>3. ASSUME NEW spec \in Specs, NEW e \in Excludes, EditNRO(spec, e) PROVE GenInv'
  <2>1. /\ view' = view /\ pc' = pc /\ inst' = inst
        /\ excludes' = [excludes EXCEPT !.api = e]
        /\ cr' = [cr EXCEPT !.spec = spec,
                            !.gen = IF e # excludes.api THEN cr.gen + 1 ELSE Generation(spec)]
    BY <1>3 DEF EditNRO, locals
  <2>2. /\ excludes'.view = excludes.view /\ excludes'.api = e
        /\ cr'.spec = spec /\ cr'.status = cr.status
        /\ cr'.gen = IF e # excludes.api THEN cr.gen + 1 ELSE Generation(spec)
    BY <1>0, <2>1, Zenon DEF PartsInv, ExcludesOK, TypeInv, TypeOK, CRType
  <2>3. \/ cr'.gen = cr.gen + 1
        \/ cr'.gen = cr.gen /\ e = excludes.api /\ spec.groups = cr.spec.groups
    BY <2>2 DEF Generation
  <2> QED
    BY <1>t, <2>1, <2>2, <2>3 DEF GenInv
<1>4. ASSUME KCFrame PROVE GenInv'
  <2>1. cr' = cr /\ view' = view /\ excludes' = excludes /\ pc' = pc /\ inst' = inst
    BY <1>4 DEF KCFrame, locals
  <2> QED
    BY <2>1 DEF GenInv
<1> QED
  BY <1>1, <1>2, <1>3, <1>4, Steps, Zenon DEF KCStep, KCFrame

\* ExportersFollowKubeletConfig for any KubeletConfigs, specifications and node pools:
\* once both controllers have gone to sleep the exporters run with the KubeletConfigs
\* of their pools and the exclusions as they are now.  It takes the two predicates
\* together: the KubeletConfig controller is told of the resource only when its node
\* groups are those it knew (numaResourcesOperatorPredicate), so that after an edit of
\* them it depends on the status the other controller patches; and that one is told
\* only of ConfigMaps (configMapToNUMAResourceOperator).  Every KubeletConfig has one
\* pool, of its own, and is not created anew; only changes either is told of happen.
THEOREM ExportersTheorem ==
    ASSUME EverythingNoticed, OnePool, Orderly
    PROVE  HSSpec => []ExportersFollowKubeletConfig
<1> DEFINE Inv == PartsInv /\ WakeInv /\ FollowInv /\ GenInv /\ GoneInv /\ RequestInv
<1>1. HSInit => Inv
  BY PartsInit, InitWake, FollowInit, GenInit, GoneInit, RequestInit
<1>2. Inv /\ [HSNext]_hsVars => Inv'
  <2>1. ASSUME TypeInv, GenInv, cr.status.conds.gen = cr.gen PROVE view.spec.groups = cr.spec.groups
    <3>1. cr.gen \in Nat /\ view.gen \in Nat /\ cr.status.conds.gen \in Nat
      BY <2>1, GenTypes
    <3>2. cr.status.conds.gen <= view.gen
      BY <2>1 DEF GenInv
    <3>3. ~(view.gen < cr.gen)
      BY <2>1, <3>1, <3>2
    <3> QED
      BY <2>1, <3>3 DEF GenInv
  <2> QED
    BY <2>1, LeastNumber, PartsShared, PartsStep, WakeStep, FollowStep, GenStep, GoneStep, RequestStep DEF PartsInv
<1>3. Inv => ExportersFollowKubeletConfig
  <2> SUFFICES ASSUME Inv, Asleep, K!Asleep, ~cr.spec.pause, ToBeDone,
                      NEW i \in DOMAIN groups, NEW p \in TreeDaemonSets(groups[i], mcp)
               PROVE  /\ cm[p] # NoCM => UpToDate(p, groups[i])
                      /\ \A k \in KCs : Usable(k) /\ p \in kc[k].pools =>
                           /\ cm[p] # NoCM
                           /\ ds[p].hash.data = K!Render(kc[k].payload, excludes.api)
    BY DEF ExportersFollowKubeletConfig
  <2>1. Platform # "OpenShift"
    BY HyperShiftAssumption
  <2>2. cr.status.conds.gen = cr.gen /\ Follows(p, groups[i])
    BY <2>1, AsleepFollows
  <2>3. view = cr
    BY DEF Asleep
  <2>4. excludes.view = excludes.api
    BY <2>3, GenTypes DEF GenInv, PartsInv
  <2>5. ASSUME NEW k \in KCs, Usable(k), p \in kc[k].pools
        PROVE  cm[p] # NoCM /\ cm[p].data = K!Render(kc[k].payload, excludes.api)
    <3>1. Served(k)
      BY <2>2, <2>3, <2>5 DEF RequestInv
    <3>2. Reached(k)
      BY <3>1 DEF Served, K!Asleep, Arriving, Writing, K!Idle
    <3>3. PICK q \in kc[k].pools : cm[q] # NoCM /\ cm[q].data = K!Render(kc[k].payload, excludes.view)
      BY <3>2 DEF Reached
    <3>4. q \in PoolsOfKC(k) /\ p \in PoolsOfKC(k)
      BY <2>5, <3>3 DEF PartsInv, ShapeInv, Usable
    <3> QED
      BY <2>4, <3>3, <3>4 DEF OnePool
  <2> QED
    BY <2>2, <2>5 DEF Follows, UpToDate
<1> QED
  BY <1>1, <1>2, <1>3, PTL DEF HSSpec
=============================================================================
