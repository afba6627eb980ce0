----------------------------- MODULE NROProofs -----------------------------
(***************************************************************************)
(* Proofs about the NUMAResourcesOperator controller for every set of      *)
(* pools, every specification, every combination of disturbances and any   *)
(* number of them.                                                         *)
(***************************************************************************)
EXTENDS NROController, TLAPS

\* The tree index is meaningful while trees are processed and 1 before that, and
\* only validated specifications get that far.
IndexOK ==
    /\ pc \in {"shared", "cleanup", "tree", "apply", "ready"} => ValidNodeGroups(inst.spec.groups)
    /\ pc \in {"tree", "apply", "ready"} => tree \in DOMAIN inst.spec.groups
    /\ pc \notin {"tree", "apply", "ready", "status"} => tree = 1

TypeInv == TypeOK /\ IndexOK

-----------------------------------------------------------------------------
(* The types of the operators the actions are built from.                  *)

\* The node group in process is a node group.
LEMMA GroupType ==
    ASSUME TypeInv, pc \in {"tree", "apply", "ready"}
    PROVE  Group \in NodeGroup
<1>1. inst.spec \in Specs /\ tree \in DOMAIN inst.spec.groups
  BY Zenon DEF TypeInv, TypeOK, IndexOK, CRType
<1>2. inst.spec.groups \in Seq(NodeGroup)
  BY <1>1, SpecsAssumption
<1> QED
  BY <1>1, <1>2 DEF Group

\* A group of a specification is a sequence of node groups.
LEMMA GroupsType ==
    ASSUME TypeOK
    PROVE  inst.spec.groups \in Seq(NodeGroup)
<1>1. inst.spec \in Specs
  BY Zenon DEF TypeOK, CRType
<1> QED
  BY <1>1, SpecsAssumption

\* The pools of a tree are pools; on HyperShift because of the validation.
LEMMA TreePoolsType ==
    ASSUME TypeInv, pc \in {"tree", "apply", "ready"}
    PROVE  TreePools \subseteq Pools
<1>1. CASE Platform = "OpenShift"
  BY <1>1 DEF TreePools, TreeDaemonSets, TreeMCPs
<1>2. CASE Platform = "HyperShift"
  <2>1. Group.pool # NoPool /\ Group.pool # EmptyName
    BY <1>2 DEF TypeInv, IndexOK, ValidNodeGroups, nodeGroupForHypershift, nodeGroupsValidPoolName, Group
  <2>2. Group.pool \in Pools
    BY <2>1, GroupType DEF NodeGroup
  <2> QED
    BY <1>2, <2>2 DEF TreePools, TreeDaemonSets
<1> QED
  BY <1>1, <1>2, PlatformAssumption

\* One iteration of ReducePerTreeResults keeps the type of the results.
LEMMA ReduceStepType ==
    ASSUME NEW a \in Results, NEW r \in Results
    PROVE  ReduceStep(a, r) \in Results
BY DEF ReduceStep, Results

\* The steps the controller returns.
LEMMA StepsType == /\ StepSuccess \in StepType /\ StepFailed \in StepType
                   /\ \A n \in {0, 5, 60} : StepOngoing(n) \in StepType
                   /\ \A n \in {5, 60}, p \in Pools : WithMessage(StepOngoing(n), p) \in StepType
BY Zenon DEF StepSuccess, StepFailed, StepOngoing, WithMessage, StepType, StepTypes, Messages

\* The state a Reconcile is left in.
LEMMA ResetType ==
    ASSUME Reset
    PROVE  /\ inst' \in CRType /\ snap' \in [Pools -> MCPType]
           /\ seen' \in [Pools -> DSType \cup {NoDS}] /\ hash' \in [Pools -> Datas \cup {NoCM}]
           /\ acc' \in Results /\ tree' = 1 /\ pc' = "idle"
<1>1. InitStatus \in Status
  BY DEF InitStatus, Status, Conditions, Messages
<1>2. InitCR \in CRType
  BY <1>1, SpecsAssumption DEF InitCR, CRType
<1>3. NoResults \in Results
  BY StepsType DEF NoResults, Results
<1> QED
  BY <1>2, <1>3, InitAssumption DEF Reset

\* Recording the result of a tree keeps the types and the index.
LEMMA EndTreeType ==
    ASSUME TypeInv, pc \in {"tree", "apply", "ready"}, UNCHANGED <<inst, snap>>,
           NEW r \in Results, EndTree(r)
    PROVE  /\ acc' \in Results /\ tree' \in Nat \ {0}
           /\ seen' \in [Pools -> DSType \cup {NoDS}] /\ hash' \in [Pools -> Datas \cup {NoCM}]
           /\ pc' \in {"tree", "status"} /\ IndexOK'
<1>1. acc' \in Results /\ pc' \in {"tree", "status"}
  BY ReduceStepType, Zenon DEF EndTree, TypeInv, TypeOK
<1>2. tree' \in Nat \ {0} /\ (pc' = "tree" => tree' \in DOMAIN inst.spec.groups)
  <2>1. tree \in 1 .. Len(inst.spec.groups) /\ Len(inst.spec.groups) \in Nat
    BY GroupsType DEF TypeInv, IndexOK
  <2>2. DOMAIN inst.spec.groups = 1 .. Len(inst.spec.groups)
    BY GroupsType DEF TypeInv
  <2> QED
    BY <2>1, <2>2 DEF EndTree
<1>3. ValidNodeGroups(inst'.spec.groups)
  BY DEF TypeInv, IndexOK
<1>4. inst'.spec.groups = inst.spec.groups
  OBVIOUS
<1> QED
  BY <1>1, <1>2, <1>3, <1>4 DEF EndTree, IndexOK

\* A DaemonSet written for a tree is a DaemonSet.
LEMMA AppliedType ==
    ASSUME TypeInv, pc = "apply", NEW p \in Pools
    PROVE  Applied(p) \in DSType
<1>1. Group.custom \in BOOLEAN /\ Group.cfg \in Configs
  BY GroupType DEF NodeGroup
<1>2. hash[p] \in Datas \cup {NoCM} /\ seen[p] \in DSType \cup {NoDS}
  BY DEF TypeInv, TypeOK
<1>3. seen[p] # NoDS => seen[p].rollout \in {"unseen", "rolling", "ready"}
  BY <1>2 DEF DSType
<1> QED
  BY <1>1, <1>2, <1>3 DEF Applied, DSType

\* A resource with another status is a resource.
LEMMA WithStatus ==
    ASSUME NEW c \in CRType, NEW s \in Status
    PROVE  [c EXCEPT !.status = s] \in CRType
BY DEF CRType

\* A resource with another specification is a resource.
LEMMA WithSpec ==
    ASSUME NEW c \in CRType, NEW s \in Specs, NEW g \in Nat
    PROVE  [c EXCEPT !.spec = s, !.gen = g] \in CRType
BY Zenon DEF CRType

\* The resource after a status patch is a resource.
LEMMA PatchedType ==
    ASSUME TypeOK, NEW s \in Status
    PROVE  Patched(s) \in CRType
<1>1. PatchedStatus(s) \in Status
  BY Zenon DEF PatchedStatus, MergeFrom, TypeOK, CRType, Status
<1> QED
  BY <1>1, WithStatus, Zenon DEF Patched, TypeOK

\* The conditions written with a new base condition and a message.
LEMMA CondsType ==
    ASSUME TypeOK, NEW base \in StepTypes, NEW msg \in Messages
    PROVE  Conds(base, msg) \in Conditions
<1>1. inst.status.conds \in Conditions /\ inst.gen \in Nat
  BY Zenon DEF TypeOK, CRType, Status
<1> QED
  BY <1>1, Zenon DEF Conds, Conditions

\* A status in which only the conditions change.
LEMMA WithConds ==
    ASSUME TypeOK, NEW c \in Conditions
    PROVE  [inst.status EXCEPT !.conds = c] \in Status
<1>1. inst.status \in Status
  BY Zenon DEF TypeOK, CRType
<1> QED
  BY <1>1 DEF Status

-----------------------------------------------------------------------------
(* The counter and the flags.                                              *)

FlagsOK == queued \in BOOLEAN /\ timer \in BOOLEAN /\ shared \in BOOLEAN

\* A step takes at most one unit of the budget.
LEMMA BudgetStep ==
    ASSUME Next, budget \in 0 .. Budget
    PROVE  budget' \in 0 .. Budget
<1> DEFINE Spent == budget' = budget \/ (budget > 0 /\ budget' = budget - 1)
<1>1. ASSUME Reconcile PROVE Spent
  BY <1>1, Zenon DEF Reconcile, SkipPaused, StartReconcile, SyncShared, Cleanup, SyncTree,
     reconcilePerTreeMachineConfig, ApplyDaemonSets, CheckDaemonSets, DegradeStatus,
     ReportFailure, UpdateStatus, PatchStatus, Disturb
<1>2. ASSUME Others PROVE Spent
  BY <1>2, Zenon DEF Others, EditSpec, PausePool, TogglePool, RolloutPool, PodDown, DeleteDS,
     RelabelPool, TamperDS, SetCM, DeleteShared, Disturb
<1>3. Spent
  BY <1>1, <1>2, Zenon DEF Next, TimerFires, WatchDeliver, Crash, MCOStart, MCODone,
     DSRollout, DSReady, Disturb
<1> QED
  BY <1>3, SpecsAssumption

\* The flags stay flags.
LEMMA FlagsStep ==
    ASSUME Next, FlagsOK
    PROVE  FlagsOK'
<1>1. ASSUME Reconcile PROVE FlagsOK'
  BY <1>1, Zenon DEF Reconcile, SkipPaused, StartReconcile, SyncShared, Cleanup, SyncTree,
     reconcilePerTreeMachineConfig, ApplyDaemonSets, CheckDaemonSets, DegradeStatus,
     ReportFailure, UpdateStatus, PatchStatus, FlagsOK, objects
<1>2. ASSUME Others PROVE FlagsOK'
  BY <1>2, Zenon DEF Others, EditSpec, PausePool, TogglePool, RolloutPool, PodDown, DeleteDS,
     RelabelPool, TamperDS, SetCM, DeleteShared, SetMCP, SetDS, FlagsOK, objects
<1> QED
  BY <1>1, <1>2, Zenon DEF Next, TimerFires, WatchDeliver, Crash, MCOStart, MCODone,
     DSRollout, DSReady, SetMCP, SetDS, FlagsOK, objects

-----------------------------------------------------------------------------
(* The API objects.                                                        *)

\* The resource keeps its type: users write specifications, and the three ends
\* of Reconcile write statuses.
LEMMA ResourceStep ==
    ASSUME Next, TypeOK
    PROVE  cr' \in CRType
<1>1. ASSUME DegradeStatus \/ ReportFailure PROVE cr' \in CRType
  <2> DEFINE St(why) == [inst.status EXCEPT !.conds = Conds("Degraded", why)]
  <2>1. \A why \in {"spec", "trees", "list", "shared"} : Patched(St(why)) \in CRType
    BY CondsType, WithConds, PatchedType DEF StepTypes, Messages
  <2>2. \E why \in {"spec", "trees", "list", "shared"} : cr' = Patched(St(why)) \/ cr' = cr
    BY <1>1, Zenon DEF DegradeStatus, ReportFailure, PatchStatus
  <2> QED
    BY <2>1, <2>2, Zenon DEF TypeOK
<1>2. ASSUME UpdateStatus PROVE cr' \in CRType
  <2> DEFINE C == IF Done(acc.step) /\ MultipleMCPsPerTree(inst.spec.groups, snap, inst.spec.multi)
                  THEN Conds("Degraded", "multi") ELSE Conds(acc.step.type, acc.step.msg)
             St(t) == [conds |-> [C EXCEPT !.paused = acc.paused, !.ltt = t],
                       ds    |-> acc.ds,
                       mcps  |-> acc.mcps,
                       ngs   |-> IF Done(acc.step) THEN syncNodeGroupsStatus(acc.ds)
                                 ELSE inst.status.ngs]
  <2>1. C \in Conditions
    BY CondsType, Zenon DEF TypeOK, Results, StepType, StepTypes, Messages
  <2>2. acc.ds \in SUBSET Pools /\ acc.mcps \in SUBSET Pools /\ acc.paused \in SUBSET Pools
    BY Zenon DEF TypeOK, Results
  <2>3. inst.status.ngs \in SUBSET (Pools \X Configs) /\ inst.status.conds.ltt \in {0, 1}
    BY Zenon DEF TypeOK, CRType, Status, Conditions
  <2>4. \A i \in DOMAIN inst.spec.groups : inst.spec.groups[i].cfg \in Configs
    <3>1. \A i \in DOMAIN inst.spec.groups : inst.spec.groups[i] \in NodeGroup
      BY GroupsType
    <3> QED
      BY <3>1 DEF NodeGroup
  <2>5. syncNodeGroupsStatus(acc.ds) \in SUBSET (Pools \X Configs)
    BY <2>2, <2>4 DEF syncNodeGroupsStatus
  <2>6. ASSUME NEW t \in {0, 1} PROVE St(t) \in Status
    <3>1. [C EXCEPT !.paused = acc.paused, !.ltt = t] \in Conditions
      <4> HIDE DEF C
      <4> QED
        BY <2>1, <2>2, Zenon DEF Conditions
    <3> QED
      BY <2>2, <2>3, <2>5, <3>1 DEF Status
  <2>7. \E t \in {0, 1} : cr' = Patched(St(t)) \/ cr' = cr
    BY <1>2, <2>3, Zenon DEF UpdateStatus, PatchStatus
  <2> QED
    <3> HIDE DEF St
    <3> QED
      BY <2>6, <2>7, PatchedType, Zenon DEF TypeOK
<1>3. ASSUME NEW spec \in Specs, EditSpec(spec) PROVE cr' \in CRType
  <2>1. Generation(spec) \in Nat
    <3>1. cr.gen \in Nat
      BY Zenon DEF TypeOK, CRType
    <3> QED
      BY <3>1 DEF Generation
  <2>2. [cr EXCEPT !.spec = spec, !.gen = Generation(spec)] \in CRType
    BY <2>1, WithSpec, Zenon DEF TypeOK
  <2> QED
    BY <1>3, <2>2, Zenon DEF EditSpec
<1> QED
  BY <1>1, <1>2, <1>3, Zenon DEF Next, Reconcile, Others, SkipPaused, StartReconcile, SyncShared,
     Cleanup, SyncTree, ApplyDaemonSets, CheckDaemonSets, TimerFires, WatchDeliver, Crash,
     PausePool, TogglePool, RolloutPool, PodDown, DeleteDS, RelabelPool, TamperDS, SetCM,
     DeleteShared, MCOStart, MCODone, DSRollout, DSReady, SetMCP, SetDS, TypeOK

\* The cached copy and the copy Reconcile works on are former resources.
LEMMA ViewStep ==
    ASSUME Next, TypeOK
    PROVE  view' \in CRType
BY Zenon DEF Next, Reconcile, Others, SkipPaused, StartReconcile, SyncShared,
   Cleanup, SyncTree, ApplyDaemonSets, CheckDaemonSets, DegradeStatus, ReportFailure, UpdateStatus,
   PatchStatus, TimerFires, WatchDeliver, Crash, EditSpec, PausePool, TogglePool, RolloutPool,
   PodDown, DeleteDS, RelabelPool, TamperDS, SetCM, DeleteShared, MCOStart, MCODone, DSRollout,
   DSReady, SetMCP, SetDS, TypeOK

\* The MachineConfigPools keep their types.
LEMMA PoolsStep ==
    ASSUME Next, TypeOK
    PROVE  mcp' \in [Pools -> MCPType]
<1>1. ASSUME NEW p \in Pools, NEW m \in MCPType, SetMCP(p, m) PROVE mcp' \in [Pools -> MCPType]
  BY <1>1, Zenon DEF SetMCP, TypeOK
<1>2. ASSUME NEW p \in Pools,
             \/ PausePool(p) \/ TogglePool(p) \/ RolloutPool(p) \/ MCOStart(p) \/ MCODone(p)
             \/ \E l \in Labels : RelabelPool(p, l)
      PROVE  mcp' \in [Pools -> MCPType]
  <2>1. mcp[p] \in MCPType
    BY Zenon DEF TypeOK
  <2>2. (~mcp[p].paused) \in BOOLEAN /\ (~mcp[p].exists) \in BOOLEAN /\ (p \in mc) \in BOOLEAN
    OBVIOUS
  <2>3. CASE PausePool(p) \/ TogglePool(p)
    <3>1. /\ [mcp[p] EXCEPT !.paused = ~mcp[p].paused] \in MCPType
          /\ [mcp[p] EXCEPT !.exists = ~mcp[p].exists] \in MCPType
      BY <2>1, <2>2, Zenon DEF MCPType
    <3> QED
      BY <1>1, <2>3, <3>1, Zenon DEF PausePool, TogglePool
  <2>4. CASE RolloutPool(p) \/ MCOStart(p) \/ MCODone(p) \/ \E l \in Labels : RelabelPool(p, l)
    <3>1. /\ [mcp[p] EXCEPT !.upd = FALSE] \in MCPType
          /\ [mcp[p] EXCEPT !.upd = TRUE, !.src = (p \in mc)] \in MCPType
          /\ \A l \in Labels : [mcp[p] EXCEPT !.label = l] \in MCPType
      BY <2>1, <2>2, Zenon DEF MCPType
    <3> QED
      BY <1>1, <2>4, <3>1, Zenon DEF RolloutPool, MCOStart, MCODone, RelabelPool
  <2> QED
    BY <1>2, <2>3, <2>4
<1>3. ASSUME ~\E p \in Pools : \/ PausePool(p) \/ TogglePool(p) \/ RolloutPool(p)
                               \/ MCOStart(p) \/ MCODone(p)
                               \/ \E l \in Labels : RelabelPool(p, l)
      PROVE  mcp' = mcp
  BY <1>3, Zenon DEF Next, Reconcile, Others, SkipPaused, StartReconcile, SyncShared, Cleanup,
     SyncTree, ApplyDaemonSets, CheckDaemonSets, DegradeStatus, ReportFailure, UpdateStatus,
     PatchStatus, TimerFires, WatchDeliver, Crash, EditSpec, PodDown, DeleteDS, TamperDS, SetCM,
     DeleteShared, DSRollout, DSReady, SetDS, objects
<1> QED
  BY <1>2, <1>3, Zenon DEF TypeOK

\* MachineConfigs are only made for pools.
LEMMA MachineConfigsStep ==
    ASSUME Next, TypeInv
    PROVE  mc' \in SUBSET Pools
<1>1. ASSUME Cleanup PROVE mc' \in SUBSET Pools
  BY <1>1 DEF Cleanup, TypeInv, TypeOK
<1>2. ASSUME SyncTree PROVE mc' \in SUBSET Pools
  <2>1. TreePools \subseteq Pools
    BY <1>2, TreePoolsType DEF SyncTree
  <2>2. mc' = mc \/ \E D \in SUBSET WaitPools : mc' = WithMachineConfigs(D)
    BY <1>2, Zenon DEF SyncTree, reconcilePerTreeMachineConfig
  <2> QED
    BY <2>1, <2>2, Zenon DEF WaitPools, WithMachineConfigs, TypeInv, TypeOK
<1> QED
  BY <1>1, <1>2, Zenon DEF Next, Reconcile, Others, SkipPaused, StartReconcile, SyncShared,
     ApplyDaemonSets, CheckDaemonSets, DegradeStatus, ReportFailure, UpdateStatus, PatchStatus,
     TimerFires, WatchDeliver, Crash, EditSpec, PausePool, TogglePool, RolloutPool, PodDown,
     DeleteDS, RelabelPool, TamperDS, SetCM, DeleteShared, MCOStart, MCODone, DSRollout, DSReady,
     SetMCP, SetDS, objects, TypeInv, TypeOK

DSs == [Pools -> DSType \cup {NoDS}]
Hashes == [Pools -> Datas \cup {NoCM}]

\* The DaemonSets keep their types.
LEMMA DaemonSetsStep ==
    ASSUME Next, TypeInv
    PROVE  ds' \in DSs
<1>0. ds \in DSs
  BY Zenon DEF TypeInv, TypeOK, DSs
<1>1. ASSUME Cleanup PROVE ds' \in DSs
  <2>1. PICK D \in SUBSET Pools : ds' = [p \in Pools |-> IF p \in D THEN NoDS ELSE ds[p]]
    BY <1>1, Zenon DEF Cleanup, danglingDaemonSets
  <2> QED
    BY <1>0, <2>1 DEF DSs
<1>2. ASSUME ApplyDaemonSets PROVE ds' \in DSs
  <2>1. PICK D : ds' = [p \in Pools |-> IF p \in D THEN Applied(p) ELSE ds[p]]
    BY <1>2, Zenon DEF ApplyDaemonSets
  <2>2. \A p \in Pools : Applied(p) \in DSType
    BY <1>2, AppliedType DEF ApplyDaemonSets
  <2> QED
    BY <1>0, <2>1, <2>2 DEF DSs
<1>3. ASSUME NEW p \in Pools, NEW d \in DSType \cup {NoDS}, NEW e, SetDS(p, d, e) PROVE ds' \in DSs
  BY <1>0, <1>3 DEF SetDS, DSs
<1>4. ASSUME NEW p \in Pools,
             \/ DSRollout(p) \/ DSReady(p) \/ PodDown(p) \/ DeleteDS(p)
             \/ \E c \in Configs : TamperDS(p, c)
      PROVE  ds' \in DSs
  <2>1. CASE DeleteDS(p)
    BY <1>3, <2>1, Zenon DEF DeleteDS
  <2>2. CASE ~DeleteDS(p)
    <3>1. ds[p] \in DSType
      BY <1>0, <1>4, <2>2, Zenon DEF DSs, DSRollout, DSReady, PodDown, TamperDS
    <3>2. /\ [ds[p] EXCEPT !.rollout = "rolling"] \in DSType
          /\ [ds[p] EXCEPT !.rollout = "ready"] \in DSType
          /\ \A c \in Configs :
               [ds[p] EXCEPT !.cfg = c, !.rollout = IF ds[p].rollout = "ready" THEN "unseen"
                                                    ELSE ds[p].rollout] \in DSType
      BY <3>1, Zenon DEF DSType
    <3> QED
      BY <1>3, <1>4, <2>2, <3>2, Zenon DEF DSRollout, DSReady, PodDown, TamperDS
  <2> QED
    BY <2>1, <2>2
<1>5. ASSUME ~Cleanup, ~ApplyDaemonSets,
             ~\E p \in Pools : \/ DSRollout(p) \/ DSReady(p) \/ PodDown(p) \/ DeleteDS(p)
                               \/ \E c \in Configs : TamperDS(p, c)
      PROVE  ds' = ds
  BY <1>5, Zenon DEF Next, Reconcile, Others, SkipPaused, StartReconcile, SyncShared, SyncTree,
     CheckDaemonSets, DegradeStatus, ReportFailure, UpdateStatus, PatchStatus, TimerFires,
     WatchDeliver, Crash, EditSpec, PausePool, TogglePool, RolloutPool, RelabelPool, SetCM,
     DeleteShared, MCOStart, MCODone, SetMCP, objects
<1> QED
  BY <1>0, <1>1, <1>2, <1>4, <1>5, Zenon

\* The ConfigMaps keep their types.
LEMMA ConfigMapsStep ==
    ASSUME Next, TypeOK
    PROVE  cm' \in Hashes
<1>0. cm \in Hashes
  BY Zenon DEF TypeOK, Hashes
<1>1. ASSUME NEW p \in Pools, NEW d \in Datas \cup {NoCM}, SetCM(p, d) PROVE cm' \in Hashes
  BY <1>0, <1>1 DEF SetCM, Hashes
<1> QED
  BY <1>0, <1>1, Zenon DEF Next, Reconcile, Others, SkipPaused, StartReconcile, SyncShared, Cleanup,
     SyncTree, ApplyDaemonSets, CheckDaemonSets, DegradeStatus, ReportFailure, UpdateStatus,
     PatchStatus, TimerFires, WatchDeliver, Crash, EditSpec, PausePool, TogglePool, RolloutPool,
     PodDown, DeleteDS, RelabelPool, TamperDS, DeleteShared, MCOStart, MCODone, DSRollout,
     DSReady, SetMCP, SetDS, objects

-----------------------------------------------------------------------------
(* The local variables of Reconcile.                                       *)

LocalsOK ==
    /\ inst \in CRType /\ snap \in [Pools -> MCPType]
    /\ seen \in DSs /\ hash \in Hashes
    /\ pc \in {"idle", "shared", "cleanup", "tree", "apply", "ready", "status",
               "degrade spec", "degrade trees", "degrade list", "failed"}
    /\ tree \in Nat \ {0}
    /\ acc \in Results
    /\ IndexOK

\* Reading a tree keeps the types.
LEMMA ReadTreeType ==
    ASSUME TypeOK, ReadTree
    PROVE  seen' \in DSs /\ hash' \in Hashes
BY Zenon DEF ReadTree, TypeOK, DSs, Hashes

\* Ending a tree keeps the locals.
LEMMA EndTreeLocals ==
    ASSUME TypeInv, pc \in {"tree", "apply", "ready"}, UNCHANGED <<inst, snap>>,
           NEW r \in Results, EndTree(r)
    PROVE  LocalsOK'
BY EndTreeType, Zenon DEF LocalsOK, TypeInv, TypeOK, DSs, Hashes

\* The results of a tree are results.
LEMMA TreeResultsType ==
    ASSUME TypeInv, pc \in {"tree", "apply", "ready"}, NEW step \in StepType
    PROVE  /\ DaemonSetResult(step) \in Results
           /\ \A m \in SUBSET Pools :
                [ds |-> {}, mcps |-> m, paused |-> PausedPools, step |-> step] \in Results
<1>1. TreePools \subseteq Pools
  BY TreePoolsType
<1> QED
  BY <1>1 DEF DaemonSetResult, Results, PausedPools

\* Every step of Reconcile keeps the local variables well typed and the index of
\* the tree in range.
LEMMA LocalsStep ==
    ASSUME Next, TypeInv
    PROVE  LocalsOK'
<1> USE DEF TypeInv
<1>1. ASSUME UNCHANGED locals PROVE LocalsOK'
  BY <1>1, Zenon DEF locals, LocalsOK, TypeOK, IndexOK, DSs, Hashes
<1>2. ASSUME Reset PROVE LocalsOK'
  BY <1>2, ResetType DEF LocalsOK, IndexOK, DSs, Hashes
<1>3. ASSUME StartReconcile PROVE LocalsOK'
  <2>1. pc' \in {"degrade spec", "degrade trees", "degrade list", "shared"}
    BY <1>3, Zenon DEF StartReconcile
  <2>2. pc' = "shared" => ValidNodeGroups(inst'.spec.groups)
    BY <1>3 DEF StartReconcile
  <2>3. tree' = 1 /\ UNCHANGED <<seen, hash, acc>> /\ inst' = view /\ snap' = mcp
    BY <1>3, Zenon DEF StartReconcile, IndexOK
  <2>4. IndexOK'
    BY <2>1, <2>2, <2>3, Zenon DEF IndexOK
  <2>5. tree' \in Nat \ {0}
    BY <2>3
  <2>6. view \in CRType /\ mcp \in [Pools -> MCPType] /\ seen \in DSs /\ hash \in Hashes
        /\ acc \in Results
    BY Zenon DEF TypeOK, DSs, Hashes
  <2> QED
    BY <2>1, <2>3, <2>4, <2>5, <2>6, Zenon DEF LocalsOK
<1>4. ASSUME SyncShared PROVE LocalsOK'
  BY <1>4, Zenon DEF SyncShared, LocalsOK, TypeOK, IndexOK, DSs, Hashes
<1>5. ASSUME Cleanup PROVE LocalsOK'
  <2>1. tree = 1 /\ ValidNodeGroups(inst.spec.groups)
    BY <1>5 DEF Cleanup, IndexOK
  <2>2. inst.spec.groups # <<>> => 1 \in DOMAIN inst.spec.groups
    BY GroupsType
  <2>3. UNCHANGED <<inst, snap, tree, seen, hash, acc>>
        /\ pc' = IF inst.spec.groups = <<>> THEN "status" ELSE "tree"
    BY <1>5 DEF Cleanup
  <2> QED
    BY <2>1, <2>2, <2>3, Zenon DEF LocalsOK, TypeOK, IndexOK, DSs, Hashes
<1>6. ASSUME SyncTree PROVE LocalsOK'
  <2>0. pc = "tree" /\ UNCHANGED <<inst, snap>>
    BY <1>6 DEF SyncTree
  <2>1. ASSUME pc' = "apply", ReadTree, UNCHANGED <<tree, acc>> PROVE LocalsOK'
    BY <2>0, <2>1, ReadTreeType DEF LocalsOK, TypeOK, IndexOK
  <2>2. ASSUME NEW m \in SUBSET Pools, NEW st \in StepType,
               EndTree([ds |-> {}, mcps |-> m, paused |-> PausedPools, step |-> st])
        PROVE  LocalsOK'
    BY <2>0, <2>2, EndTreeLocals, TreeResultsType
  <2>3. TreePools \in SUBSET Pools
    BY <2>0, TreePoolsType
  <2>4. CASE Platform # "OpenShift"
    BY <1>6, <2>1, <2>4, Zenon DEF SyncTree
  <2>5. CASE Platform = "OpenShift"
    <3> DEFINE MCSteps == {StepFailed, StepOngoing(0)} \cup {WithMessage(StepOngoing(60), p) : p \in Pools}
    <3>1. \/ pc' = "apply" /\ ReadTree /\ UNCHANGED <<tree, acc>>
          \/ \E m \in SUBSET TreePools, st \in MCSteps :
               EndTree([ds |-> {}, mcps |-> m, paused |-> PausedPools, step |-> st])
      <4>1. PICK D \in SUBSET WaitPools :
              \/ EndTree([ds |-> {}, mcps |-> {}, paused |-> PausedPools, step |-> StepFailed])
              \/ \E p \in PendingPools, visited \in SUBSET (TreePools \ PendingPools) :
                   EndTree([ds |-> {}, mcps |-> visited \cup {p}, paused |-> PausedPools,
                            step |-> WithMessage(StepOngoing(60), p)])
              \/ EndTree([ds |-> {}, mcps |-> TreePools, paused |-> PausedPools,
                          step |-> StepOngoing(0)])
              \/ pc' = "apply" /\ ReadTree /\ UNCHANGED <<tree, acc>>
        BY <1>6, <2>5, Zenon DEF SyncTree, reconcilePerTreeMachineConfig
      <4>2. ASSUME NEW p \in PendingPools, NEW visited \in SUBSET (TreePools \ PendingPools)
            PROVE  visited \cup {p} \in SUBSET TreePools /\ WithMessage(StepOngoing(60), p) \in MCSteps
        BY <2>3 DEF PendingPools, WaitPools
      <4>3. StepFailed \in MCSteps /\ StepOngoing(0) \in MCSteps
            /\ {} \in SUBSET TreePools /\ TreePools \in SUBSET TreePools
        OBVIOUS
      <4> QED
        BY <4>1, <4>2, <4>3, Zenon
    <3>2. MCSteps \subseteq StepType
      BY StepsType
    <3>3. SUBSET TreePools \subseteq SUBSET Pools
      BY <2>3
    <3> QED
      BY <2>1, <2>2, <3>1, <3>2, <3>3, Zenon
  <2> QED
    BY <2>4, <2>5
<1>7. ASSUME ApplyDaemonSets \/ CheckDaemonSets PROVE LocalsOK'
  <2>0. pc \in {"apply", "ready"} /\ UNCHANGED <<inst, snap>>
    BY <1>7 DEF ApplyDaemonSets, CheckDaemonSets
  <2>1. \/ pc = "apply" /\ pc' = "ready" /\ UNCHANGED <<tree, seen, hash, acc>>
        \/ EndTree(DaemonSetResult(StepFailed)) \/ EndTree(DaemonSetResult(StepSuccess))
        \/ \E p \in TreePools : EndTree(DaemonSetResult(WithMessage(StepOngoing(5), p)))
    BY <1>7, Zenon DEF ApplyDaemonSets, CheckDaemonSets
  <2>2. CASE pc = "apply" /\ pc' = "ready" /\ UNCHANGED <<tree, seen, hash, acc>>
    BY <2>0, <2>2 DEF LocalsOK, TypeOK, IndexOK, DSs, Hashes
  <2>3. ASSUME NEW st \in StepType, EndTree(DaemonSetResult(st))
        PROVE  LocalsOK'
    <3>1. DaemonSetResult(st) \in Results
      BY <2>0, TreeResultsType
    <3> QED
      BY <2>0, <2>3, <3>1, EndTreeLocals
  <2>4. TreePools \subseteq Pools
    BY <2>0, TreePoolsType
  <2> QED
    BY <2>1, <2>2, <2>3, <2>4, StepsType, Zenon
<1>8. ASSUME DegradeStatus \/ ReportFailure \/ UpdateStatus \/ Crash PROVE Reset
  BY <1>8, Zenon DEF DegradeStatus, ReportFailure, UpdateStatus, Crash, PatchStatus
<1>9. ASSUME \/ SkipPaused \/ TimerFires \/ WatchDeliver \/ Others
             \/ \E p \in Pools : MCOStart(p) \/ MCODone(p) \/ DSRollout(p) \/ DSReady(p)
      PROVE  UNCHANGED locals
  BY <1>9, Zenon DEF SkipPaused, TimerFires, WatchDeliver, Others, EditSpec, PausePool, TogglePool,
     RolloutPool, PodDown, DeleteDS, RelabelPool, TamperDS, SetCM, DeleteShared, MCOStart,
     MCODone, DSRollout, DSReady, SetMCP, SetDS
<1> QED
  BY <1>1, <1>2, <1>3, <1>4, <1>5, <1>6, <1>7, <1>8, <1>9, Zenon DEF Next, Reconcile

-----------------------------------------------------------------------------
(* Type correctness.                                                       *)

\* The type invariant is the conjunction of the parts above.
LEMMA TypeParts ==
    TypeInv <=> /\ cr \in CRType /\ view \in CRType /\ mcp \in [Pools -> MCPType]
                /\ mc \in SUBSET Pools /\ ds \in DSs /\ cm \in Hashes
                /\ FlagsOK /\ budget \in 0 .. Budget /\ LocalsOK
BY Zenon DEF TypeInv, TypeOK, FlagsOK, LocalsOK, DSs, Hashes

\* Initially the types hold.
LEMMA TypeInit == Init => TypeInv
<1> SUFFICES ASSUME Init PROVE TypeInv
  OBVIOUS
<1>1. InitCR \in CRType
  <2>1. InitStatus \in Status
    BY DEF InitStatus, Status, Conditions, Messages
  <2> QED
    BY <2>1, SpecsAssumption DEF InitCR, CRType
<1>2. NoResults \in Results
  BY StepsType DEF NoResults, Results
<1>3. ds \in DSs /\ cm \in Hashes
  BY InitAssumption DEF Init, DSs, DSType, Hashes
<1>4. LocalsOK
  BY <1>1, <1>2, InitAssumption DEF Init, LocalsOK, IndexOK, DSs, Hashes
<1>5. FlagsOK
  BY Zenon DEF Init, FlagsOK
<1>6. budget \in 0 .. Budget
  BY SpecsAssumption DEF Init
<1>7. cr \in CRType /\ view \in CRType /\ mcp \in [Pools -> MCPType] /\ mc \in SUBSET Pools
  BY <1>1, InitAssumption DEF Init
<1> QED
  BY <1>3, <1>4, <1>5, <1>6, <1>7, TypeParts, Zenon

\* Every step keeps them.
LEMMA TypeNext == TypeInv /\ [Next]_vars => TypeInv'
<1> SUFFICES ASSUME TypeInv, [Next]_vars PROVE TypeInv'
  OBVIOUS
<1>0. TypeOK
  BY DEF TypeInv
<1>1. CASE Next
  <2>1. cr' \in CRType /\ view' \in CRType
    BY <1>0, <1>1, ResourceStep, ViewStep
  <2>2. mcp' \in [Pools -> MCPType] /\ mc' \in SUBSET Pools
    BY <1>0, <1>1, PoolsStep, MachineConfigsStep
  <2>3. ds' \in DSs /\ cm' \in Hashes
    BY <1>0, <1>1, DaemonSetsStep, ConfigMapsStep
  <2>4. FlagsOK'
    BY <1>1, FlagsStep, TypeParts, Zenon
  <2>5. budget' \in 0 .. Budget
    BY <1>1, BudgetStep, TypeParts, Zenon
  <2>6. LocalsOK'
    BY <1>1, LocalsStep
  <2> QED
    BY <2>1, <2>2, <2>3, <2>4, <2>5, <2>6, Zenon
       DEF TypeInv, TypeOK, FlagsOK, LocalsOK, DSs, Hashes
<1>2. CASE UNCHANGED vars
  BY <1>2, Zenon DEF vars, objects, locals, TypeInv, TypeOK, IndexOK
<1> QED
  BY <1>1, <1>2

\* Type correctness of the controller and of the cluster around it, for every
\* instance: the tree index never leaves the node groups (NROController, all
\* actions).
THEOREM TypeCorrect == Spec => []TypeOK
<1>1. TypeInv => TypeOK
  BY DEF TypeInv
<1> QED
  BY <1>1, TypeInit, TypeNext, PTL DEF Spec

-----------------------------------------------------------------------------
(* The exporters.                                                          *)

\* The ways a DaemonSet can change: written for its tree, deleted while owned by
\* the operator, or touched without a change of its policy, its hash or its owner.
LEMMA DaemonSetChanges ==
    ASSUME Next, TypeInv, NEW p \in Pools, ds'[p] # ds[p]
    PROVE  \/ /\ pc = "apply" /\ p \in TreePools /\ mc' = mc
              /\ ds'[p].custom = Group.custom /\ ds'[p].hash = hash[p]
           \/ ds'[p] = NoDS /\ ds[p].owned
           \/ /\ ds[p] # NoDS /\ ds'[p] # NoDS /\ ds'[p].hash = ds[p].hash
              /\ ds'[p].custom = ds[p].custom /\ ds'[p].owned = ds[p].owned
<1> DEFINE Written == /\ pc = "apply" /\ p \in TreePools /\ mc' = mc
                      /\ ds'[p].custom = Group.custom /\ ds'[p].hash = hash[p]
           Deleted == ds'[p] = NoDS /\ ds[p].owned
           Touched == /\ ds[p] # NoDS /\ ds'[p] # NoDS /\ ds'[p].hash = ds[p].hash
                      /\ ds'[p].custom = ds[p].custom /\ ds'[p].owned = ds[p].owned
<1>0. ds \in DSs
  BY Zenon DEF TypeInv, TypeOK, DSs
<1>1. ASSUME Cleanup PROVE Deleted
  BY <1>1 DEF Cleanup, danglingDaemonSets
<1>2. ASSUME ApplyDaemonSets PROVE Written
  <2>1. PICK D \in SUBSET TreePools : ds' = [q \in Pools |-> IF q \in D THEN Applied(q) ELSE ds[q]]
    BY <1>2, Zenon DEF ApplyDaemonSets
  <2>2. p \in D /\ ds'[p] = Applied(p)
    BY <2>1
  <2>3. Applied(p).custom = Group.custom /\ Applied(p).hash = hash[p]
    BY DEF Applied
  <2> QED
    BY <1>2, <2>1, <2>2, <2>3 DEF ApplyDaemonSets
<1>3. ASSUME NEW q \in Pools, DeleteDS(q) PROVE Deleted
  BY <1>0, <1>3 DEF DeleteDS, SetDS, DSs
<1>4. ASSUME NEW q \in Pools,
             DSRollout(q) \/ DSReady(q) \/ PodDown(q) \/ \E c \in Configs : TamperDS(q, c)
      PROVE  Touched
  <2>1. ds[q] \in DSType /\ ds[q] # NoDS
    BY <1>0, <1>4, Zenon DEF DSs, DSRollout, DSReady, PodDown, TamperDS
  <2>2. \E c \in Configs, x \in {"unseen", "rolling", "ready"} :
           ds' = [ds EXCEPT ![q] = [ds[q] EXCEPT !.cfg = c, !.rollout = x]]
    <3>1. ds[q].cfg \in Configs /\ ds[q].rollout \in {"unseen", "rolling", "ready"}
      BY <2>1 DEF DSType
    <3>2. \A x : [ds[q] EXCEPT !.rollout = x] = [ds[q] EXCEPT !.cfg = ds[q].cfg, !.rollout = x]
      BY <2>1, Zenon DEF DSType
    <3>3. (IF ds[q].rollout = "ready" THEN "unseen" ELSE ds[q].rollout)
             \in {"unseen", "rolling", "ready"}
      BY <3>1
    <3> QED
      BY <1>4, <3>1, <3>2, <3>3, Zenon DEF DSRollout, DSReady, PodDown, TamperDS, SetDS
  <2>3. PICK c \in Configs, x \in {"unseen", "rolling", "ready"} :
           ds' = [ds EXCEPT ![q] = [ds[q] EXCEPT !.cfg = c, !.rollout = x]]
    BY <2>2, Zenon
  <2>4. p = q /\ ds'[p] = [ds[p] EXCEPT !.cfg = c, !.rollout = x]
    BY <1>0, <2>3, Zenon DEF DSs
  <2>5. /\ ds'[p] \in DSType /\ ds'[p].hash = ds[p].hash
        /\ ds'[p].custom = ds[p].custom /\ ds'[p].owned = ds[p].owned
    BY <2>1, <2>4, Zenon DEF DSType
  <2> QED
    BY <2>1, <2>4, <2>5, InitAssumption
<1>5. ds' # ds
  OBVIOUS
<1>6. Cleanup \/ ApplyDaemonSets
      \/ \E q \in Pools : \/ DeleteDS(q) \/ DSRollout(q) \/ DSReady(q) \/ PodDown(q)
                          \/ \E c \in Configs : TamperDS(q, c)
  BY <1>5, Zenon DEF Next, Reconcile, Others, SkipPaused, StartReconcile, SyncShared, SyncTree,
     CheckDaemonSets, DegradeStatus, ReportFailure, UpdateStatus, PatchStatus, TimerFires,
     WatchDeliver, Crash, EditSpec, PausePool, TogglePool, RolloutPool, RelabelPool, SetCM,
     DeleteShared, MCOStart, MCODone, SetMCP, objects
<1> QED
  BY <1>1, <1>2, <1>3, <1>4, <1>6, Zenon

\* The cleaner's rule about owners, for every instance: a DaemonSet of somebody
\* else only changes hands when a tree selects its pool (DeleteUnusedDaemonSets).
THEOREM ForeignTheorem == Spec => ForeignLeftAlone
<1>1. TypeInv /\ [Next]_vars => [ForeignStep]_vars
  <2> SUFFICES ASSUME TypeInv, Next PROVE ForeignStep
    OBVIOUS
  <2> SUFFICES ASSUME NEW p \in Pools, ds[p] # NoDS, ~ds[p].owned, ds'[p] # ds[p],
                      ds'[p] # NoDS => ds'[p].owned
               PROVE  pc = "apply" /\ p \in TreePools
    BY DEF ForeignStep
  <2>1. CASE ds'[p] = NoDS
    BY <2>1, DaemonSetChanges
  <2>2. CASE ds'[p] # NoDS
    BY <2>2, DaemonSetChanges
  <2> QED
    BY <2>1, <2>2
<1> QED
  BY <1>1, TypeInit, TypeNext, PTL DEF Spec, ForeignLeftAlone

\* When the exporters of a tree are about to be written, its pools have their
\* MachineConfigs if and only if the node group uses the custom policy.
PolicyInv ==
    pc = "apply" /\ Platform = "OpenShift" =>
        \A p \in TreePools \ NoMCSelector : Group.custom <=> p \in mc

\* PolicyInv is kept: it is established when the MachineConfigs of the tree are
\* in place and none of its pools is paused, and nobody else writes them.
LEMMA PolicyNext == TypeInv /\ PolicyInv /\ [Next]_vars => PolicyInv'
<1> SUFFICES ASSUME TypeInv, PolicyInv, [Next]_vars, pc' = "apply", Platform = "OpenShift",
                    NEW p \in TreePools', p \notin NoMCSelector
             PROVE  (Group.custom <=> p \in mc)'
  BY DEF PolicyInv
<1>1. CASE SyncTree
  <2>1. pc' \in {"tree", "status"} \/ (PausedPools = {} /\ mc' = WithMachineConfigs(WaitPools))
    BY <1>1, Zenon DEF SyncTree, reconcilePerTreeMachineConfig, EndTree
  <2>2. UNCHANGED <<inst, snap, tree>>
    BY <1>1, Zenon DEF SyncTree, reconcilePerTreeMachineConfig, EndTree
  <2>3. TreePools' = TreePools /\ Group' = Group
    BY <2>2 DEF TreePools, Group
  <2> QED
    BY <2>1, <2>3 DEF WaitPools, WithMachineConfigs
<1>2. CASE UNCHANGED <<pc, inst, snap, tree, mc>>
  BY <1>2 DEF PolicyInv, TreePools, Group
<1>3. CASE ~SyncTree /\ Next
  <2>1. UNCHANGED <<pc, inst, snap, tree, mc>>
    BY <1>3, Zenon DEF Next, Reconcile, Others, SkipPaused, StartReconcile, SyncShared, Cleanup,
       ApplyDaemonSets, CheckDaemonSets, EndTree, DegradeStatus, ReportFailure, UpdateStatus,
       PatchStatus, Reset, TimerFires, WatchDeliver, Crash, EditSpec, PausePool, TogglePool,
       RolloutPool, PodDown, DeleteDS, RelabelPool, TamperDS, SetCM, DeleteShared, MCOStart,
       MCODone, DSRollout, DSReady, SetMCP, SetDS, objects, locals
  <2> QED
    BY <1>2, <2>1
<1>4. CASE UNCHANGED vars
  BY <1>2, <1>4 DEF vars, locals, objects
<1> QED
  BY <1>1, <1>3, <1>4

\* The rule about the security policy for every instance: however edits, crashes
\* and failures interleave with a reconciliation, an exporter is only created or
\* moved to another policy in step with the MachineConfig of its pool
\* (reconcilePerTreeMachineConfig, reconcilePerTreeDaemonSet).
THEOREM PolicyTheorem == Spec => PolicyFollowsMachineConfig
<1>1. Init => PolicyInv
  BY DEF Init, PolicyInv
<1>2. TypeInv /\ PolicyInv /\ [Next]_vars => [PolicyStep]_vars
  <2> SUFFICES ASSUME TypeInv, PolicyInv, Next PROVE PolicyStep
    OBVIOUS
  <2> SUFFICES ASSUME NEW p \in Pools, p \notin NoMCSelector, Platform = "OpenShift",
                      ds'[p] # NoDS, ds[p] = NoDS \/ ds[p].custom # ds'[p].custom
               PROVE  ds'[p].custom <=> p \in mc
    BY DEF PolicyStep
  <2>1. pc = "apply" /\ p \in TreePools /\ ds'[p].custom = Group.custom
    BY DaemonSetChanges
  <2> QED
    BY <2>1 DEF PolicyInv
<1> QED
  BY <1>1, <1>2, TypeInit, TypeNext, PolicyNext, PTL DEF Spec, PolicyFollowsMachineConfig

-----------------------------------------------------------------------------
(* The inductive invariant behind NoLostWakeup and StatusTellsTruth, and   *)
(* that the world around the controller and the first steps of Reconcile   *)
(* keep it. NROWakeProofs does the other steps and draws the two theorems. *)

\* What the operator cannot notice, or notices and does not come back to: pools
\* that go or change their labels and unwatched objects map to no request; a failed
\* list only degrades the status, and a failed deletion of what is left over is only
\* logged.  Deleted ConfigMaps map to no request either; see Follows.
Unnoticed == {"relabel", "pools", "unwatched", "listfault", "cleanupfault"}

EverythingNoticed == Disturbances \cap Unnoticed = {}

-----------------------------------------------------------------------------
(* The inductive invariant.                                                *)

\* The pools a node group selects: without pools coming, going or changing their
\* labels, always those of InitMCP.
Tree(group) == TreeDaemonSets(group, InitMCP)
Names(gs) == ManagedDaemonSets(gs, InitMCP)

\* Whether a specification is one the operator works on.
Accepts(spec) ==
    /\ ~spec.image /\ ValidNodeGroups(spec.groups)
    /\ TreesFound(spec.groups, InitMCP) /\ ValidTrees(spec.groups, InitMCP)

\* No pool has come, gone or changed its labels.
SamePools(mcps) ==
    \A p \in Pools : mcps[p].exists = InitMCP[p].exists /\ mcps[p].label = InitMCP[p].label

\* Nothing is left over from other node groups.
Clean(gs) == \A p \in Pools \ Names(gs) : (ds[p] # NoDS => ~ds[p].owned) /\ p \notin mc

\* The exporter of pool p runs as its node group and, if there is one, its ConfigMap
\* say.
Follows(p, group) ==
    /\ ds[p] # NoDS /\ ds[p].owned
    /\ ds[p].custom = group.custom /\ ds[p].cfg = group.cfg
    /\ cm[p] # NoCM => ds[p].hash = cm[p]

\* The exporters of a group are as the group says, or there is an event to come.
TreeSettled(group) ==
    (Platform = "OpenShift" => \A p \in Tree(group) : ~mcp[p].paused /\ Rolled(p, group))
        => \A p \in Tree(group) : Follows(p, group)

\* A DaemonSet that only differs in what the DaemonSet controller writes.
SameSpec(d, e) ==
    /\ (d = NoDS) = (e = NoDS)
    /\ d # NoDS => /\ d.custom = e.custom /\ d.cfg = e.cfg /\ d.hash = e.hash
                   /\ d.owned = e.owned

\* The operator will not be woken by anything that has happened.
Quiet == pc = "idle" /\ ~queued /\ ~timer /\ view.status = cr.status /\ ~view.spec.pause

\* The status of a completed reconciliation.
Complete(c) ==
    /\ c.status.ds = Names(c.spec.groups)
    /\ c.status.ngs = UNION {{<<p, c.spec.groups[i].cfg>> : p \in Tree(c.spec.groups[i])}
                                : i \in DOMAIN c.spec.groups}
    /\ c.status.conds.paused = {}
    /\ c.status.conds.base = IF MultipleMCPsPerTree(c.spec.groups, InitMCP, c.spec.multi)
                             THEN "Degraded" ELSE "Available"

\* The resource c is true of the objects and of its own specification.
Settled(c) ==
    /\ c.status.conds.gen = c.gen
    /\ ~Accepts(c.spec) => c.status.conds.base = "Degraded"
    /\ Accepts(c.spec) =>
         /\ shared /\ Clean(c.spec.groups)
         /\ \A i \in DOMAIN c.spec.groups : TreeSettled(c.spec.groups[i])
         /\ (Platform = "OpenShift" => \A p \in Names(c.spec.groups) : ~mcp[p].paused)
              => Complete(c)

Working == pc \in {"shared", "cleanup", "tree", "apply", "ready", "status"}
InTrees == pc \in {"tree", "apply", "ready", "status"}
Handled(i) == i < tree \/ pc = "status"

\* What the reduction of the results so far knows.
ResultsInv ==
    /\ Failed(acc.step) <=> acc.step.type = "Degraded"
    /\ Ongoing(acc.step) => acc.step.after > 0 \/ acc.paused # {}
    /\ \A p \in acc.paused : Platform = "OpenShift" /\ p \in Names(inst.spec.groups) /\ snap[p].paused
    /\ Done(acc.step) =>
         /\ acc.paused = {}
         /\ \A p \in Pools : p \in acc.ds <=>
                              \E i \in DOMAIN inst.spec.groups : Handled(i) /\ p \in Tree(inst.spec.groups[i])

\* What a Reconcile knows by itself.
OwnInv ==
    /\ SamePools(mcp) /\ SamePools(snap)
    /\ Platform = "HyperShift" => mc = {}
    /\ pc # "degrade list"
    /\ pc \in {"degrade spec", "degrade trees"} => ~Accepts(inst.spec)
    /\ Working => Accepts(inst.spec)
    /\ IF InTrees THEN ResultsInv ELSE acc = NoResults

\* What it knows as long as no request is in the workqueue.
CalmInv ==
    /\ pc # "idle" => inst = view
    /\ Working /\ Platform = "OpenShift" => \A p \in Names(inst.spec.groups) : snap[p] = mcp[p]
    /\ Working /\ pc # "shared" => shared
    /\ InTrees => /\ Clean(inst.spec.groups)
                  /\ ~Failed(acc.step) =>
                       \A i \in DOMAIN inst.spec.groups : Handled(i) => TreeSettled(inst.spec.groups[i])
    /\ pc = "apply" => \A p \in Tree(Group) : /\ cm[p] # NoCM => hash[p] = cm[p]
                                              /\ SameSpec(seen[p], ds[p])
    /\ pc = "ready" => \A p \in Tree(Group) : Follows(p, Group)
    /\ Quiet => Settled(view)

WakeInv == OwnInv /\ (~queued => CalmInv)

-----------------------------------------------------------------------------
(* Trees and names.                                                        *)

\* Only the existence and the labels of the pools count for the trees.
LEMMA SameTrees ==
    ASSUME NEW ms, SamePools(ms), NEW g
    PROVE  TreeMCPs(g, ms) = TreeMCPs(g, InitMCP) /\ TreeDaemonSets(g, ms) = Tree(g)
<1>1. TreeMCPs(g, ms) = TreeMCPs(g, InitMCP)
  BY DEF SamePools, TreeMCPs
<1> QED
  BY <1>1 DEF TreeDaemonSets, Tree

LEMMA SameNames ==
    ASSUME NEW ms, SamePools(ms), NEW gs
    PROVE  /\ TreesFound(gs, ms) <=> TreesFound(gs, InitMCP)
           /\ ValidTrees(gs, ms) <=> ValidTrees(gs, InitMCP)
           /\ \A multi : MultipleMCPsPerTree(gs, ms, multi) <=> MultipleMCPsPerTree(gs, InitMCP, multi)
           /\ ManagedDaemonSets(gs, ms) = Names(gs)
           /\ buildDaemonSetNames(gs, ms) = buildDaemonSetNames(gs, InitMCP)
           /\ expectedMachineConfigNames(gs, ms) = expectedMachineConfigNames(gs, InitMCP)
<1>1. \A g : TreeMCPs(g, ms) = TreeMCPs(g, InitMCP) /\ TreeDaemonSets(g, ms) = Tree(g)
  BY SameTrees
<1>2. /\ TreesFound(gs, ms) <=> TreesFound(gs, InitMCP)
      /\ ValidTrees(gs, ms) <=> ValidTrees(gs, InitMCP)
  BY <1>1 DEF TreesFound, ValidTrees, MCPsDuplicates
<1>3. \A multi : MultipleMCPsPerTree(gs, ms, multi) <=> MultipleMCPsPerTree(gs, InitMCP, multi)
  BY <1>1 DEF MultipleMCPsPerTree
<1>4. ManagedDaemonSets(gs, ms) = Names(gs)
  BY <1>1 DEF ManagedDaemonSets, Names, Tree
<1>5. /\ buildDaemonSetNames(gs, ms) = buildDaemonSetNames(gs, InitMCP)
      /\ expectedMachineConfigNames(gs, ms) = expectedMachineConfigNames(gs, InitMCP)
  BY <1>1 DEF buildDaemonSetNames, expectedMachineConfigNames
<1> QED
  BY <1>2, <1>3, <1>4, <1>5

\* The trees of an accepted specification are made of pools.
LEMMA TreeFacts ==
    ASSUME NEW spec \in Specs, Accepts(spec), NEW i \in DOMAIN spec.groups
    PROVE  Tree(spec.groups[i]) \subseteq Pools /\ Tree(spec.groups[i]) \subseteq Names(spec.groups)
<1>1. CASE Platform = "OpenShift"
  BY <1>1 DEF Tree, TreeDaemonSets, TreeMCPs, Names, ManagedDaemonSets
<1>2. CASE Platform = "HyperShift"
  <2>1. spec.groups[i].pool # NoPool /\ spec.groups[i].pool # EmptyName
    BY <1>2 DEF Accepts, ValidNodeGroups, nodeGroupForHypershift, nodeGroupsValidPoolName
  <2>2. spec.groups \in Seq(NodeGroup)
    BY SpecsAssumption
  <2>3. spec.groups[i] \in NodeGroup
    BY <2>2
  <2>4. spec.groups[i].pool \in Pools
    BY <2>1, <2>3 DEF NodeGroup
  <2> QED
    BY <1>2, <2>4 DEF Tree, TreeDaemonSets, Names, ManagedDaemonSets
<1> QED
  BY <1>1, <1>2, PlatformAssumption

\* The cleaner keeps exactly the names of the trees.
LEMMA KeptNames ==
    ASSUME NEW spec \in Specs, Accepts(spec)
    PROVE  /\ buildDaemonSetNames(spec.groups, InitMCP) = Names(spec.groups)
           /\ Platform = "OpenShift" => expectedMachineConfigNames(spec.groups, InitMCP) = Names(spec.groups)
<1> DEFINE gs == spec.groups
           Kept(i) == IF gs[i].pool # NoPool THEN {gs[i].pool} ELSE TreeMCPs(gs[i], InitMCP)
<1>1. ASSUME NEW i \in DOMAIN gs PROVE Kept(i) = Tree(gs[i])
  <2>1. CASE Platform = "HyperShift"
    BY <2>1 DEF Tree, TreeDaemonSets, Accepts, ValidNodeGroups, nodeGroupForHypershift
  <2>2. CASE Platform = "OpenShift" /\ gs[i].pool # NoPool
    <3>1. gs[i].sel = NoSelector /\ TreeMCPs(gs[i], InitMCP) # {}
      BY <2>2 DEF Accepts, ValidNodeGroups, nodeGroupsSpecifier, TreesFound
    <3>2. TreeMCPs(gs[i], InitMCP) = {gs[i].pool}
      BY <3>1 DEF TreeMCPs
    <3> QED
      BY <2>2, <3>2 DEF Tree, TreeDaemonSets
  <2>3. CASE Platform = "OpenShift" /\ gs[i].pool = NoPool
    BY <2>3 DEF Tree, TreeDaemonSets
  <2> QED
    BY <2>1, <2>2, <2>3, PlatformAssumption
<1>2. buildDaemonSetNames(gs, InitMCP) = Names(gs)
  BY <1>1, Zenon DEF buildDaemonSetNames, Names, ManagedDaemonSets, Tree
<1>3. Platform = "OpenShift" => expectedMachineConfigNames(gs, InitMCP) = Names(gs)
  BY DEF expectedMachineConfigNames, Names, ManagedDaemonSets, TreeDaemonSets
<1> QED
  BY <1>2, <1>3

\* Every event on a pool of a tree is mapped to a request.
LEMMA NoticedPools ==
    ASSUME NEW spec \in Specs, Accepts(spec), Platform = "OpenShift", NEW p \in Names(spec.groups)
    PROVE  /\ p \in Pools /\ InitMCP[p].exists
           /\ \E i \in DOMAIN spec.groups : nodeGroupMatchesMCP(spec.groups[i], p, InitMCP[p].label)
<1>1. PICK i \in DOMAIN spec.groups : p \in TreeMCPs(spec.groups[i], InitMCP)
  BY DEF Names, ManagedDaemonSets, TreeDaemonSets
<1>2. p \in Pools /\ InitMCP[p].exists
  BY <1>1 DEF TreeMCPs
<1>3. (spec.groups[i].sel = NoSelector) # (spec.groups[i].pool = NoPool)
  BY DEF Accepts, ValidNodeGroups, nodeGroupsSpecifier
<1>4. nodeGroupMatchesMCP(spec.groups[i], p, InitMCP[p].label)
  BY <1>1, <1>2, <1>3, NamesAssumption DEF TreeMCPs, nodeGroupMatchesMCP
<1> QED
  BY <1>2, <1>4

-----------------------------------------------------------------------------
(* Steps of others.                                                        *)

World == Others \/ \E p \in Pools : MCOStart(p) \/ MCODone(p) \/ DSRollout(p) \/ DSReady(p)

\* What the world leaves alone.
LEMMA WorldFrame ==
    ASSUME World
    PROVE  UNCHANGED <<view, mc, timer, locals>>
BY Zenon DEF World, Others, EditSpec, PausePool, TogglePool, RolloutPool, PodDown, DeleteDS,
   RelabelPool, TamperDS, SetCM, DeleteShared, MCOStart, MCODone, DSRollout, DSReady, SetMCP, SetDS,
   objects

\* Requests stay in the workqueue.
LEMMA WorldQueue ==
    ASSUME World, queued \in BOOLEAN
    PROVE  queued' \in BOOLEAN /\ (queued => queued')
<1>1. queued' \in BOOLEAN
  BY Zenon DEF World, Others, EditSpec, PausePool, TogglePool, RolloutPool, PodDown, DeleteDS,
     RelabelPool, TamperDS, SetCM, DeleteShared, MCOStart, MCODone, DSRollout, DSReady, SetMCP, SetDS
<1>2. queued => queued'
  BY Zenon DEF World, Others, EditSpec, PausePool, TogglePool, RolloutPool, PodDown, DeleteDS,
     RelabelPool, TamperDS, SetCM, DeleteShared, MCOStart, MCODone, DSRollout, DSReady, SetMCP, SetDS
<1> QED
  BY <1>1, <1>2

\* A change of a MachineConfigPool that keeps its existence and its labels is an
\* event if the pool is one of the specification's.
LEMMA PoolChange ==
    ASSUME TypeOK, SamePools(mcp), NEW q \in Pools, NEW m \in MCPType,
           m.exists = mcp[q].exists, m.label = mcp[q].label, SetMCP(q, m)
    PROVE  /\ SamePools(mcp')
           /\ ~queued' /\ Accepts(view.spec) /\ Platform = "OpenShift" =>
                \A p \in Names(view.spec.groups) : mcp'[p] = mcp[p]
<1>0. mcp \in [Pools -> MCPType] /\ view.spec \in Specs /\ queued \in BOOLEAN
  BY Zenon DEF TypeOK, CRType
<1>1. mcp' = [mcp EXCEPT ![q] = m]
  BY DEF SetMCP
<1>2. SamePools(mcp')
  BY <1>0, <1>1 DEF SamePools
<1>3. ASSUME ~queued', Accepts(view.spec), Platform = "OpenShift", NEW p \in Names(view.spec.groups)
      PROVE  mcp'[p] = mcp[p]
  <2>1. /\ p \in Pools /\ InitMCP[p].exists
        /\ \E i \in DOMAIN view.spec.groups : nodeGroupMatchesMCP(view.spec.groups[i], p, InitMCP[p].label)
    BY <1>0, <1>3, NoticedPools
  <2>2. ~mcpToNUMAResourceOperator(q, m)
    BY <1>0, <1>3, Zenon DEF SetMCP
  <2>3. p # q
    BY <1>3, <2>1, <2>2 DEF mcpToNUMAResourceOperator, SamePools
  <2> QED
    BY <1>0, <1>1, <2>1, <2>3
<1> QED
  BY <1>2, <1>3

\* The MachineConfigPools.
LEMMA WorldPools ==
    ASSUME TypeOK, SamePools(mcp), EverythingNoticed, World
    PROVE  /\ SamePools(mcp')
           /\ ~queued' /\ Accepts(view.spec) /\ Platform = "OpenShift" =>
                \A p \in Names(view.spec.groups) : mcp'[p] = mcp[p]
<1>0. mcp \in [Pools -> MCPType] /\ "pools" \notin Disturbances /\ "relabel" \notin Disturbances
  BY Zenon DEF TypeOK, EverythingNoticed, Unnoticed
<1>1. \/ mcp' = mcp
      \/ \E q \in Pools : \/ SetMCP(q, [mcp[q] EXCEPT !.paused = ~mcp[q].paused])
                          \/ SetMCP(q, [mcp[q] EXCEPT !.upd = FALSE])
                          \/ SetMCP(q, [mcp[q] EXCEPT !.upd = TRUE, !.src = (q \in mc)])
  BY <1>0, Zenon DEF World, Others, EditSpec, PausePool, TogglePool, RolloutPool, PodDown, DeleteDS,
     RelabelPool, TamperDS, SetCM, DeleteShared, MCOStart, MCODone, DSRollout, DSReady, SetDS, Disturb,
     objects
<1>2. CASE mcp' = mcp
  BY <1>2
<1>3. ASSUME NEW q \in Pools,
             \/ SetMCP(q, [mcp[q] EXCEPT !.paused = ~mcp[q].paused])
             \/ SetMCP(q, [mcp[q] EXCEPT !.upd = FALSE])
             \/ SetMCP(q, [mcp[q] EXCEPT !.upd = TRUE, !.src = (q \in mc)])
      PROVE  \E m \in MCPType : m.exists = mcp[q].exists /\ m.label = mcp[q].label /\ SetMCP(q, m)
  <2>1. mcp[q] \in MCPType
    BY <1>0
  <2>2. (~mcp[q].paused) \in BOOLEAN /\ (q \in mc) \in BOOLEAN
    OBVIOUS
  <2> DEFINE a == [mcp[q] EXCEPT !.paused = ~mcp[q].paused]
             b == [mcp[q] EXCEPT !.upd = FALSE]
             c == [mcp[q] EXCEPT !.upd = TRUE, !.src = (q \in mc)]
             Kept(m) == m \in MCPType /\ m.exists = mcp[q].exists /\ m.label = mcp[q].label
  <2>3. Kept(a)
    BY <2>1, <2>2, Zenon DEF MCPType
  <2>4. Kept(b)
    BY <2>1, Zenon DEF MCPType
  <2>5. Kept(c)
    BY <2>1, <2>2, Zenon DEF MCPType
  <2> QED
    BY <1>3, <2>3, <2>4, <2>5, Zenon
<1>4. ASSUME NEW q \in Pools, NEW m \in MCPType, m.exists = mcp[q].exists, m.label = mcp[q].label,
             SetMCP(q, m)
      PROVE  /\ SamePools(mcp')
             /\ ~queued' /\ Accepts(view.spec) /\ Platform = "OpenShift" =>
                  \A p \in Names(view.spec.groups) : mcp'[p] = mcp[p]
  BY <1>4, PoolChange
<1> QED
  BY <1>1, <1>2, <1>3, <1>4, Zenon

\* The DaemonSets: of the changes that are no event the specification survives.
LEMMA WorldDaemonSets ==
    ASSUME TypeOK, World, ~queued', NEW p \in Pools
    PROVE  SameSpec(ds[p], ds'[p])
<1>0. ds \in [Pools -> DSType \cup {NoDS}] /\ queued \in BOOLEAN
  BY Zenon DEF TypeOK
<1>1. \/ ds' = ds
      \/ \E q \in Pools, x \in {"rolling", "ready"} :
           ds[q] # NoDS /\ ds' = [ds EXCEPT ![q] = [ds[q] EXCEPT !.rollout = x]]
  BY Zenon DEF World, Others, EditSpec, PausePool, TogglePool, RolloutPool, PodDown, DeleteDS,
     RelabelPool, TamperDS, SetCM, DeleteShared, MCOStart, MCODone, DSRollout, DSReady, SetMCP, SetDS,
     objects
<1>2. CASE ds' = ds
  BY <1>2 DEF SameSpec
<1>3. ASSUME NEW q \in Pools, NEW x \in {"rolling", "ready"}, ds[q] # NoDS,
             ds' = [ds EXCEPT ![q] = [ds[q] EXCEPT !.rollout = x]]
      PROVE  SameSpec(ds[p], ds'[p])
  <2>1. CASE p # q
    <3>1. ds'[p] = ds[p]
      BY <1>0, <1>3, <2>1
    <3> QED
      BY <3>1 DEF SameSpec
  <2>2. CASE p = q
    <3>1. ds[p] \in DSType /\ ds'[p] = [ds[p] EXCEPT !.rollout = x]
      BY <1>0, <1>3, <2>2
    <3>2. /\ ds'[p] \in DSType /\ ds'[p].custom = ds[p].custom /\ ds'[p].cfg = ds[p].cfg
          /\ ds'[p].hash = ds[p].hash /\ ds'[p].owned = ds[p].owned
      BY <3>1 DEF DSType
    <3>3. ds[p] # NoDS /\ ds'[p] # NoDS
      BY <3>1, <3>2, InitAssumption
    <3> QED
      BY <3>2, <3>3 DEF SameSpec
  <2> QED
    BY <2>1, <2>2
<1> QED
  BY <1>1, <1>2, <1>3, Zenon

\* ConfigMaps only go.
OnlyGone(old, new) == \A p \in Pools : new[p] = old[p] \/ new[p] = NoCM

\* The rest.
LEMMA WorldRest ==
    ASSUME TypeOK, EverythingNoticed, World, ~queued'
    PROVE  OnlyGone(cm, cm') /\ shared' = shared /\ cr'.status = cr.status
<1>0. /\ cr \in CRType /\ "unwatched" \notin Disturbances /\ cm \in [Pools -> Datas \cup {NoCM}]
      /\ queued \in BOOLEAN
  BY Zenon DEF TypeOK, EverythingNoticed, Unnoticed
<1>1. OnlyGone(cm, cm')
  <2>1. cm' = cm \/ \E q \in Pools : cm' = [cm EXCEPT ![q] = NoCM]
    BY Zenon DEF World, Others, EditSpec, PausePool, TogglePool, RolloutPool, PodDown, DeleteDS,
       RelabelPool, TamperDS, SetCM, DeleteShared, MCOStart, MCODone, DSRollout, DSReady, SetMCP,
       SetDS, objects
  <2> QED
    BY <1>0, <2>1 DEF OnlyGone
<1>2. shared' = shared
  BY <1>0, Zenon DEF World, Others, EditSpec, PausePool, TogglePool, RolloutPool, PodDown, DeleteDS,
     RelabelPool, TamperDS, SetCM, DeleteShared, MCOStart, MCODone, DSRollout, DSReady, SetMCP, SetDS,
     Disturb, objects
<1>3. cr'.status = cr.status
  <2>1. cr' = cr \/ \E s, g : cr' = [cr EXCEPT !.spec = s, !.gen = g]
    BY Zenon DEF World, Others, EditSpec, PausePool, TogglePool, RolloutPool, PodDown, DeleteDS,
       RelabelPool, TamperDS, SetCM, DeleteShared, MCOStart, MCODone, DSRollout, DSReady, SetMCP, SetDS
  <2>2. \A s, g : [cr EXCEPT !.spec = s, !.gen = g].status = cr.status
    BY <1>0 DEF CRType
  <2> QED
    BY <2>1, <2>2, Zenon
<1> QED
  BY <1>1, <1>2, <1>3

\* With a request in the workqueue only what a Reconcile knows by itself counts.
LEMMA QueuedKeeps ==
    ASSUME OwnInv, UNCHANGED <<mc, locals>>, SamePools(mcp'), queued' = TRUE
    PROVE  WakeInv'
BY Zenon DEF WakeInv, OwnInv, locals, Working, InTrees, ResultsInv, Handled

LEMMA ResetQueued ==
    ASSUME OwnInv, Reset, UNCHANGED objects, queued' = TRUE
    PROVE  WakeInv'
BY Zenon DEF WakeInv, OwnInv, Reset, objects, Working, InTrees, SamePools

\* What holds of the objects of a specification survives changes that are no event.
LEMMA SettledKept ==
    ASSUME NEW spec \in Specs, Accepts(spec), OnlyGone(cm, cm'), mc' = mc,
           \A p \in Pools : SameSpec(ds[p], ds'[p]),
           Platform = "OpenShift" => \A p \in Names(spec.groups) : mcp'[p] = mcp[p]
    PROVE  /\ Clean(spec.groups) => Clean(spec.groups)'
           /\ \A i \in DOMAIN spec.groups :
                TreeSettled(spec.groups[i]) => TreeSettled(spec.groups[i])'
<1>1. Clean(spec.groups) => Clean(spec.groups)'
  BY DEF Clean, SameSpec
<1>2. ASSUME NEW i \in DOMAIN spec.groups, TreeSettled(spec.groups[i])
      PROVE  TreeSettled(spec.groups[i])'
  <2> DEFINE g == spec.groups[i]
  <2>1. Tree(g) \subseteq Pools /\ Tree(g) \subseteq Names(spec.groups)
    BY TreeFacts
  <2>2. ASSUME NEW p \in Tree(g), Follows(p, g) PROVE Follows(p, g)'
    <3>1. SameSpec(ds[p], ds'[p])
      BY <2>1
    <3> QED
      BY <2>1, <2>2, <3>1 DEF Follows, SameSpec, OnlyGone
  <2>3. ASSUME Platform = "OpenShift", \A p \in Tree(g) : (~mcp[p].paused /\ Rolled(p, g))'
        PROVE  \A p \in Tree(g) : ~mcp[p].paused /\ Rolled(p, g)
    <3>1. \A p \in Tree(g) : mcp'[p] = mcp[p]
      BY <2>1, <2>3
    <3> QED
      BY <2>3, <3>1, Zenon DEF Rolled
  <2> QED
    BY <1>2, <2>2, <2>3 DEF TreeSettled
<1> QED
  BY <1>1, <1>2

\* A completed status is completed whatever happens around the resource.
LEMMA CompleteKept ==
    ASSUME view' = view
    PROVE  Complete(view)' <=> Complete(view)
BY DEF Complete

\* A step that does not move the reconciliation leaves it in the same tree.
LEMMA PlaceKept ==
    ASSUME pc' = pc, inst' = inst, tree' = tree
    PROVE  /\ Group' = Group /\ \A i : Handled(i)' <=> Handled(i)
           /\ (Working' <=> Working) /\ (InTrees' <=> InTrees)
BY DEF Group, Handled, Working, InTrees

\* An event that queues no request, and what it may change.
LEMMA SilentKeeps ==
    ASSUME TypeInv, WakeInv, ~queued, ~queued', SamePools(mcp'), cr'.status = cr.status,
           UNCHANGED <<view, mc, shared, timer, locals>>, OnlyGone(cm, cm'),
           \A p \in Pools : SameSpec(ds[p], ds'[p]),
           Accepts(view.spec) /\ Platform = "OpenShift" =>
               \A p \in Names(view.spec.groups) : mcp'[p] = mcp[p]
    PROVE  WakeInv'
<1>0. /\ pc' = pc /\ inst' = inst /\ snap' = snap /\ tree' = tree /\ seen' = seen /\ hash' = hash
      /\ acc' = acc /\ view' = view /\ mc' = mc /\ shared' = shared /\ timer' = timer
  BY DEF locals
<1>1. OwnInv'
  BY <1>0, Zenon DEF WakeInv, OwnInv, Working, InTrees, ResultsInv, Handled
<1>2. view.spec \in Specs
  BY Zenon DEF TypeInv, TypeOK, CRType
<1>3. CalmInv
  BY Zenon DEF WakeInv
<1>4. Accepts(view.spec) =>
        /\ Clean(view.spec.groups) => Clean(view.spec.groups)'
        /\ \A i \in DOMAIN view.spec.groups :
             TreeSettled(view.spec.groups[i]) => TreeSettled(view.spec.groups[i])'
  BY <1>0, <1>2, SettledKept, Zenon
<1>5. CASE pc = "idle"
  <2>1. Quiet' => Quiet
    <3>1. pc' = pc /\ timer' = timer /\ view' = view
      BY <1>0, Zenon
    <3> QED
      BY <3>1 DEF Quiet
  <2>2. ASSUME Settled(view) PROVE Settled(view)'
    <3>1. view' = view /\ shared' = shared
      BY <1>0, Zenon
    <3>2. Complete(view)' <=> Complete(view)
      BY <3>1, CompleteKept, Zenon
    <3>3. CASE ~Accepts(view.spec)
      BY <2>2, <3>1, <3>3, Zenon DEF Settled
    <3>4. CASE Accepts(view.spec)
      <4>1. /\ view.status.conds.gen = view.gen /\ shared
            /\ Clean(view.spec.groups)'
            /\ \A i \in DOMAIN view.spec.groups : TreeSettled(view.spec.groups[i])'
        BY <1>4, <2>2, <3>4, Zenon DEF Settled
      <4>2. ASSUME Platform = "OpenShift" => \A p \in Names(view.spec.groups) : ~mcp'[p].paused
            PROVE  Complete(view)
        <5>1. Platform = "OpenShift" => \A p \in Names(view.spec.groups) : ~mcp[p].paused
          BY <3>4, <4>2
        <5> QED
          BY <2>2, <3>4, <5>1, Zenon DEF Settled
      <4> QED
        BY <3>1, <3>2, <3>4, <4>1, <4>2 DEF Settled
    <3> QED
      BY <3>3, <3>4, Zenon
  <2> QED
    BY <1>0, <1>1, <1>3, <1>5, <2>1, <2>2, Zenon DEF WakeInv, CalmInv, Working, InTrees
<1>6. CASE pc # "idle"
  <2>0. inst = view /\ ~Quiet'
    BY <1>0, <1>3, <1>6, Zenon DEF CalmInv, Quiet
  <2>1. CASE ~Working
    BY <1>0, <1>1, <1>3, <1>6, <2>0, <2>1, Zenon DEF WakeInv, CalmInv, Working, InTrees
  <2>2. CASE Working
    <3>1. Accepts(view.spec)
      BY <2>0, <2>2, Zenon DEF WakeInv, OwnInv
    <3>2. Platform = "OpenShift" => \A p \in Names(inst.spec.groups) : snap[p] = mcp'[p]
      BY <1>3, <2>0, <2>2, <3>1, Zenon DEF CalmInv
    <3>3. InTrees => /\ Clean(inst.spec.groups)'
                     /\ ~Failed(acc.step) => \A i \in DOMAIN inst.spec.groups :
                                               Handled(i) => TreeSettled(inst.spec.groups[i])'
      BY <1>0, <1>3, <1>4, <2>0, <3>1, Zenon DEF CalmInv
    <3>4. pc \in {"apply", "ready"} => Tree(Group) \subseteq Pools
      <4>1. pc \in {"apply", "ready"} => tree \in DOMAIN inst.spec.groups
        BY Zenon DEF TypeInv, IndexOK
      <4> QED
        BY <1>2, <2>0, <3>1, <4>1, TreeFacts DEF Group
    <3>5. pc = "apply" => \A p \in Tree(Group) : /\ cm'[p] # NoCM => hash[p] = cm'[p]
                                                 /\ SameSpec(seen[p], ds'[p])
      <4>1. ASSUME pc = "apply", NEW p \in Tree(Group)
            PROVE  (cm'[p] # NoCM => hash[p] = cm'[p]) /\ SameSpec(seen[p], ds'[p])
        <5>1. /\ cm[p] # NoCM => hash[p] = cm[p]
              /\ SameSpec(seen[p], ds[p]) /\ SameSpec(ds[p], ds'[p])
              /\ cm'[p] = cm[p] \/ cm'[p] = NoCM
          BY <1>3, <3>4, <4>1, Zenon DEF CalmInv, OnlyGone
        <5> QED
          BY <5>1, Zenon DEF SameSpec
      <4> QED
        BY <4>1, Zenon
    <3>6. pc = "ready" => \A p \in Tree(Group) : Follows(p, Group)'
      <4>1. ASSUME pc = "ready", NEW p \in Tree(Group) PROVE Follows(p, Group)'
        <5>1. /\ Follows(p, Group) /\ SameSpec(ds[p], ds'[p])
              /\ cm'[p] = cm[p] \/ cm'[p] = NoCM
          BY <1>3, <3>4, <4>1, Zenon DEF CalmInv, OnlyGone
        <5>2. Group' = Group
          BY <1>0, Zenon DEF Group
        <5> QED
          BY <1>0, <5>1, <5>2, Zenon DEF Follows, SameSpec
      <4> QED
        BY <4>1, Zenon
    <3>7. /\ Group' = Group /\ \A i : Handled(i)' <=> Handled(i)
          /\ (Working' <=> Working) /\ (InTrees' <=> InTrees)
      BY <1>0, PlaceKept, Zenon
    <3>8. pc # "shared" => shared'
      <4>1. pc # "shared" => shared
        BY <1>3, <2>2 DEF CalmInv
      <4> QED
        BY <1>0, <4>1
    <3>9. /\ InTrees' => /\ Clean(inst.spec.groups)'
                         /\ ~Failed(acc'.step) => \A i \in DOMAIN inst'.spec.groups :
                                                    Handled(i)' => TreeSettled(inst.spec.groups[i])'
          /\ Platform = "OpenShift" => \A p \in Names(inst'.spec.groups) : snap'[p] = mcp'[p]
      BY <1>0, <3>2, <3>3, <3>7, <3>8, Zenon
    <3>10. /\ pc' = "apply" => \A p \in Tree(Group') : /\ cm'[p] # NoCM => hash'[p] = cm'[p]
                                                       /\ SameSpec(seen'[p], ds'[p])
           /\ pc' = "ready" => \A p \in Tree(Group') : Follows(p, Group)'
      BY <1>0, <3>5, <3>6, <3>7, Zenon
    <3>11. inst' = view'
      BY <1>0, <2>0
    <3>12. CalmInv'
      BY <1>0, <2>0, <3>8, <3>9, <3>10, <3>11, Zenon DEF CalmInv, Clean, Names, Tree, SameSpec
    <3> QED
      BY <1>1, <3>12 DEF WakeInv
  <2> QED
    BY <2>1, <2>2
<1> QED
  BY <1>5, <1>6

LEMMA WorldKeeps ==
    ASSUME TypeInv, WakeInv, EverythingNoticed, World
    PROVE  WakeInv'
<1>0. TypeOK /\ queued \in BOOLEAN /\ OwnInv /\ SamePools(mcp)
  BY Zenon DEF TypeInv, TypeOK, WakeInv, OwnInv
<1>1. UNCHANGED <<view, mc, timer, locals>> /\ queued' \in BOOLEAN /\ (queued => queued')
      /\ SamePools(mcp')
  BY <1>0, WorldFrame, WorldQueue, WorldPools
<1>2. CASE queued'
  BY <1>0, <1>1, <1>2, QueuedKeeps
<1>3. CASE ~queued'
  <2>1. OnlyGone(cm, cm') /\ shared' = shared /\ cr'.status = cr.status
    BY <1>0, <1>3, WorldRest
  <2>2. \A p \in Pools : SameSpec(ds[p], ds'[p])
    BY <1>0, <1>3, WorldDaemonSets
  <2>3. Accepts(view.spec) /\ Platform = "OpenShift" =>
           \A p \in Names(view.spec.groups) : mcp'[p] = mcp[p]
    BY <1>0, <1>3, WorldPools
  <2>4. ~queued
    BY <1>1, <1>3
  <2>5. UNCHANGED <<view, mc, shared, timer, locals>>
    BY <1>1, <2>1
  <2> QED
    BY <1>1, <1>3, <2>1, <2>2, <2>3, <2>4, <2>5, SilentKeeps, Zenon
<1> QED
  BY <1>2, <1>3

-----------------------------------------------------------------------------
(* Steps of Reconcile before the trees.                                    *)

LEMMA StartKeepsWake ==
    ASSUME TypeInv, WakeInv, EverythingNoticed, StartReconcile
    PROVE  WakeInv'
<1>0. OwnInv /\ "listfault" \notin Disturbances
  BY DEF WakeInv, EverythingNoticed, Unnoticed
<1>1. /\ pc = "idle" /\ inst' = view /\ view' = view /\ snap' = mcp /\ mcp' = mcp /\ mc' = mc
      /\ tree' = tree /\ acc' = acc
  BY Zenon DEF StartReconcile, objects
<1>2. pc' = CASE view.spec.image \/ ~ValidNodeGroups(view.spec.groups) -> "degrade spec"
              [] ~TreesFound(view.spec.groups, mcp) -> "degrade trees"
              [] ~ValidTrees(view.spec.groups, mcp) -> "degrade trees"
              [] OTHER -> "shared"
  BY <1>0, Zenon DEF StartReconcile, Disturb
<1>3. /\ SamePools(mcp) /\ acc = NoResults
      /\ TreesFound(view.spec.groups, mcp) <=> TreesFound(view.spec.groups, InitMCP)
      /\ ValidTrees(view.spec.groups, mcp) <=> ValidTrees(view.spec.groups, InitMCP)
  BY <1>0, <1>1, SameNames DEF OwnInv, InTrees
<1>4. /\ pc' \in {"degrade spec", "degrade trees", "shared"}
      /\ pc' = "shared" <=> Accepts(view.spec)
  BY <1>2, <1>3, Zenon DEF Accepts
<1>5. OwnInv'
  BY <1>0, <1>1, <1>3, <1>4, Zenon DEF OwnInv, Working, InTrees
<1>6. CalmInv'
  BY <1>1, <1>4, Zenon DEF CalmInv, Working, InTrees, Quiet
<1> QED
  BY <1>5, <1>6 DEF WakeInv

LEMMA SharedKeepsWake ==
    ASSUME TypeInv, WakeInv, SyncShared
    PROVE  WakeInv'
<1>0. queued \in BOOLEAN /\ shared \in BOOLEAN /\ OwnInv
  BY Zenon DEF TypeInv, TypeOK, WakeInv
<1>1. /\ pc = "shared" /\ inst' = inst /\ view' = view /\ snap' = snap /\ mcp' = mcp /\ mc' = mc
      /\ acc' = acc
      /\ \/ pc' = "cleanup" /\ shared' = TRUE /\ queued' = (queued \/ ~shared)
         \/ pc' = "failed" /\ queued' = queued
  BY Zenon DEF SyncShared
<1>2. OwnInv'
  BY <1>0, <1>1, Zenon DEF OwnInv, Working, InTrees
<1>3. ~queued' => CalmInv'
  BY <1>0, <1>1, Zenon DEF WakeInv, CalmInv, Working, InTrees, Quiet
<1> QED
  BY <1>2, <1>3 DEF WakeInv

\* After the cleaner has found nothing to delete, nothing is left over.
LEMMA CleanupKeepsWake ==
    ASSUME TypeInv, WakeInv, EverythingNoticed, Cleanup
    PROVE  WakeInv'
<1> DEFINE gs == inst.spec.groups
           unusedDS == danglingDaemonSets(buildDaemonSetNames(gs, snap))
           unusedMC == danglingMachineConfigs(expectedMachineConfigNames(gs, snap))
<1>0. /\ queued \in BOOLEAN /\ OwnInv /\ inst.spec \in Specs /\ gs \in Seq(NodeGroup)
      /\ ds \in DSs /\ "cleanupfault" \notin Disturbances
  BY GroupsType, Zenon DEF TypeInv, TypeOK, CRType, DSs, WakeInv, EverythingNoticed, Unnoticed
<1>1. /\ pc = "cleanup" /\ inst' = inst /\ view' = view /\ snap' = snap /\ mcp' = mcp
      /\ acc' = acc /\ shared' = shared /\ tree' = tree
      /\ pc' = IF gs = <<>> THEN "status" ELSE "tree"
  BY Zenon DEF Cleanup
<1>2. /\ ds' = [p \in Pools |-> IF p \in unusedDS THEN NoDS ELSE ds[p]]
      /\ mc' = mc \ unusedMC
      /\ queued' = (queued \/ unusedDS # {} \/ unusedMC # {})
  BY <1>0, Zenon DEF Cleanup, Disturb
<1>3. Accepts(inst.spec) /\ SamePools(snap) /\ acc = NoResults /\ tree = 1
  BY <1>0, <1>1, Zenon DEF OwnInv, Working, InTrees, TypeInv, IndexOK
<1>4. \A i \in DOMAIN gs : ~Handled(i)'
  <2>1. \A i \in DOMAIN gs : i \in Nat /\ i >= 1
    BY <1>0
  <2>2. pc' = "status" => DOMAIN gs = {}
    BY <1>1
  <2> QED
    BY <1>1, <1>3, <2>1, <2>2 DEF Handled
<1>5. ResultsInv'
  BY <1>1, <1>3, <1>4, Zenon DEF ResultsInv, NoResults, StepSuccess, Failed, Done, Ongoing
<1>6. OwnInv'
  BY <1>0, <1>1, <1>2, <1>3, <1>5, Zenon DEF OwnInv, Working, InTrees
<1>7. ASSUME ~queued' PROVE CalmInv'
  <2>1. ~queued /\ unusedDS = {} /\ unusedMC = {}
    BY <1>0, <1>2, <1>7, Zenon
  <2>2. ds' = ds /\ mc' = mc
    BY <1>0, <1>2, <2>1 DEF DSs
  <2>3. buildDaemonSetNames(gs, snap) = Names(gs)
        /\ (Platform = "OpenShift" => expectedMachineConfigNames(gs, snap) = Names(gs))
    BY <1>0, <1>3, SameNames, KeptNames
  <2>4. Clean(gs)
    <3>1. ASSUME NEW p \in Pools \ Names(gs) PROVE ds[p] # NoDS => ~ds[p].owned
      BY <2>1, <2>3 DEF danglingDaemonSets
    <3>2. ASSUME NEW p \in Pools \ Names(gs) PROVE p \notin mc
      <4>1. CASE Platform = "OpenShift"
        BY <2>1, <2>3, <4>1 DEF danglingMachineConfigs
      <4>2. CASE Platform = "HyperShift"
        BY <1>0, <4>2, Zenon DEF OwnInv
      <4> QED
        BY <4>1, <4>2, PlatformAssumption
    <3> QED
      BY <3>1, <3>2 DEF Clean
  <2>5. Clean(gs)'
    BY <1>1, <2>2, <2>4 DEF Clean
  <2>6. /\ inst = view /\ shared
        /\ Platform = "OpenShift" => \A p \in Names(gs) : snap[p] = mcp[p]
    BY <1>1, <2>1, Zenon DEF WakeInv, CalmInv, Working
  <2>7. pc' \in {"tree", "status"}
    BY <1>1
  <2> QED
    BY <1>1, <1>4, <2>5, <2>6, <2>7, Zenon DEF CalmInv, Working, InTrees, Quiet
<1> QED
  BY <1>6, <1>7 DEF WakeInv

-----------------------------------------------------------------------------
(* ConfigMaps that never were.                                             *)

\* As long as no ConfigMap is deleted, nothing has a hash of one that is not there.
UnreadInv ==
    \A p \in Pools : cm[p] = NoCM => hash[p] = NoCM /\ (ds[p] # NoDS => ds[p].hash = NoCM)

LEMMA UnreadInit ==
    ASSUME Init
    PROVE  UnreadInv
BY DEF Init, UnreadInv

LEMMA UnreadStep ==
    ASSUME TypeInv, UnreadInv, "cmdelete" \notin Disturbances, [Next]_vars
    PROVE  UnreadInv'
<1>1. CASE Next
  <2> SUFFICES ASSUME NEW p \in Pools, cm'[p] = NoCM
               PROVE  hash'[p] = NoCM /\ (ds'[p] # NoDS => ds'[p].hash = NoCM)
    BY DEF UnreadInv
  <2>1. cm[p] = NoCM
    <3>0. cm \in [Pools -> Datas \cup {NoCM}]
      BY Zenon DEF TypeInv, TypeOK
    <3>1. cm' = cm \/ \E q \in Pools, d \in Datas : cm' = [cm EXCEPT ![q] = d]
      BY <1>1, Zenon DEF Next, Reconcile, Others, SkipPaused, StartReconcile, SyncShared, Cleanup,
         SyncTree, ApplyDaemonSets, CheckDaemonSets, DegradeStatus, ReportFailure, UpdateStatus,
         PatchStatus, TimerFires, WatchDeliver, Crash, EditSpec, PausePool, TogglePool, RolloutPool,
         RelabelPool, PodDown, DeleteDS, TamperDS, SetCM, DeleteShared, MCOStart, MCODone, DSRollout,
         DSReady, SetMCP, SetDS, Disturb, objects
    <3> QED
      BY <3>0, <3>1, SpecsAssumption
  <2>2. hash[p] = NoCM /\ (ds[p] # NoDS => ds[p].hash = NoCM)
    BY <2>1 DEF UnreadInv
  <2>3. hash'[p] = NoCM
    <3>1. hash' = hash \/ hash' = [q \in Pools |-> NoCM] \/ ReadTree
      BY <1>1, Zenon DEF Next, Reconcile, Others, SkipPaused, StartReconcile, SyncShared, Cleanup,
         SyncTree, reconcilePerTreeMachineConfig, ApplyDaemonSets, CheckDaemonSets, EndTree,
         DegradeStatus, ReportFailure, UpdateStatus, PatchStatus, Reset, TimerFires, WatchDeliver,
         Crash, EditSpec, PausePool, TogglePool, RolloutPool, RelabelPool, PodDown, DeleteDS,
         TamperDS, SetCM, DeleteShared, MCOStart, MCODone, DSRollout, DSReady, SetMCP, SetDS, locals
    <3>2. ASSUME ReadTree PROVE hash'[p] \in {cm[p], NoCM}
      BY <3>2 DEF ReadTree
    <3> QED
      BY <2>1, <2>2, <3>1, <3>2
  <2>4. ds'[p] # NoDS => ds'[p].hash = NoCM
    <3>1. CASE ds'[p] = ds[p]
      BY <2>2, <3>1
    <3>2. CASE ds'[p] # ds[p]
      BY <1>1, <2>2, <3>2, DaemonSetChanges
    <3> QED
      BY <3>1, <3>2
  <2> QED
    BY <2>3, <2>4
<1>2. CASE UNCHANGED vars
  BY <1>2, Zenon DEF vars, objects, locals, UnreadInv
<1> QED
  BY <1>1, <1>2
=============================================================================
