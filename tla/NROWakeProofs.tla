--------------------------- MODULE NROWakeProofs ---------------------------
(***************************************************************************)
(* No wake-up of the NUMAResourcesOperator controller is lost, and its     *)
(* status tells the truth: the two invariants NoLostWakeup and             *)
(* StatusTellsTruth for every set of pools, every specification, every     *)
(* number of disturbances, on both platforms.                              *)
(***************************************************************************)
EXTENDS NROProofs

-----------------------------------------------------------------------------
(* Steps of Reconcile in the trees.                                        *)

\* A step whose error and whose condition agree.
Coherent(step) == Failed(step) <=> step.type = "Degraded"

\* The steps the controller returns are coherent.
LEMMA StepsCoherent ==
    /\ Coherent(StepFailed) /\ Failed(StepFailed) /\ ~Done(StepFailed) /\ ~Ongoing(StepFailed)
    /\ Coherent(StepSuccess) /\ Done(StepSuccess) /\ ~Ongoing(StepSuccess)
    /\ Coherent(StepOngoing(0)) /\ ~Done(StepOngoing(0)) /\ ~Failed(StepOngoing(0))
    /\ \A n \in {5, 60}, p \in Pools :
         LET step == WithMessage(StepOngoing(n), p)
         IN  Coherent(step) /\ ~Done(step) /\ ~Failed(step) /\ step.after > 0
BY DEF Coherent, StepFailed, StepSuccess, StepOngoing, WithMessage, Failed, Done, Ongoing

\* One failed tree fails the reduction, one unfinished tree leaves it unfinished.
LEMMA ReduceFacts ==
    ASSUME NEW a \in Results, NEW r \in Results, Coherent(a.step), Coherent(r.step),
           NEW b, b = ReduceStep(a, r)
    PROVE  /\ Coherent(b.step)
           /\ Failed(b.step) <=> Failed(a.step) \/ Failed(r.step)
           /\ Done(b.step) <=> Done(a.step) /\ Done(r.step)
           /\ b.step = a.step \/ b.step = r.step
           /\ b.paused = a.paused \cup r.paused
           /\ Done(b.step) => b.ds = a.ds \cup r.ds
<1>1. /\ b.step = IF ~Done(r.step) /\ ShouldReplaceStep(a.step, r.step) THEN r.step ELSE a.step
      /\ b.paused = a.paused \cup r.paused
      /\ b.ds = IF Done(r.step) THEN a.ds \cup r.ds ELSE a.ds
  BY DEF ReduceStep
<1>2. /\ a.step.type \in StepTypes /\ a.step.failed \in BOOLEAN
      /\ r.step.type \in StepTypes /\ r.step.failed \in BOOLEAN
  BY DEF Results, StepType
<1>3. b.step = a.step \/ b.step = r.step
  BY <1>1
<1>4. Coherent(b.step)
  BY <1>3
<1>5. Done(b.step) <=> Done(a.step) /\ Done(r.step)
  BY <1>1, <1>2 DEF ShouldReplaceStep, Done, Failed, Ongoing
<1>6. Failed(b.step) <=> Failed(a.step) \/ Failed(r.step)
  BY <1>1, <1>2 DEF ShouldReplaceStep, Done, Failed, Ongoing, Coherent, StepTypes
<1> QED
  BY <1>1, <1>3, <1>4, <1>5, <1>6

\* In the trees, the pools listed for a tree are its pools.
LEMMA InTreeFacts ==
    ASSUME TypeInv, OwnInv, pc \in {"tree", "apply", "ready"}
    PROVE  /\ TreePools = Tree(Group) /\ TreePools \subseteq Pools
           /\ TreePools \subseteq Names(inst.spec.groups)
           /\ inst.spec \in Specs /\ Accepts(inst.spec) /\ tree \in DOMAIN inst.spec.groups
<1>1. inst.spec \in Specs /\ Accepts(inst.spec) /\ SamePools(snap) /\ tree \in DOMAIN inst.spec.groups
  BY Zenon DEF TypeInv, TypeOK, IndexOK, CRType, OwnInv, Working
<1>2. TreePools = Tree(Group)
  BY <1>1, SameTrees DEF TreePools
<1> QED
  BY <1>1, <1>2, TreeFacts DEF Group

\* The end of a tree.  Without an event since the last list of the pools, its
\* DaemonSets are as its group says, or the tree failed.
LEMMA EndTreeKeepsWake ==
    ASSUME TypeInv, WakeInv, pc \in {"tree", "apply", "ready"},
           UNCHANGED <<view, mcp, cm, shared, inst, snap>>,
           ~queued' => ~queued /\ mc' = mc /\ ds' = ds,
           Platform = "HyperShift" => mc' = {},
           NEW r \in Results, EndTree(r), Coherent(r.step),
           Ongoing(r.step) => r.step.after > 0 \/ r.paused # {},
           \A p \in r.paused : Platform = "OpenShift" /\ p \in TreePools /\ snap[p].paused,
           Done(r.step) => r.paused = {} /\ r.ds = TreePools,
           ~queued' /\ ~Failed(r.step) => TreeSettled(Group)
    PROVE  WakeInv'
<1> DEFINE gs == inst.spec.groups
<1>0. /\ OwnInv /\ gs \in Seq(NodeGroup) /\ acc \in Results
      /\ TreePools = Tree(Group) /\ TreePools \subseteq Pools /\ TreePools \subseteq Names(gs)
      /\ tree \in DOMAIN gs
  BY GroupsType, InTreeFacts, Zenon DEF TypeInv, TypeOK, WakeInv
<1>1. /\ acc' = ReduceStep(acc, r)
      /\ pc' = IF tree < Len(gs) THEN "tree" ELSE "status"
      /\ tree' = IF tree < Len(gs) THEN tree + 1 ELSE tree
      /\ inst' = inst /\ snap' = snap /\ view' = view /\ mcp' = mcp
  BY DEF EndTree
<1>2. pc' \in {"tree", "status"}
  BY <1>1
<1>3. \A i \in DOMAIN gs : Handled(i)' <=> (Handled(i) \/ i = tree)
  <2>1. DOMAIN gs = 1 .. Len(gs) /\ Len(gs) \in Nat
    BY <1>0
  <2> QED
    BY <1>0, <1>1, <2>1 DEF Handled
<1>4. ResultsInv /\ Coherent(acc.step)
  BY <1>0, Zenon DEF OwnInv, InTrees, ResultsInv, Coherent
<1>5. /\ Coherent(acc'.step)
      /\ Failed(acc'.step) <=> Failed(acc.step) \/ Failed(r.step)
      /\ Done(acc'.step) <=> Done(acc.step) /\ Done(r.step)
      /\ acc'.step = acc.step \/ acc'.step = r.step
      /\ acc'.paused = acc.paused \cup r.paused
      /\ Done(acc'.step) => acc'.ds = acc.ds \cup r.ds
  <2> DEFINE sum == ReduceStep(acc, r)
  <2>1. /\ Coherent(sum.step)
        /\ Failed(sum.step) <=> Failed(acc.step) \/ Failed(r.step)
        /\ Done(sum.step) <=> Done(acc.step) /\ Done(r.step)
        /\ sum.step = acc.step \/ sum.step = r.step
        /\ sum.paused = acc.paused \cup r.paused
        /\ Done(sum.step) => sum.ds = acc.ds \cup r.ds
    BY <1>0, <1>4, ReduceFacts
  <2>2. acc' = sum
    BY <1>1
  <2> HIDE DEF sum
  <2> QED
    BY <2>1, <2>2
<1>6. ResultsInv'
  <2>1. Ongoing(acc'.step) => acc'.step.after > 0 \/ acc'.paused # {}
    BY <1>4, <1>5 DEF ResultsInv
  <2>2. \A p \in acc'.paused : Platform = "OpenShift" /\ p \in Names(gs) /\ snap[p].paused
    BY <1>0, <1>4, <1>5 DEF ResultsInv
  <2>3. ASSUME Done(acc'.step)
        PROVE  /\ acc'.paused = {}
               /\ \A p \in Pools : p \in acc'.ds <=> \E i \in DOMAIN gs : Handled(i)' /\ p \in Tree(gs[i])
    <3>1. acc.paused = {} /\ r.paused = {} /\ r.ds = Tree(gs[tree]) /\ acc'.ds = acc.ds \cup r.ds
      BY <1>0, <1>4, <1>5, <2>3 DEF ResultsInv, Group
    <3>2. \A p \in Pools : p \in acc.ds <=> \E i \in DOMAIN gs : Handled(i) /\ p \in Tree(gs[i])
      BY <1>4, <1>5, <2>3 DEF ResultsInv
    <3> HIDE DEF gs
    <3> QED
      BY <1>0, <1>3, <1>5, <3>1, <3>2
  <2> QED
    BY <1>1, <1>5, <2>1, <2>2, <2>3 DEF ResultsInv, Coherent
<1>7. OwnInv'
  BY <1>0, <1>1, <1>2, <1>6, Zenon DEF OwnInv, Working, InTrees
<1>8. ASSUME ~queued' PROVE CalmInv'
  <2>0. CalmInv /\ mc' = mc /\ ds' = ds /\ cm' = cm /\ shared' = shared
    BY <1>8 DEF WakeInv
  <2>1. /\ inst = view /\ shared /\ Clean(gs)
        /\ Platform = "OpenShift" => \A p \in Names(gs) : snap[p] = mcp[p]
    BY <2>0 DEF CalmInv, Working, InTrees
  <2>2. Clean(gs)'
    BY <1>1, <2>0, <2>1 DEF Clean
  <2>3. \A g : TreeSettled(g)' <=> TreeSettled(g)
    BY <1>1, <2>0 DEF TreeSettled, Follows, Rolled
  <2>4. ~Failed(acc'.step) => \A i \in DOMAIN gs : Handled(i)' => TreeSettled(gs[i])'
    <3>1. ASSUME ~Failed(acc'.step), NEW i \in DOMAIN gs, Handled(i)'
          PROVE  TreeSettled(gs[i])
      <4>1. CASE i = tree
        BY <1>5, <1>8, <3>1, <4>1 DEF Group
      <4>2. CASE i # tree
        BY <1>3, <1>5, <2>0, <3>1, <4>2 DEF CalmInv, InTrees
      <4> QED
        BY <4>1, <4>2
    <3> QED
      BY <1>1, <2>3, <3>1
  <2>5. pc' \notin {"idle", "shared", "apply", "ready"} /\ inst' = view' /\ shared'
    <3>1. pc' \notin {"idle", "shared", "apply", "ready"}
      BY <1>2
    <3>2. inst' = view'
      BY <1>1, <2>1
    <3>3. shared'
      <4>1. shared' = shared
        BY <2>0
      <4>2. shared
        BY <2>1
      <4> QED
        BY <4>1, <4>2
    <3> QED
      BY <3>1, <3>2, <3>3, Zenon
  <2>6. Platform = "OpenShift" => \A p \in Names(inst'.spec.groups) : snap'[p] = mcp'[p]
    BY <1>1, <2>1
  <2>7. /\ Clean(inst.spec.groups)'
        /\ ~Failed(acc'.step) => \A i \in DOMAIN inst'.spec.groups :
                                   Handled(i)' => TreeSettled(inst.spec.groups[i])'
    BY <1>1, <2>2, <2>4
  <2>8. ~Quiet'
    BY <2>5 DEF Quiet
  <2> QED
    BY <2>5, <2>6, <2>7, <2>8 DEF CalmInv, Names
<1> QED
  BY <1>7, <1>8 DEF WakeInv

\* Reading the DaemonSets and the ConfigMaps of a tree whose pools are ready.
LEMMA ReadKeepsWake ==
    ASSUME TypeInv, WakeInv, pc = "tree", pc' = "apply", ReadTree,
           UNCHANGED <<view, mcp, ds, cm, shared, inst, snap, tree, acc>>,
           ~queued' => ~queued /\ mc' = mc,
           Platform = "HyperShift" => mc' = {}
    PROVE  WakeInv'
<1>0. /\ OwnInv /\ TreePools = Tree(Group) /\ TreePools \subseteq Pools
  BY InTreeFacts DEF WakeInv
<1>1. Group' = Group /\ \A i : Handled(i)' <=> Handled(i)
  BY DEF Group, Handled
<1>2. OwnInv'
  <2>1. ResultsInv'
    BY <1>0, <1>1 DEF OwnInv, InTrees, ResultsInv
  <2> QED
    BY <1>0, <2>1 DEF OwnInv, Working, InTrees
<1>3. ASSUME ~queued' PROVE CalmInv'
  <2>0. CalmInv /\ mc' = mc
    BY <1>3 DEF WakeInv
  <2>1. Clean(inst.spec.groups)' <=> Clean(inst.spec.groups)
    BY <2>0 DEF Clean
  <2>2. \A g : TreeSettled(g)' <=> TreeSettled(g)
    BY DEF TreeSettled, Follows, Rolled
  <2>3. \A p \in Tree(Group) : hash'[p] = cm'[p] /\ SameSpec(seen'[p], ds'[p])
    BY <1>0 DEF ReadTree, SameSpec
  <2> QED
    BY <1>1, <2>0, <2>1, <2>2, <2>3 DEF CalmInv, Working, InTrees, Quiet
<1> QED
  BY <1>2, <1>3 DEF WakeInv

\* A tree with a pool that is paused or behind is left as it is.
LEMMA NotReady ==
    ASSUME TypeInv, WakeInv, pc = "tree", Platform = "OpenShift", ~queued,
           PendingPools # {} \/ PausedPools # {}
    PROVE  TreeSettled(Group)
<1>0. /\ OwnInv /\ TreePools = Tree(Group) /\ TreePools \subseteq Names(inst.spec.groups)
  BY InTreeFacts DEF WakeInv
<1>1. \A p \in TreePools : snap[p] = mcp[p]
  BY <1>0 DEF WakeInv, CalmInv, Working
<1>2. \E p \in TreePools : mcp[p].paused \/ ~Rolled(p, Group)
  BY <1>1 DEF PendingPools, WaitPools, PausedPools, Rolled
<1> QED
  BY <1>0, <1>2 DEF TreeSettled

LEMMA TreeKeepsWake ==
    ASSUME TypeInv, WakeInv, SyncTree
    PROVE  WakeInv'
<1>0. /\ pc = "tree" /\ UNCHANGED <<view, mcp, ds, cm, shared, inst, snap>>
      /\ queued \in BOOLEAN /\ OwnInv
  BY DEF SyncTree, TypeInv, TypeOK, WakeInv
<1>1. TreePools \in SUBSET Pools
  BY <1>0, TreePoolsType
<1>2. CASE Platform # "OpenShift"
  <2>1. pc' = "apply" /\ ReadTree /\ UNCHANGED <<mc, queued, tree, acc>>
    BY <1>2, Zenon DEF SyncTree
  <2> QED
    BY <1>0, <2>1, ReadKeepsWake DEF OwnInv
<1>3. CASE Platform = "OpenShift"
  <2> DEFINE Res(m, st) == [ds |-> {}, mcps |-> m, paused |-> PausedPools, step |-> st]
  <2>1. queued' = (queued \/ mc' # mc)
    BY <1>3, Zenon DEF SyncTree, reconcilePerTreeMachineConfig
  <2>2. ~queued' => ~queued /\ mc' = mc
    BY <1>0, <2>1, Zenon
  <2>3. \/ EndTree(Res({}, StepFailed))
        \/ \E p \in PendingPools, visited \in SUBSET (TreePools \ PendingPools) :
             EndTree(Res(visited \cup {p}, WithMessage(StepOngoing(60), p)))
        \/ PausedPools # {} /\ EndTree(Res(TreePools, StepOngoing(0)))
        \/ pc' = "apply" /\ ReadTree /\ UNCHANGED <<tree, acc>>
    BY <1>3, Zenon DEF SyncTree, reconcilePerTreeMachineConfig
  <2>4. ASSUME NEW m \in SUBSET Pools, NEW st \in StepType, EndTree(Res(m, st)), Coherent(st),
               ~Done(st), Ongoing(st) => st.after > 0 \/ PausedPools # {},
               ~Failed(st) => PendingPools # {} \/ PausedPools # {}
        PROVE  WakeInv'
    <3> DEFINE r == Res(m, st)
    <3>1. r \in Results
      BY <1>0, TreeResultsType
    <3>2. r.step = st /\ r.paused = PausedPools
      OBVIOUS
    <3>3. \A p \in PausedPools : p \in TreePools /\ snap[p].paused
      BY DEF PausedPools
    <3>4. ~queued' /\ ~Failed(st) => TreeSettled(Group)
      BY <1>0, <1>3, <2>2, <2>4, NotReady
    <3>5. EndTree(r)
      BY <2>4
    <3> HIDE DEF r
    <3> QED
      BY <1>0, <1>3, <2>2, <2>4, <3>1, <3>2, <3>3, <3>4, <3>5, EndTreeKeepsWake
  <2>5. CASE EndTree(Res({}, StepFailed))
    BY <2>4, <2>5, StepsType, StepsCoherent
  <2>6. ASSUME NEW p \in PendingPools, NEW visited \in SUBSET (TreePools \ PendingPools),
               EndTree(Res(visited \cup {p}, WithMessage(StepOngoing(60), p)))
        PROVE  WakeInv'
    <3> DEFINE st == WithMessage(StepOngoing(60), p)
    <3>1. p \in Pools /\ visited \cup {p} \in SUBSET Pools
      BY <1>1 DEF PendingPools, WaitPools
    <3>2. st \in StepType /\ Coherent(st) /\ ~Done(st) /\ st.after > 0
      BY <3>1, StepsType, StepsCoherent
    <3> HIDE DEF st
    <3> QED
      BY <2>4, <2>6, <3>1, <3>2 DEF st
  <2>7. CASE PausedPools # {} /\ EndTree(Res(TreePools, StepOngoing(0)))
    BY <1>1, <2>4, <2>7, StepsType, StepsCoherent
  <2>8. CASE pc' = "apply" /\ ReadTree /\ UNCHANGED <<tree, acc>>
    BY <1>0, <1>3, <2>2, <2>8, ReadKeepsWake
  <2> QED
    BY <2>3, <2>5, <2>6, <2>7, <2>8, Zenon
<1> QED
  BY <1>2, <1>3

\* The end of a tree whose DaemonSets were applied, or not all of them.
LEMMA DaemonSetResultKeepsWake ==
    ASSUME TypeInv, WakeInv, pc \in {"apply", "ready"},
           UNCHANGED <<view, mcp, mc, cm, shared, inst, snap>>,
           ~queued' => ~queued /\ ds' = ds,
           NEW st \in StepType, EndTree(DaemonSetResult(st)), Coherent(st),
           Ongoing(st) => st.after > 0,
           ~queued' /\ ~Failed(st) => TreeSettled(Group)
    PROVE  WakeInv'
<1> DEFINE r == DaemonSetResult(st)
<1>1. r \in Results
  BY TreeResultsType
<1>2. r.step = st /\ r.paused = {} /\ r.ds = TreePools
  BY DEF DaemonSetResult
<1>3. OwnInv /\ EndTree(r)
  BY DEF WakeInv
<1>4. Platform = "HyperShift" => mc' = {}
  BY <1>3, Zenon DEF OwnInv
<1> HIDE DEF r
<1> QED
  BY <1>1, <1>2, <1>3, <1>4, EndTreeKeepsWake

\* What an applied DaemonSet says.
LEMMA AppliedFields ==
    ASSUME TypeInv, pc = "apply", NEW p \in Pools
    PROVE  /\ Applied(p) # NoDS /\ Applied(p).owned
           /\ Applied(p).custom = Group.custom /\ Applied(p).cfg = Group.cfg
           /\ Applied(p).hash = hash[p]
<1>1. Applied(p) \in DSType
  BY AppliedType
<1>2. Applied(p) # NoDS
  BY <1>1, InitAssumption
<1> QED
  BY <1>2 DEF Applied

LEMMA ApplyKeepsWake ==
    ASSUME TypeInv, WakeInv, ApplyDaemonSets
    PROVE  WakeInv'
<1> DEFINE changed == {p \in TreePools : ds[p] # seen[p]}
<1>0. /\ pc = "apply" /\ UNCHANGED <<view, mcp, mc, cm, shared, inst, snap>>
      /\ queued \in BOOLEAN /\ OwnInv
      /\ TreePools = Tree(Group) /\ TreePools \subseteq Pools
  BY InTreeFacts, Zenon DEF ApplyDaemonSets, TypeInv, TypeOK, WakeInv
<1>1. queued' = (queued \/ ds' # ds)
  BY Zenon DEF ApplyDaemonSets
<1>2. ~queued' => ~queued /\ ds' = ds
  BY <1>0, <1>1, Zenon
<1>3. \/ EndTree(DaemonSetResult(StepFailed))
      \/ /\ pc' = "ready" /\ UNCHANGED <<tree, acc>>
         /\ \A p \in changed : Applied(p) = seen[p]
         /\ \A p \in TreePools \ changed : ds'[p] = Applied(p)
  <2>1. PICK D \in SUBSET (TreePools \ {p \in changed : Applied(p) # seen[p]}) :
          /\ ds' = [p \in Pools |-> IF p \in D \ changed THEN Applied(p) ELSE ds[p]]
          /\ \/ D = TreePools /\ pc' = "ready" /\ UNCHANGED <<tree, acc>>
             \/ EndTree(DaemonSetResult(StepFailed))
    BY DEF ApplyDaemonSets
  <2> QED
    BY <1>0, <2>1
<1>4. CASE EndTree(DaemonSetResult(StepFailed))
  BY <1>0, <1>2, <1>4, DaemonSetResultKeepsWake, StepsType, StepsCoherent
<1>5. CASE /\ pc' = "ready" /\ UNCHANGED <<tree, acc>>
           /\ \A p \in changed : Applied(p) = seen[p]
           /\ \A p \in TreePools \ changed : ds'[p] = Applied(p)
  <2>1. Group' = Group /\ \A i : Handled(i)' <=> Handled(i)
    BY <1>0, <1>5 DEF Group, Handled
  <2>2. OwnInv'
    <3>1. ResultsInv'
      BY <1>0, <1>5, <2>1 DEF OwnInv, InTrees, ResultsInv
    <3> QED
      BY <1>0, <1>5, <3>1 DEF OwnInv, Working, InTrees
  <2>3. ASSUME ~queued' PROVE CalmInv'
    <3>0. CalmInv /\ ds' = ds
      BY <1>2, <2>3 DEF WakeInv
    <3>1. Clean(inst.spec.groups)' <=> Clean(inst.spec.groups)
      BY <1>0, <3>0 DEF Clean
    <3>2. \A g : TreeSettled(g)' <=> TreeSettled(g)
      BY <1>0, <3>0 DEF TreeSettled, Follows, Rolled
    <3>3. ASSUME NEW p \in Tree(Group) PROVE Follows(p, Group)
      <4>1. /\ cm[p] # NoCM => hash[p] = cm[p]
            /\ SameSpec(seen[p], ds[p]) /\ p \in TreePools /\ p \in Pools
        BY <1>0, <3>0, Zenon DEF CalmInv
      <4>2. /\ Applied(p) # NoDS /\ Applied(p).owned
            /\ Applied(p).custom = Group.custom /\ Applied(p).cfg = Group.cfg
            /\ Applied(p).hash = hash[p]
        BY <1>0, <4>1, AppliedFields
      <4>3. SameSpec(Applied(p), ds[p])
        BY <1>5, <3>0, <4>1 DEF SameSpec
      <4> QED
        BY <4>1, <4>2, <4>3, Zenon DEF SameSpec, Follows
    <3>4. \A p \in Tree(Group) : Follows(p, Group)'
      BY <1>0, <2>1, <3>0, <3>3 DEF Follows
    <3> QED
      BY <1>0, <1>5, <2>1, <3>0, <3>1, <3>2, <3>4, Zenon DEF CalmInv, Working, InTrees, Quiet
  <2> QED
    BY <2>2, <2>3 DEF WakeInv
<1> QED
  BY <1>3, <1>4, <1>5

LEMMA CheckKeepsWake ==
    ASSUME TypeInv, WakeInv, CheckDaemonSets
    PROVE  WakeInv'
<1>0. /\ pc = "ready" /\ UNCHANGED <<view, mcp, mc, ds, cm, shared, inst, snap, queued>>
      /\ OwnInv /\ TreePools = Tree(Group) /\ TreePools \subseteq Pools
  BY InTreeFacts DEF CheckDaemonSets, objects, WakeInv
<1>1. ~queued' => TreeSettled(Group)
  BY <1>0 DEF WakeInv, CalmInv, TreeSettled
<1>2. \/ EndTree(DaemonSetResult(StepFailed)) \/ EndTree(DaemonSetResult(StepSuccess))
      \/ \E p \in TreePools : EndTree(DaemonSetResult(WithMessage(StepOngoing(5), p)))
  BY Zenon DEF CheckDaemonSets
<1>3. ASSUME NEW st \in StepType, EndTree(DaemonSetResult(st)), Coherent(st),
             Ongoing(st) => st.after > 0
      PROVE  WakeInv'
  BY <1>0, <1>1, <1>3, DaemonSetResultKeepsWake
<1>4. CASE EndTree(DaemonSetResult(StepFailed)) \/ EndTree(DaemonSetResult(StepSuccess))
  BY <1>3, <1>4, StepsType, StepsCoherent
<1>5. ASSUME NEW p \in TreePools, EndTree(DaemonSetResult(WithMessage(StepOngoing(5), p)))
      PROVE  WakeInv'
  <2> DEFINE st == WithMessage(StepOngoing(5), p)
  <2>1. st \in StepType /\ Coherent(st) /\ st.after > 0
    BY <1>0, StepsType, StepsCoherent
  <2> HIDE DEF st
  <2> QED
    BY <1>3, <1>5, <2>1 DEF st
<1> QED
  BY <1>2, <1>4, <1>5

-----------------------------------------------------------------------------
(* The end of Reconcile.                                                   *)

\* A patch that leaves the status as the copy has it was for that status: only
\* what differs from the copy is sent.
LEMMA PatchAgrees ==
    ASSUME TypeOK, NEW s \in Status, inst = view, view' = view,
           cr' = Patched(s), view'.status = cr'.status
    PROVE  view'.status = s
<1>1. cr'.status = PatchedStatus(s)
  BY Zenon DEF TypeOK, CRType, Patched
<1>2. view.status \in Status
  BY Zenon DEF TypeOK, CRType
<1>3. /\ view.status.conds = MergeFrom(s.conds, view.status.conds, cr.status.conds)
      /\ view.status.ds = MergeFrom(s.ds, view.status.ds, cr.status.ds)
      /\ view.status.mcps = MergeFrom(s.mcps, view.status.mcps, cr.status.mcps)
      /\ view.status.ngs = MergeFrom(s.ngs, view.status.ngs, cr.status.ngs)
  BY <1>1 DEF PatchedStatus
<1>4. /\ view.status.conds = s.conds /\ view.status.ds = s.ds
      /\ view.status.mcps = s.mcps /\ view.status.ngs = s.ngs
  BY <1>3 DEF MergeFrom
<1> QED
  BY <1>2, <1>4 DEF Status

\* Ending a Reconcile: either there is a request, or the status was patched.
LEMMA PatchKeepsWake ==
    ASSUME TypeInv, WakeInv, pc # "idle", NEW s \in Status, NEW r \in BOOLEAN, NEW a,
           PatchStatus(s, r, a),
           (~queued /\ ~r /\ ~(a > 0) /\ inst = view /\ view'.status = s) => Settled(view)'
    PROVE  WakeInv'
<1>0. /\ Reset /\ view' = view /\ UNCHANGED objects /\ queued \in BOOLEAN /\ timer \in BOOLEAN
      /\ TypeOK /\ OwnInv
  BY Zenon DEF PatchStatus, TypeInv, TypeOK, WakeInv
<1>1. CASE queued' = TRUE
  BY <1>0, <1>1, ResetQueued
<1>2. CASE queued' # TRUE
  <2>1. /\ cr' = Patched(s)
        /\ queued' = (queued \/ r) /\ timer' = (timer \/ a > 0)
    BY <1>2, Zenon DEF PatchStatus
  <2>2. ~queued /\ ~r
    BY <1>0, <1>2, <2>1, Zenon
  <2>3. inst = view
    BY <2>2, Zenon DEF WakeInv, CalmInv
  <2>4. ASSUME Quiet' PROVE Settled(view)'
    <3>1. view'.status = cr'.status /\ ~timer'
      BY <2>4 DEF Quiet
    <3>2. view'.status = s
      BY <1>0, <2>1, <2>3, <3>1, PatchAgrees
    <3>3. ~(a > 0)
      BY <1>0, <2>1, <3>1, Zenon
    <3> QED
      BY <2>2, <2>3, <3>2, <3>3
  <2>5. OwnInv'
    BY <1>0, Zenon DEF OwnInv, Reset, objects, Working, InTrees, SamePools
  <2>6. CalmInv'
    BY <1>0, <2>4 DEF CalmInv, Reset, Working, InTrees
  <2> QED
    BY <2>5, <2>6 DEF WakeInv
<1> QED
  BY <1>1, <1>2, Zenon

\* The conditions a Reconcile writes.
LEMMA CondsFields ==
    ASSUME TypeOK, NEW base, NEW msg
    PROVE  Conds(base, msg).base = base /\ Conds(base, msg).gen = inst.gen
<1>1. inst.status.conds \in Conditions
  BY Zenon DEF TypeOK, CRType, Status
<1> QED
  BY <1>1 DEF Conds, Conditions

LEMMA DegradeKeepsWake ==
    ASSUME TypeInv, WakeInv, DegradeStatus
    PROVE  WakeInv'
<1>0. TypeOK /\ OwnInv /\ inst.status \in Status
  BY Zenon DEF TypeInv, TypeOK, CRType, WakeInv
<1>1. pc \in {"degrade spec", "degrade trees"} /\ ~Accepts(inst.spec)
  BY <1>0, Zenon DEF DegradeStatus, OwnInv
<1>2. PICK why \in {"spec", "trees"} :
        PatchStatus([inst.status EXCEPT !.conds = Conds("Degraded", why)], FALSE, 0)
  BY <1>1, Zenon DEF DegradeStatus
<1> DEFINE c == Conds("Degraded", why)
           s == [inst.status EXCEPT !.conds = c]
<1>3. c \in Conditions /\ c.base = "Degraded" /\ c.gen = inst.gen
  BY <1>0, CondsType, CondsFields DEF StepTypes, Messages
<1> HIDE DEF c
<1>4. s \in Status /\ s.conds = c
  BY <1>0, <1>3, WithConds DEF Status
<1>5. PatchStatus(s, FALSE, 0)
  BY <1>2, Zenon DEF c
<1>6. view' = view
  BY <1>5, Zenon DEF PatchStatus
<1> HIDE DEF s
<1>7. ASSUME inst = view, view'.status = s PROVE Settled(view)'
  BY <1>1, <1>3, <1>4, <1>6, <1>7, Zenon DEF Settled
<1> QED
  BY <1>1, <1>4, <1>5, <1>7, PatchKeepsWake, Zenon

LEMMA FailureKeepsWake ==
    ASSUME TypeInv, WakeInv, ReportFailure
    PROVE  WakeInv'
<1>1. Reset /\ UNCHANGED objects /\ queued' = TRUE /\ OwnInv
  BY Zenon DEF ReportFailure, PatchStatus, TypeInv, TypeOK, WakeInv
<1> QED
  BY <1>1, ResetQueued

\* Without a paused pool, an end that asks for no other request is a success, of
\* all the trees.
LEMMA UpdateKeepsWake ==
    ASSUME TypeInv, WakeInv, UpdateStatus
    PROVE  WakeInv'
<1> DEFINE gs == inst.spec.groups
           many == Done(acc.step) /\ MultipleMCPsPerTree(gs, snap, inst.spec.multi)
           c == IF many THEN Conds("Degraded", "multi") ELSE Conds(acc.step.type, acc.step.msg)
           n == IF Done(acc.step) THEN syncNodeGroupsStatus(acc.ds) ELSE inst.status.ngs
           st(t) == [conds |-> [c EXCEPT !.paused = acc.paused, !.ltt = t],
                     ds |-> acc.ds, mcps |-> acc.mcps, ngs |-> n]
<1>0. /\ TypeOK /\ OwnInv /\ inst.spec \in Specs /\ pc = "status" /\ Accepts(inst.spec)
      /\ ResultsInv /\ SamePools(snap)
      /\ acc.step.type \in StepTypes /\ acc.step.msg \in Messages /\ acc.step.after \in {0, 5, 60}
      /\ acc.step.failed \in BOOLEAN
      /\ acc.ds \in SUBSET Pools /\ acc.mcps \in SUBSET Pools /\ acc.paused \in SUBSET Pools
      /\ inst.status.ngs \in SUBSET (Pools \X Configs) /\ inst.status.conds.ltt \in {0, 1}
  BY DEF UpdateStatus, TypeInv, TypeOK, CRType, Status, Conditions, Results, StepType, WakeInv, OwnInv,
     Working, InTrees
<1>1. c \in Conditions /\ c.gen = inst.gen
      /\ c.base = IF many THEN "Degraded" ELSE acc.step.type
  BY <1>0, CondsType, CondsFields, Zenon DEF StepTypes, Messages
<1>2. n \in SUBSET (Pools \X Configs)
  <2>1. \A i \in DOMAIN gs : gs[i].cfg \in Configs
    <3>1. \A i \in DOMAIN gs : gs[i] \in NodeGroup
      BY <1>0, GroupsType
    <3> QED
      BY <3>1 DEF NodeGroup
  <2>2. ASSUME NEW x \in syncNodeGroupsStatus(acc.ds) PROVE x \in Pools \X Configs
    <3>1. \E i \in DOMAIN gs : \E p \in acc.ds : x = <<p, gs[i].cfg>>
      BY <2>2 DEF syncNodeGroupsStatus
    <3> QED
      BY <1>0, <2>1, <3>1
  <2> QED
    BY <1>0, <2>2, Zenon
<1>3. PICK t \in {0, 1} : PatchStatus(st(t), Failed(acc.step), acc.step.after)
  BY <1>0, Zenon DEF UpdateStatus
<1> DEFINE d == [c EXCEPT !.paused = acc.paused, !.ltt = t]
           s == [conds |-> d, ds |-> acc.ds, mcps |-> acc.mcps, ngs |-> n]
<1>4. PatchStatus(s, Failed(acc.step), acc.step.after)
  BY <1>3
<1> HIDE DEF c, n
<1>5. d \in Conditions /\ d.gen = inst.gen /\ d.base = c.base /\ d.paused = acc.paused
  BY <1>0, <1>1, Zenon DEF Conditions
<1> HIDE DEF d
<1>6. s \in Status /\ s.conds = d /\ s.ds = acc.ds /\ s.ngs = n
  BY <1>0, <1>2, <1>5, Zenon DEF Status
<1>7. view' = view /\ UNCHANGED objects
  BY <1>4, Zenon DEF PatchStatus
<1> HIDE DEF s
<1>8. ASSUME ~queued, ~Failed(acc.step), ~(acc.step.after > 0), inst = view, view'.status = s
      PROVE  Settled(view)'
  <2>0. CalmInv
    BY <1>8 DEF WakeInv
  <2>1. /\ shared /\ Clean(gs) /\ \A i \in DOMAIN gs : TreeSettled(gs[i])
        /\ Platform = "OpenShift" => \A p \in Names(gs) : snap[p] = mcp[p]
    BY <1>0, <1>8, <2>0, Zenon DEF CalmInv, Working, InTrees, Handled
  <2>2. ASSUME Platform = "OpenShift" => \A p \in Names(gs) : ~mcp[p].paused
        PROVE  /\ acc.paused = {} /\ acc.step.type = "Available" /\ acc.ds = Names(gs)
               /\ n = UNION {{<<p, gs[i].cfg>> : p \in Tree(gs[i])} : i \in DOMAIN gs}
    <3>1. acc.paused = {}
      BY <1>0, <2>1, <2>2, Zenon DEF ResultsInv
    <3>2. acc.step.type = "Available"
      BY <1>0, <1>8, <3>1 DEF ResultsInv, StepTypes, Failed, Ongoing
    <3>3. \A p \in Pools : p \in acc.ds <=> \E i \in DOMAIN gs : p \in Tree(gs[i])
      BY <1>0, <3>2 DEF ResultsInv, Done, Handled
    <3>4. \A i \in DOMAIN gs : Tree(gs[i]) \subseteq Pools
      BY <1>0, TreeFacts
    <3>5. acc.ds = Names(gs)
      <4>1. \A x : x \in acc.ds <=> \E i \in DOMAIN gs : x \in Tree(gs[i])
        <5>1. acc.ds \subseteq Pools
          BY <1>0
        <5> QED
          BY <3>3, <3>4, <5>1
      <4>2. \A x : x \in Names(gs) <=> \E i \in DOMAIN gs : x \in Tree(gs[i])
        BY DEF Names, ManagedDaemonSets, Tree
      <4> QED
        BY <4>1, <4>2, Zenon
    <3>6. \A i \in DOMAIN gs : acc.ds \cap TreeDaemonSets(gs[i], snap) = Tree(gs[i])
      <4>1. \A i \in DOMAIN gs : TreeDaemonSets(gs[i], snap) = Tree(gs[i])
        BY <1>0, SameTrees
      <4>2. \A i \in DOMAIN gs : Tree(gs[i]) \subseteq acc.ds
        BY <3>3, <3>4
      <4> QED
        BY <4>1, <4>2
    <3>7. n = UNION {{<<p, gs[i].cfg>> : p \in Tree(gs[i])} : i \in DOMAIN gs}
      <4>1. n = syncNodeGroupsStatus(acc.ds)
        BY <3>2 DEF n, Done
      <4>2. \A i \in DOMAIN gs : {<<p, gs[i].cfg>> : p \in acc.ds \cap TreeDaemonSets(gs[i], snap)}
                                   = {<<p, gs[i].cfg>> : p \in Tree(gs[i])}
        BY <3>6
      <4>3. n = UNION {{<<p, gs[i].cfg>> : p \in acc.ds \cap TreeDaemonSets(gs[i], snap)} : i \in DOMAIN gs}
        BY <4>1 DEF syncNodeGroupsStatus
      <4> HIDE DEF gs
      <4>4. {{<<p, gs[i].cfg>> : p \in acc.ds \cap TreeDaemonSets(gs[i], snap)} : i \in DOMAIN gs}
              = {{<<p, gs[i].cfg>> : p \in Tree(gs[i])} : i \in DOMAIN gs}
        BY <4>2
      <4> QED
        BY <4>3, <4>4, Zenon
    <3> QED
      BY <3>1, <3>2, <3>5, <3>7
  <2>3. MultipleMCPsPerTree(gs, snap, inst.spec.multi) <=> MultipleMCPsPerTree(gs, InitMCP, inst.spec.multi)
    BY <1>0, SameNames, Zenon
  <2>4. (Platform = "OpenShift" => \A p \in Names(gs) : ~mcp[p].paused) => Complete(view)'
    <3> SUFFICES ASSUME Platform = "OpenShift" => \A p \in Names(gs) : ~mcp[p].paused
                 PROVE  Complete(view)'
      OBVIOUS
    <3>1. /\ view'.spec = inst.spec /\ view'.status.ds = acc.ds /\ view'.status.ngs = n
          /\ view'.status.conds.paused = acc.paused /\ view'.status.conds.base = c.base
      <4>1. view'.spec = inst.spec /\ view'.status = s
        BY <1>7, <1>8, Zenon
      <4> QED
        BY <1>5, <1>6, <4>1
    <3>2. /\ acc.paused = {} /\ acc.step.type = "Available" /\ acc.ds = Names(gs)
          /\ n = UNION {{<<p, gs[i].cfg>> : p \in Tree(gs[i])} : i \in DOMAIN gs}
      BY <2>2, Zenon
    <3>3. c.base = IF MultipleMCPsPerTree(gs, InitMCP, inst.spec.multi) THEN "Degraded" ELSE "Available"
      BY <1>1, <2>3, <3>2 DEF Done
    <3>4. /\ view'.status.ds = Names(view'.spec.groups)
          /\ view'.status.conds.paused = {}
          /\ view'.status.conds.base = IF MultipleMCPsPerTree(view'.spec.groups, InitMCP, view'.spec.multi)
                                       THEN "Degraded" ELSE "Available"
      BY <3>1, <3>2, <3>3
    <3>5. view'.status.ngs = UNION {{<<p, view'.spec.groups[i].cfg>> : p \in Tree(view'.spec.groups[i])}
                                      : i \in DOMAIN view'.spec.groups}
      <4>1. view'.spec.groups = gs
        BY <3>1
      <4> HIDE DEF gs
      <4> QED
        BY <3>1, <3>2, <4>1
    <3> QED
      BY <3>4, <3>5, Zenon DEF Complete, Names, Tree
  <2>5. /\ shared' = shared /\ mcp' = mcp /\ ds' = ds /\ mc' = mc /\ cm' = cm
    BY <1>7 DEF objects
  <2>6. Clean(view.spec.groups)'
    BY <1>7, <1>8, <2>1, <2>5 DEF Clean
  <2>7. \A i \in DOMAIN view.spec.groups : TreeSettled(view.spec.groups[i])'
    <3>1. \A g : TreeSettled(g) => TreeSettled(g)'
      BY <2>5 DEF TreeSettled, Follows, Rolled
    <3> QED
      BY <1>7, <1>8, <2>1, <3>1
  <2> QED
    BY <1>0, <1>5, <1>6, <1>7, <1>8, <2>1, <2>4, <2>5, <2>6, <2>7, Zenon DEF Settled
<1>9. Failed(acc.step) \in BOOLEAN
  BY <1>0 DEF Failed
<1> QED
  BY <1>0, <1>4, <1>6, <1>8, <1>9, PatchKeepsWake, Zenon

-----------------------------------------------------------------------------
(* The theorems.                                                           *)

LEMMA WakeInvInit ==
    ASSUME Init
    PROVE  WakeInv
BY DEF Init, WakeInv, OwnInv, CalmInv, Working, InTrees, Quiet, SamePools

LEMMA WakeInvStep ==
    ASSUME TypeInv, WakeInv, [Next]_vars, EverythingNoticed
    PROVE  WakeInv'
<1>0. OwnInv
  BY DEF WakeInv
<1>1. CASE SkipPaused
  <2>1. pc = "idle" /\ view.spec.pause /\ UNCHANGED <<view, objects, locals>>
    BY <1>1, Zenon DEF SkipPaused
  <2>2. OwnInv'
    BY <1>0, <2>1, Zenon DEF OwnInv, objects, locals, Working, InTrees, ResultsInv, Handled
  <2>3. CalmInv'
    BY <2>1, Zenon DEF CalmInv, objects, locals, Working, InTrees, Quiet
  <2> QED
    BY <2>2, <2>3 DEF WakeInv
<1>2. CASE StartReconcile
  BY <1>2, StartKeepsWake
<1>3. CASE SyncShared
  BY <1>3, SharedKeepsWake
<1>4. CASE Cleanup
  BY <1>4, CleanupKeepsWake
<1>5. CASE SyncTree
  BY <1>5, TreeKeepsWake
<1>6. CASE ApplyDaemonSets \/ CheckDaemonSets
  BY <1>6, ApplyKeepsWake, CheckKeepsWake
<1>7. CASE DegradeStatus \/ ReportFailure \/ UpdateStatus
  BY <1>7, DegradeKeepsWake, FailureKeepsWake, UpdateKeepsWake
<1>8. CASE TimerFires \/ WatchDeliver
  <2>1. UNCHANGED <<mc, locals>> /\ mcp' = mcp /\ queued' = TRUE
    BY <1>8, Zenon DEF TimerFires, WatchDeliver, objects
  <2> QED
    BY <1>0, <2>1, QueuedKeeps, Zenon DEF OwnInv
<1>9. CASE Crash
  BY <1>0, <1>9, ResetQueued DEF Crash
<1>10. CASE World
  BY <1>10, WorldKeeps
<1>11. CASE UNCHANGED vars
  <2>0. /\ cr' = cr /\ view' = view /\ mcp' = mcp /\ mc' = mc /\ ds' = ds /\ cm' = cm /\ shared' = shared
        /\ queued' = queued /\ timer' = timer /\ pc' = pc /\ inst' = inst /\ snap' = snap /\ tree' = tree
        /\ seen' = seen /\ hash' = hash /\ acc' = acc
    BY <1>11 DEF vars, objects, locals
  <2>1. OwnInv' <=> OwnInv
    BY <2>0, Zenon DEF OwnInv, ResultsInv, Working, InTrees, Handled
  <2>2. \A gs : Clean(gs)' <=> Clean(gs)
    BY <2>0 DEF Clean
  <2>3. \A p, g : (Follows(p, g)' <=> Follows(p, g)) /\ (Rolled(p, g)' <=> Rolled(p, g))
    BY <2>0 DEF Follows, Rolled
  <2>4. \A g : TreeSettled(g)' <=> TreeSettled(g)
    BY <2>0, <2>3 DEF TreeSettled
  <2>5. (Settled(view)' <=> Settled(view)) /\ (Quiet' <=> Quiet)
    <3>1. Quiet' <=> Quiet
      BY <2>0, Zenon DEF Quiet
    <3>2. Complete(view)' <=> Complete(view)
      BY <2>0, CompleteKept, Zenon
    <3>3. Settled(view)' <=> Settled(view)
      BY <2>0, <2>2, <2>4, <3>2, Zenon DEF Settled
    <3> QED
      BY <3>1, <3>3
  <2>6. Group' = Group /\ \A i : Handled(i)' <=> Handled(i)
    BY <2>0, PlaceKept, Zenon
  <2>7. (Working' <=> Working) /\ (InTrees' <=> InTrees)
    BY <2>0, PlaceKept, Zenon
  <2>8. CalmInv' <=> CalmInv
    BY <2>0, <2>2, <2>3, <2>4, <2>5, <2>6, <2>7, Zenon DEF CalmInv
  <2> QED
    BY <2>0, <2>1, <2>8, Zenon DEF WakeInv
<1> QED
  BY <1>1, <1>2, <1>3, <1>4, <1>5, <1>6, <1>7, <1>8, <1>9, <1>10, <1>11, Zenon
     DEF Next, Reconcile, World

\* Asleep, the resource is the cached copy: what NoLostWakeup says, but for the hash
\* of a ConfigMap that is gone.
LEMMA AsleepFollows ==
    ASSUME WakeInv, Asleep, ~cr.spec.pause
    PROVE  /\ cr.status.conds.gen = cr.gen
           /\ ~ToBeDone => cr.status.conds.base = "Degraded"
           /\ ToBeDone =>
                /\ shared
                /\ \A p \in Pools \ Managed : (ds[p] # NoDS => ~ds[p].owned) /\ p \notin mc
                /\ \A i \in DOMAIN groups :
                     (Platform = "OpenShift" =>
                        \A p \in TreeDaemonSets(groups[i], mcp) : ~mcp[p].paused /\ Rolled(p, groups[i]))
                     => \A p \in TreeDaemonSets(groups[i], mcp) : Follows(p, groups[i])
                /\ (Platform = "OpenShift" => \A p \in Managed : ~mcp[p].paused) => Complete(cr)
<1>1. view = cr /\ Settled(cr) /\ SamePools(mcp)
  BY DEF Asleep, Quiet, WakeInv, CalmInv, OwnInv
<1>2. (ToBeDone <=> Accepts(cr.spec)) /\ Managed = Names(cr.spec.groups)
  BY <1>1, SameNames DEF ToBeDone, Accepts, Managed, groups
<1>3. \A g : TreeDaemonSets(g, mcp) = Tree(g)
  BY <1>1, SameTrees
<1>4. /\ cr.status.conds.gen = cr.gen
      /\ ~ToBeDone => cr.status.conds.base = "Degraded"
      /\ ToBeDone => /\ shared /\ Clean(groups)
                     /\ \A i \in DOMAIN groups : TreeSettled(groups[i])
                     /\ (Platform = "OpenShift" => \A p \in Managed : ~mcp[p].paused) => Complete(cr)
  BY <1>1, <1>2, Zenon DEF Settled, groups
<1>5. ToBeDone => \A p \in Pools \ Managed : (ds[p] # NoDS => ~ds[p].owned) /\ p \notin mc
  BY <1>2, <1>4 DEF Clean, groups
<1>6. ASSUME ToBeDone, NEW i \in DOMAIN groups,
             Platform = "OpenShift" =>
               \A p \in TreeDaemonSets(groups[i], mcp) : ~mcp[p].paused /\ Rolled(p, groups[i])
      PROVE  \A p \in TreeDaemonSets(groups[i], mcp) : Follows(p, groups[i])
  <2>1. TreeSettled(groups[i])
    BY <1>4, <1>6, Zenon
  <2>2. Platform = "OpenShift" => \A p \in Tree(groups[i]) : ~mcp[p].paused /\ Rolled(p, groups[i])
    BY <1>3, <1>6, Zenon
  <2>3. \A p \in Tree(groups[i]) : Follows(p, groups[i])
    BY <2>1, <2>2, Zenon DEF TreeSettled
  <2> QED
    BY <1>3, <2>3, Zenon
<1> QED
  BY <1>4, <1>5, <1>6, Zenon

LEMMA WakeInvWakes ==
    ASSUME TypeInv, WakeInv, UnreadInv
    PROVE  NoLostWakeup
<1> SUFFICES ASSUME Asleep, ~cr.spec.pause, ToBeDone, NEW i \in DOMAIN groups,
                    \A p \in TreeDaemonSets(groups[i], mcp) : ~mcp[p].paused /\ Rolled(p, groups[i]),
                    NEW p \in TreeDaemonSets(groups[i], mcp)
             PROVE  UpToDate(p, groups[i])
  BY AsleepFollows, Zenon DEF NoLostWakeup
<1>1. Follows(p, groups[i])
  BY AsleepFollows, Zenon
<1>2. p \in Pools
  <2>1. view = cr /\ SamePools(mcp)
    BY DEF Asleep, WakeInv, OwnInv
  <2>2. Accepts(cr.spec) /\ TreeDaemonSets(groups[i], mcp) = Tree(groups[i])
    BY <2>1, SameNames, SameTrees DEF ToBeDone, Accepts, groups
  <2>3. cr.spec \in Specs
    BY Zenon DEF TypeInv, TypeOK, CRType
  <2> QED
    BY <2>2, <2>3, TreeFacts DEF groups
<1>3. cm[p] = NoCM /\ ds[p] # NoDS => ds[p].hash = NoCM
  BY <1>2, Zenon DEF UnreadInv
<1> QED
  BY <1>1, <1>3 DEF Follows, UpToDate

LEMMA WakeInvTells ==
    ASSUME WakeInv
    PROVE  StatusTellsTruth
<1> SUFFICES ASSUME Asleep, ~cr.spec.pause, ToBeDone, \A p \in Managed : ~mcp[p].paused
             PROVE  /\ cr.status.ds = Managed
                    /\ cr.status.ngs = UNION {{<<p, groups[i].cfg>> : p \in TreeDaemonSets(groups[i], mcp)}
                                                : i \in DOMAIN groups}
                    /\ cr.status.conds.paused = {}
                    /\ cr.status.conds.base = IF MultipleMCPsPerTree(groups, mcp, cr.spec.multi)
                                              THEN "Degraded" ELSE "Available"
  BY Zenon DEF StatusTellsTruth
<1>1. Complete(cr)
  BY AsleepFollows
<1>2. SamePools(mcp)
  BY Zenon DEF WakeInv, OwnInv
<1>3. /\ Managed = Names(cr.spec.groups)
      /\ MultipleMCPsPerTree(groups, mcp, cr.spec.multi)
           <=> MultipleMCPsPerTree(groups, InitMCP, cr.spec.multi)
  BY <1>2, SameNames DEF Managed, groups
<1>4. \A i \in DOMAIN groups : {<<p, groups[i].cfg>> : p \in TreeDaemonSets(groups[i], mcp)}
                                 = {<<p, groups[i].cfg>> : p \in Tree(groups[i])}
  BY <1>2, SameTrees
<1>5. cr.status.ngs = UNION {{<<p, groups[i].cfg>> : p \in TreeDaemonSets(groups[i], mcp)}
                               : i \in DOMAIN groups}
  <2>1. cr.status.ngs = UNION {{<<p, groups[i].cfg>> : p \in Tree(groups[i])} : i \in DOMAIN groups}
    BY <1>1, Zenon DEF Complete, groups
  <2> HIDE DEF groups
  <2>2. {{<<p, groups[i].cfg>> : p \in TreeDaemonSets(groups[i], mcp)} : i \in DOMAIN groups}
          = {{<<p, groups[i].cfg>> : p \in Tree(groups[i])} : i \in DOMAIN groups}
    BY <1>4
  <2> QED
    BY <2>1, <2>2, Zenon
<1> QED
  BY <1>1, <1>3, <1>5, Zenon DEF Complete, groups

LEMMA WakeInvAlways ==
    ASSUME EverythingNoticed
    PROVE  Spec => [](TypeInv /\ WakeInv)
<1>1. Init => WakeInv
  BY WakeInvInit
<1>2. TypeInv /\ WakeInv /\ [Next]_vars => WakeInv'
  BY WakeInvStep
<1> QED
  BY <1>1, <1>2, TypeInit, TypeNext, PTL DEF Spec

\* As long as every change is one the operator is told of, no wake-up is lost: when
\* it has gone to sleep nothing is left over of former node groups, and every tree
\* whose pools are neither paused nor rolling out has the exporters its node group
\* and its ConfigMaps ask for, whatever was edited, deleted, tampered with, refused
\* or restarted, and however stale the copies were that Reconcile worked on
\* (SetupWithManager, Reconcile).
THEOREM NoLostWakeupTheorem ==
    ASSUME EverythingNoticed, "cmdelete" \notin Disturbances
    PROVE  Spec => []NoLostWakeup
<1>1. Init => UnreadInv
  BY UnreadInit
<1>2. TypeInv /\ UnreadInv /\ [Next]_vars => UnreadInv'
  BY UnreadStep
<1>3. TypeInv /\ WakeInv /\ UnreadInv => NoLostWakeup
  BY WakeInvWakes
<1> QED
  BY <1>1, <1>2, <1>3, WakeInvAlways, PTL DEF Spec

\* Under the same condition, but with ConfigMaps that may go, and with no pool
\* paused, the status an operator that has gone to sleep leaves is complete: all the
\* DaemonSets and all the node groups of the specification, although each patch sends
\* only what differs from a cached copy (updateStatus, syncNodeGroupsStatus,
\* ReducePerTreeResults).
THEOREM StatusTheorem ==
    ASSUME EverythingNoticed
    PROVE  Spec => []StatusTellsTruth
<1>1. WakeInv => StatusTellsTruth
  BY WakeInvTells
<1> QED
  BY <1>1, WakeInvAlways, PTL
=============================================================================
