---------------------------- MODULE TreesProofs ----------------------------
(***************************************************************************)
(* From node groups to the one step a reconciliation ends with, for every  *)
(* set of pools, labels and selectors and any number of node groups: that  *)
(* validation, cleaner and event mapping agree on the trees, and what the  *)
(* reduction of the per-tree results says of them.                         *)
(***************************************************************************)
EXTENDS MCTrees, TLAPS

-----------------------------------------------------------------------------
(* The trees of accepted node groups. The three invariants of MCNodeGroups *)
(* follow from the definitions alone, given that the groups are a sequence.*)

\* A group by name that passes validation has exactly one pool in its tree, the
\* one it names (FindTreesOpenshift, nodeGroupsSpecifier).
LEMMA NamedTree ==
    ASSUME Platform = "OpenShift", Accepted,
           NEW i \in DOMAIN groups, groups[i].pool # NoPool
    PROVE  TreeMCPs(groups[i], mcps) = {groups[i].pool}
<1>1. groups[i].sel = NoSelector
  BY DEF Accepted, ValidNodeGroups, nodeGroupsSpecifier
<1>2. TreeMCPs(groups[i], mcps) # {}
  BY DEF Accepted, TreesFound
<1> QED
  BY <1>1, <1>2 DEF TreeMCPs

\* NoSharedDaemonSet for every instance: validation leaves no two node groups
\* with a DaemonSet in common.
THEOREM NoSharedDaemonSetTheorem == Spec => []NoSharedDaemonSet
<1>1. NoSharedDaemonSet
  <2> SUFFICES ASSUME Accepted, NEW i \in DOMAIN groups, NEW j \in DOMAIN groups, i # j
               PROVE  TreeDaemonSets(groups[i], mcps) \cap TreeDaemonSets(groups[j], mcps) = {}
    BY DEF NoSharedDaemonSet
  <2>1. CASE Platform = "OpenShift"
    BY <2>1 DEF Accepted, ValidTrees, MCPsDuplicates, TreeDaemonSets
  <2>2. CASE Platform = "HyperShift"
    <3>1. groups[i].pool # NoPool /\ groups[i].pool # groups[j].pool
      BY <2>2 DEF Accepted, ValidNodeGroups, nodeGroupForHypershift, nodeGroupsDuplicatesByPoolName
    <3> QED
      BY <2>2, <3>1 DEF TreeDaemonSets
  <2> QED
    BY <2>1, <2>2, PlatformAssumption
<1> QED
  BY <1>1, PTL

\* CleanerAgreesWithWriter for every instance: what buildDaemonSetNames keeps is
\* what the state finders generate.
THEOREM CleanerAgreesTheorem == Spec => []CleanerAgreesWithWriter
<1>1. CleanerAgreesWithWriter
  <2> SUFFICES ASSUME Accepted
               PROVE  buildDaemonSetNames(groups, mcps) = ManagedDaemonSets(groups, mcps)
    BY DEF CleanerAgreesWithWriter
  <2> DEFINE Kept(i) == IF groups[i].pool # NoPool THEN {groups[i].pool}
                        ELSE TreeMCPs(groups[i], mcps)
  <2>1. ASSUME NEW i \in DOMAIN groups
        PROVE  Kept(i) = TreeDaemonSets(groups[i], mcps)
    <3>1. CASE Platform = "OpenShift"
      BY <3>1, NamedTree DEF TreeDaemonSets
    <3>2. CASE Platform = "HyperShift"
      BY <3>2 DEF TreeDaemonSets, Accepted, ValidNodeGroups, nodeGroupForHypershift
    <3> QED
      BY <3>1, <3>2, PlatformAssumption
  <2> QED
    BY <2>1 DEF buildDaemonSetNames, ManagedDaemonSets
<1> QED
  BY <1>1, PTL

\* EventsFollowTrees for every instance: the event mapping and the tree finder
\* agree on which existing pools are the operator's.
THEOREM EventsFollowTreesTheorem == Spec => []EventsFollowTrees
<1>1. EventsFollowTrees
  <2> SUFFICES ASSUME Accepted, Platform = "OpenShift", NEW p \in Pools, mcps[p].exists,
                      NEW i \in DOMAIN groups
               PROVE  p \in TreeMCPs(groups[i], mcps)
                        <=> nodeGroupMatchesMCP(groups[i], p, mcps[p].label)
    BY DEF EventsFollowTrees
  <2>1. CASE groups[i].pool # NoPool
    BY <2>1, NamedTree DEF nodeGroupMatchesMCP
  <2>2. CASE groups[i].pool = NoPool
    BY <2>2, NamesAssumption DEF nodeGroupMatchesMCP, TreeMCPs
  <2> QED
    BY <2>1, <2>2
<1> QED
  BY <1>1, PTL

-----------------------------------------------------------------------------
(* The outcomes of a tree.                                                 *)

\* What the reduction may take for granted of a step.
WellFormed(s) ==
    /\ s.after \in Nat
    /\ Failed(s) \in BOOLEAN
    /\ \/ Done(s) /\ ~Ongoing(s) /\ ~Failed(s)
       \/ Ongoing(s) /\ ~Done(s) /\ ~Failed(s)
       \/ Failed(s) /\ ~Done(s) /\ ~Ongoing(s)

LEMMA StepsWellFormed ==
    /\ WellFormed(StepSuccess) /\ Done(StepSuccess)
    /\ WellFormed(StepFailed) /\ Failed(StepFailed)
    /\ \A n \in Nat : /\ WellFormed(StepOngoing(n)) /\ Ongoing(StepOngoing(n))
                      /\ \A m : /\ WellFormed(WithMessage(StepOngoing(n), m))
                                /\ Ongoing(WithMessage(StepOngoing(n), m))
BY DEF StepSuccess, StepFailed, StepOngoing, WithMessage, WellFormed, Done, Ongoing, Failed

\* A tree that is complete reports the DaemonSets of all its pools.
LEMMA OutcomeFacts ==
    ASSUME NEW pools, NEW r \in Outcomes(pools)
    PROVE  WellFormed(r.step) /\ (Done(r.step) => r.ds = pools)
<1> DEFINE Complete == {[ds |-> pools, mcps |-> pools, paused |-> {}, step |-> StepSuccess],
                        [ds |-> pools, mcps |-> pools, paused |-> {}, step |-> StepFailed]}
           Refused == {[ds |-> {}, mcps |-> {}, paused |-> P, step |-> StepFailed]
                         : P \in (SUBSET pools) \ {pools}}
           Paused == {[ds |-> {}, mcps |-> pools, paused |-> P, step |-> StepOngoing(0)]
                        : P \in (SUBSET pools) \ {{}}}
           Waiting == {[ds |-> pools, mcps |-> pools, paused |-> {},
                        step |-> WithMessage(StepOngoing(5), p)] : p \in pools}
           Pending == UNION {Updating(pools, p) : p \in pools}
<1>1. CASE r \in Complete
  <2>1. (r.step = StepSuccess /\ r.ds = pools) \/ r.step = StepFailed
    BY <1>1
  <2> QED
    BY <2>1, StepsWellFormed, Zenon DEF WellFormed
<1>2. CASE r \in Refused
  <2>1. r.step = StepFailed
    BY <1>2
  <2> QED
    BY <2>1, StepsWellFormed DEF WellFormed
<1>3. CASE r \in Paused
  <2>1. r.step = StepOngoing(0)
    BY <1>3
  <2> QED
    BY <2>1, StepsWellFormed DEF WellFormed
<1>4. ASSUME NEW p \in pools, r \in Updating(pools, p)
      PROVE  WellFormed(r.step) /\ ~Done(r.step)
  <2>1. \E M, P :
          r = [ds |-> {}, mcps |-> M, paused |-> P, step |-> WithMessage(StepOngoing(60), p)]
    BY <1>4, Zenon DEF Updating
  <2> QED
    BY <2>1, StepsWellFormed DEF WellFormed
<1>5. CASE r \in Waiting
  <2>1. \E p \in pools : r.step = WithMessage(StepOngoing(5), p)
    BY <1>5
  <2> QED
    BY <2>1, StepsWellFormed DEF WellFormed
<1>6. CASE r \in Pending
  <2>1. \E p \in pools : r \in Updating(pools, p)
    BY <1>6, Zenon
  <2> QED
    BY <1>4, <2>1, Zenon
<1>7. Outcomes(pools) = Complete \cup Refused \cup Paused \cup Waiting \cup Pending
  BY Zenon DEF Outcomes
<1> HIDE DEF Complete, Refused, Paused, Pending, Waiting
<1> QED
  BY <1>1, <1>2, <1>3, <1>5, <1>6, <1>7, Zenon

-----------------------------------------------------------------------------
(* The names of accepted node groups.                                      *)

\* buildDaemonSetNames of one accepted node group, and of all of them.
LEMMA KeptNames ==
    ASSUME Accepted
    PROVE  /\ \A i \in DOMAIN groups :
                buildDaemonSetNames(<<groups[i]>>, mcps) = TreeDaemonSets(groups[i], mcps)
           /\ buildDaemonSetNames(groups, mcps) =
                UNION {TreeDaemonSets(groups[i], mcps) : i \in DOMAIN groups}
<1> DEFINE Kept(g) == IF g.pool # NoPool THEN {g.pool} ELSE TreeMCPs(g, mcps)
<1>1. ASSUME NEW i \in DOMAIN groups
      PROVE  Kept(groups[i]) = TreeDaemonSets(groups[i], mcps)
  <2>1. CASE Platform = "OpenShift"
    BY <2>1, NamedTree DEF TreeDaemonSets
  <2>2. CASE Platform = "HyperShift"
    BY <2>2 DEF TreeDaemonSets, Accepted, ValidNodeGroups, nodeGroupForHypershift
  <2> QED
    BY <2>1, <2>2, PlatformAssumption
<1>2. ASSUME NEW g
      PROVE  buildDaemonSetNames(<<g>>, mcps) = Kept(g)
  <2>1. DOMAIN <<g>> = {1} /\ <<g>>[1] = g
    OBVIOUS
  <2> QED
    BY <2>1 DEF buildDaemonSetNames
<1>3. buildDaemonSetNames(groups, mcps) = UNION {Kept(groups[i]) : i \in DOMAIN groups}
  BY DEF buildDaemonSetNames
<1> QED
  BY <1>1, <1>2, <1>3

-----------------------------------------------------------------------------
(* The reduction.                                                          *)

AllOutcomes == UNION {Outcomes(P) : P \in SUBSET (Pools \cup {NoPool, EmptyName})}

\* Every result is an outcome of its tree, and nothing is configured any more
\* once the first tree has been reconciled.
ResultsInv ==
    /\ groups \in Seq(Groups) /\ results \in Seq(AllOutcomes)
    /\ Len(results) <= Len(groups)
    /\ results # <<>> => Accepted
    /\ \A i \in DOMAIN results : results[i] \in Outcomes(TreeDaemonSets(groups[i], mcps))

\* The step kept is one of the worst kind, and of the waiting ones the first with
\* the shortest delay as long as none waits without a delay.
StepInv ==
    /\ WellFormed(acc.step)
    /\ Failed(acc.step) <=> \E i \in DOMAIN results : Failed(results[i].step)
    /\ Done(acc.step) <=> \A i \in DOMAIN results : Done(results[i].step)
    /\ Ongoing(acc.step) /\ (\A i \in DOMAIN results : Ongoing(results[i].step) => results[i].step.after # 0) =>
         /\ \E i \in DOMAIN results : Ongoing(results[i].step) /\ results[i].step.after = acc.step.after
         /\ \A i \in DOMAIN results : Ongoing(results[i].step) => acc.step.after <= results[i].step.after

\* The names collected are those of the completed trees; the paused pools those
\* of all trees.
NamesInv ==
    /\ \A d : d \in acc.ds <=>
         \E i \in DOMAIN results : Done(results[i].step) /\ d \in TreeDaemonSets(groups[i], mcps)
    /\ \A p : p \in acc.paused <=> \E i \in DOMAIN results : p \in results[i].paused

TreesInv == ResultsInv /\ StepInv /\ NamesInv

LEMMA TreesInvInit ==
    ASSUME TreesInit
    PROVE  TreesInv
<1>1. results = <<>> /\ groups = <<>> /\ acc = NoResults
  BY DEF TreesInit, Init
<1>2. DOMAIN results = {} /\ Len(results) = 0 /\ Len(groups) = 0
  BY <1>1
<1>3. acc.step = StepSuccess /\ acc.ds = {} /\ acc.paused = {}
  BY <1>1 DEF NoResults
<1>4. ResultsInv
  BY <1>1, <1>2 DEF ResultsInv
<1>5. StepInv
  BY <1>2, <1>3, StepsWellFormed DEF StepInv, WellFormed
<1>6. NamesInv
  BY <1>2, <1>3 DEF NamesInv
<1> QED
  BY <1>4, <1>5, <1>6 DEF TreesInv

LEMMA TreeNamesTyped ==
    ASSUME NEW g \in Groups, NEW m
    PROVE  TreeDaemonSets(g, m) \in SUBSET (Pools \cup {NoPool, EmptyName})
BY DEF TreeDaemonSets, TreeMCPs, Groups

\* Configuring keeps the invariant: no tree has been reconciled yet.
LEMMA ConfigureKeeps ==
    ASSUME TreesInv, Configure
    PROVE  TreesInv'
<1>1. results = <<>> /\ results' = <<>> /\ acc' = acc
  BY DEF Configure
<1>2. DOMAIN results = {} /\ DOMAIN results' = {} /\ Len(results') = 0
  BY <1>1
<1>3. groups' \in Seq(Groups)
  BY DEF Configure, AddGroup, SetPool, TreesInv, ResultsInv
<1>4. ResultsInv'
  BY <1>1, <1>2, <1>3 DEF ResultsInv
<1>5. StepInv'
  BY <1>1, <1>2 DEF StepInv, TreesInv
<1>6. NamesInv'
  BY <1>1, <1>2 DEF NamesInv, TreesInv
<1> QED
  BY <1>4, <1>5, <1>6 DEF TreesInv

\* Which of the two steps is kept, for well-formed steps.
LEMMA ReduceFacts ==
    ASSUME NEW a, NEW r, WellFormed(a.step), WellFormed(r.step)
    PROVE  LET s == ReduceStep(a, r).step
           IN  /\ WellFormed(s)
               /\ Failed(s) <=> Failed(a.step) \/ Failed(r.step)
               /\ Done(s) <=> Done(a.step) /\ Done(r.step)
               /\ Done(a.step) => s.after = r.step.after \/ Done(s)
               /\ Ongoing(a.step) /\ Done(r.step) => s = a.step
               /\ Ongoing(a.step) /\ Ongoing(r.step) /\ r.step.after # 0 =>
                    s.after = IF r.step.after < a.step.after THEN r.step.after ELSE a.step.after
<1> DEFINE s == ReduceStep(a, r).step
<1>1. s = IF ~Done(r.step) /\ ShouldReplaceStep(a.step, r.step) THEN r.step ELSE a.step
  BY DEF ReduceStep
<1> HIDE DEF s
<1>2. s = r.step \/ s = a.step
  BY <1>1
<1>3. CASE Done(r.step)
  <2>1. s = a.step
    BY <1>1, <1>3
  <2> QED
    BY <1>3, <2>1 DEF WellFormed, s
<1>4. CASE ~Done(r.step) /\ Done(a.step)
  <2>1. s = r.step
    BY <1>1, <1>4 DEF ShouldReplaceStep
  <2> QED
    BY <1>4, <2>1 DEF WellFormed, s
<1>5. CASE Failed(a.step)
  <2>1. s = a.step
    BY <1>1, <1>5 DEF ShouldReplaceStep, WellFormed
  <2> QED
    BY <1>5, <2>1 DEF WellFormed, s
<1>6. CASE Ongoing(a.step) /\ Failed(r.step)
  <2>1. s = r.step
    BY <1>1, <1>6 DEF ShouldReplaceStep, WellFormed
  <2> QED
    BY <1>6, <2>1 DEF WellFormed, s
<1>7. CASE Ongoing(a.step) /\ Ongoing(r.step)
  <2>1. ShouldReplaceStep(a.step, r.step) <=>
           IF r.step.after # a.step.after THEN r.step.after > 0 /\ r.step.after < a.step.after
           ELSE r.step.msg # NoMessage /\ r.step.msg # a.step.msg
    BY <1>7 DEF ShouldReplaceStep, WellFormed
  <2>2. r.step.after # 0 =>
           s.after = IF r.step.after < a.step.after THEN r.step.after ELSE a.step.after
    BY <1>1, <1>7, <2>1 DEF WellFormed
  <2> QED
    BY <1>2, <1>7, <2>2 DEF WellFormed, s
<1> QED
  BY <1>3, <1>4, <1>5, <1>6, <1>7 DEF WellFormed

\* Appending a result.
LEMMA AppendFacts ==
    ASSUME NEW S, NEW s \in Seq(S), NEW e \in S
    PROVE  /\ Append(s, e) \in Seq(S) /\ Len(Append(s, e)) = Len(s) + 1
           /\ DOMAIN s = 1 .. Len(s) /\ DOMAIN Append(s, e) = 1 .. (Len(s) + 1)
           /\ Len(s) \in Nat
           /\ \A i \in DOMAIN s : Append(s, e)[i] = s[i]
           /\ Append(s, e)[Len(s) + 1] = e
OBVIOUS

LEMMA ReconcileKeeps ==
    ASSUME TreesInv, ReconcileTree
    PROVE  TreesInv'
<1> DEFINE n == Len(results) + 1
           tree == TreeDaemonSets(groups[n], mcps)
<1>0. PICK r \in Outcomes(tree) : results' = Append(results, r) /\ acc' = ReduceStep(acc, r)
  BY DEF ReconcileTree
<1>1. /\ groups' = groups /\ mcps' = mcps /\ Accepted /\ Accepted'
      /\ groups \in Seq(Groups) /\ results \in Seq(AllOutcomes) /\ Len(results) < Len(groups)
  BY DEF ReconcileTree, Accepted, TreesInv, ResultsInv
<1>2. n \in DOMAIN groups /\ groups[n] \in Groups
  BY <1>1
<1>3. r \in AllOutcomes
  BY <1>0, <1>2, TreeNamesTyped DEF AllOutcomes
<1>4. /\ results' \in Seq(AllOutcomes) /\ Len(results') = n
      /\ DOMAIN results = 1 .. Len(results) /\ DOMAIN results' = 1 .. n
      /\ \A i \in DOMAIN results : results'[i] = results[i]
      /\ results'[n] = r
  BY <1>0, <1>1, <1>3, AppendFacts
<1>5. DOMAIN results' = DOMAIN results \cup {n} /\ n \notin DOMAIN results
  BY <1>1, <1>4
<1>6. WellFormed(r.step) /\ (Done(r.step) => r.ds = tree)
  BY <1>0, OutcomeFacts
<1>7. Len(results) \in Nat /\ Len(groups) \in Nat
  BY <1>1
<1> HIDE DEF n, tree
<1>8. ResultsInv'
  <2>1. Len(results') <= Len(groups')
    BY <1>1, <1>4, <1>7 DEF n
  <2>2. \A i \in DOMAIN results' : results'[i] \in Outcomes(TreeDaemonSets(groups'[i], mcps'))
    BY <1>0, <1>1, <1>4, <1>5 DEF tree, TreesInv, ResultsInv
  <2> QED
    BY <1>1, <1>4, <2>1, <2>2 DEF ResultsInv
<1>9. StepInv'
  <2> DEFINE s == ReduceStep(acc, r).step
  <2>0. acc'.step = s
    BY <1>0
  <2>1. StepInv /\ WellFormed(acc.step)
    BY DEF TreesInv, StepInv
  <2>2. /\ WellFormed(s)
        /\ Failed(s) <=> Failed(acc.step) \/ Failed(r.step)
        /\ Done(s) <=> Done(acc.step) /\ Done(r.step)
        /\ Done(acc.step) => s.after = r.step.after \/ Done(s)
        /\ Ongoing(acc.step) /\ Done(r.step) => s = acc.step
        /\ Ongoing(acc.step) /\ Ongoing(r.step) /\ r.step.after # 0 =>
             s.after = IF r.step.after < acc.step.after THEN r.step.after ELSE acc.step.after
    BY <1>6, <2>1, ReduceFacts
  <2> HIDE DEF s
  <2>3. /\ \A i \in DOMAIN results : results'[i].step = results[i].step
        /\ results'[n].step = r.step
    BY <1>4
  <2>4. Failed(s) <=> \E i \in DOMAIN results' : Failed(results'[i].step)
    BY <1>5, <2>1, <2>2, <2>3 DEF StepInv
  <2>5. Done(s) <=> \A i \in DOMAIN results' : Done(results'[i].step)
    BY <1>5, <2>1, <2>2, <2>3 DEF StepInv
  <2>6. ASSUME Ongoing(s), \A i \in DOMAIN results' : Ongoing(results'[i].step) => results'[i].step.after # 0
        PROVE  /\ \E i \in DOMAIN results' : Ongoing(results'[i].step) /\ results'[i].step.after = s.after
               /\ \A i \in DOMAIN results' : Ongoing(results'[i].step) => s.after <= results'[i].step.after
    <3>0. /\ \A i \in DOMAIN results : Ongoing(results[i].step) => results[i].step.after # 0
          /\ Ongoing(r.step) => r.step.after # 0
      BY <1>5, <2>3, <2>6
    <3>1. \A i \in DOMAIN results : results[i].step.after \in Nat /\ (Done(results[i].step) => ~Ongoing(results[i].step))
      BY OutcomeFacts DEF TreesInv, ResultsInv, WellFormed
    <3>2. CASE Done(acc.step)
      <4>1. Ongoing(r.step) /\ s.after = r.step.after
        BY <1>6, <2>2, <2>6, <3>2 DEF WellFormed
      <4>2. \A i \in DOMAIN results : ~Ongoing(results[i].step)
        BY <2>1, <3>1, <3>2 DEF StepInv
      <4> QED
        BY <1>5, <1>6, <2>3, <4>1, <4>2 DEF WellFormed
    <3>3. CASE Ongoing(acc.step)
      <4>1. /\ \E i \in DOMAIN results : Ongoing(results[i].step) /\ results[i].step.after = acc.step.after
            /\ \A i \in DOMAIN results : Ongoing(results[i].step) => acc.step.after <= results[i].step.after
        BY <2>1, <3>0, <3>3 DEF StepInv
      <4>2. Done(r.step) \/ Ongoing(r.step)
        BY <1>6, <2>2, <2>6 DEF WellFormed
      <4>3. CASE Done(r.step)
        BY <1>5, <1>6, <2>2, <2>3, <3>3, <4>1, <4>3 DEF WellFormed
      <4>4. CASE Ongoing(r.step)
        <5>1. s.after = IF r.step.after < acc.step.after THEN r.step.after ELSE acc.step.after
          BY <2>2, <3>0, <3>3, <4>4
        <5>2. r.step.after \in Nat /\ acc.step.after \in Nat
          BY <1>6, <2>1 DEF WellFormed
        <5>3. \E i \in DOMAIN results' : Ongoing(results'[i].step) /\ results'[i].step.after = s.after
          BY <1>5, <2>3, <4>1, <4>4, <5>1
        <5>4. s.after <= r.step.after /\ s.after <= acc.step.after /\ s.after \in Nat
          BY <5>1, <5>2
        <5>5. \A i \in DOMAIN results : Ongoing(results[i].step) => s.after <= results[i].step.after
          BY <3>1, <4>1, <5>2, <5>4
        <5> QED
          BY <1>5, <2>3, <5>3, <5>4, <5>5
      <4> QED
        BY <4>2, <4>3, <4>4
    <3>4. CASE Failed(acc.step)
      BY <2>2, <2>6, <3>4 DEF WellFormed
    <3> QED
      BY <2>1, <3>2, <3>3, <3>4 DEF WellFormed
  <2> QED
    BY <2>0, <2>2, <2>4, <2>5, <2>6 DEF StepInv
<1>10. NamesInv'
  <2>1. /\ acc'.ds = IF Done(r.step) THEN acc.ds \cup r.ds ELSE acc.ds
        /\ acc'.paused = acc.paused \cup r.paused
    BY <1>0 DEF ReduceStep
  <2>2. /\ \A i \in DOMAIN results : results'[i].step = results[i].step /\ results'[i].paused = results[i].paused
        /\ results'[n].step = r.step /\ results'[n].paused = r.paused
    BY <1>4
  <2>3. \A d : d \in acc'.ds <=>
           \E i \in DOMAIN results' : Done(results'[i].step) /\ d \in TreeDaemonSets(groups[i], mcps)
    BY <1>5, <1>6, <2>1, <2>2 DEF TreesInv, NamesInv, tree
  <2>4. \A p : p \in acc'.paused <=> \E i \in DOMAIN results' : p \in results'[i].paused
    BY <1>5, <2>1, <2>2 DEF TreesInv, NamesInv
  <2> QED
    BY <1>1, <2>3, <2>4 DEF NamesInv
<1> QED
  BY <1>8, <1>9, <1>10 DEF TreesInv

LEMMA TreesInvStep ==
    ASSUME TreesInv, [TreesNext]_treeVars
    PROVE  TreesInv'
<1>1. CASE UNCHANGED treeVars
  BY <1>1 DEF treeVars, TreesInv, ResultsInv, StepInv, NamesInv, Accepted
<1> QED
  BY <1>1, ConfigureKeeps, ReconcileKeeps DEF TreesNext

-----------------------------------------------------------------------------
(* What the reduction says of the trees.                                   *)

\* The steps of the trees, by the position of the tree.
LEMMA StepsByTree ==
    ASSUME TreesInv
    PROVE  /\ \A i \in DOMAIN results : results[i].step \in Steps /\ WellFormed(results[i].step)
           /\ \A s \in Steps : \E i \in DOMAIN results : s = results[i].step
<1>1. \A i \in DOMAIN results : WellFormed(results[i].step)
  BY OutcomeFacts DEF TreesInv, ResultsInv
<1> QED
  BY <1>1 DEF Steps, ToSet

LEMMA WorstFromInv ==
    ASSUME TreesInv
    PROVE  OutcomeIsWorst
<1>0. \A s \in Steps : WellFormed(s)
  BY StepsByTree
<1>1. Failed(acc.step) <=> \E s \in Steps : Failed(s)
  BY StepsByTree DEF TreesInv, StepInv
<1>2. Done(acc.step) <=> \A s \in Steps : Done(s)
  BY StepsByTree DEF TreesInv, StepInv
<1>3. WellFormed(acc.step)
  BY DEF TreesInv, StepInv
<1> QED
  BY <1>0, <1>1, <1>2, <1>3 DEF OutcomeIsWorst, WellFormed

LEMMA ReportedFromInv ==
    ASSUME TreesInv
    PROVE  OnlyCompletedTreesReported
<1> DEFINE done == {i \in DOMAIN results : Done(results[i].step)}
<1>1. DOMAIN results \subseteq DOMAIN groups
  BY DEF TreesInv, ResultsInv
<1>2. acc.ds = UNION {TreeDaemonSets(groups[i], mcps) : i \in done}
  BY DEF TreesInv, NamesInv
<1>3. \A i \in done : buildDaemonSetNames(<<groups[i]>>, mcps) = TreeDaemonSets(groups[i], mcps)
  BY <1>1, KeptNames DEF TreesInv, ResultsInv
<1>4. acc.ds = UNION {buildDaemonSetNames(<<groups[i]>>, mcps) : i \in done}
  BY <1>2, <1>3
<1>5. acc.paused = UNION {r.paused : r \in ToSet(results)}
  BY DEF TreesInv, NamesInv, ToSet
<1>6. ASSUME done = DOMAIN groups PROVE acc.ds = buildDaemonSetNames(groups, mcps)
  <2>1. CASE results = <<>>
    BY <1>2, <1>6, <2>1 DEF buildDaemonSetNames
  <2>2. CASE results # <<>>
    BY <1>2, <1>6, <2>2, KeptNames DEF TreesInv, ResultsInv
  <2> QED
    BY <2>1, <2>2
<1> QED
  BY <1>4, <1>5, <1>6 DEF OnlyCompletedTreesReported

LEMMA ShortestFromInv ==
    ASSUME TreesInv
    PROVE  ShortestWaitWins
<1> SUFFICES ASSUME Ongoing(acc.step), 0 \notin Waits
             PROVE  acc.step.after = Min(Waits)
  BY DEF ShortestWaitWins
<1>1. \A i \in DOMAIN results : Ongoing(results[i].step) => results[i].step.after \in Waits
  BY StepsByTree DEF Waits
<1>2. \A w \in Waits : \E i \in DOMAIN results : Ongoing(results[i].step) /\ w = results[i].step.after
  BY StepsByTree DEF Waits
<1>3. /\ \E i \in DOMAIN results : Ongoing(results[i].step) /\ results[i].step.after = acc.step.after
      /\ \A i \in DOMAIN results : Ongoing(results[i].step) => acc.step.after <= results[i].step.after
  BY <1>1 DEF TreesInv, StepInv
<1>4. acc.step.after \in Waits /\ \A w \in Waits : acc.step.after <= w
  BY <1>1, <1>2, <1>3
<1>5. \A w \in Waits : w \in Nat
  BY <1>2, StepsByTree DEF WellFormed
<1>6. \A x \in Waits : (\A y \in Waits : x <= y) => x = acc.step.after
  BY <1>4, <1>5
<1> QED
  BY <1>4, <1>6 DEF Min

\* Whatever the order of the trees, the reduction is a failure iff a tree failed,
\* complete iff all are complete and otherwise progressing (ReducePerTreeResults).
THEOREM OutcomeIsWorstTheorem == TreesSpec => []OutcomeIsWorst
<1> QED
  BY TreesInvInit, TreesInvStep, WorstFromInv, PTL DEF TreesSpec

\* The DaemonSets reported are exactly those the cleaner keeps for the completed
\* trees, and the paused pools those of every tree (ReducePerTreeResults,
\* buildDaemonSetNames).
THEOREM ReportedTheorem == TreesSpec => []OnlyCompletedTreesReported
<1> QED
  BY TreesInvInit, TreesInvStep, ReportedFromInv, PTL DEF TreesSpec

\* Unless a tree waits without a delay, the operator comes back after the
\* shortest delay that a tree asked for (ShouldReplaceStep).
THEOREM ShortestWaitTheorem == TreesSpec => []ShortestWaitWins
<1> QED
  BY TreesInvInit, TreesInvStep, ShortestFromInv, PTL DEF TreesSpec
=============================================================================
