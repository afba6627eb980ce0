---------------------------- MODULE NodeGroups ----------------------------
(***************************************************************************)
(* Node groups, the MachineConfigPools they select and the names derived   *)
(* from them: pkg/validation/validation.go, the tree finders of            *)
(* api/v1/helper/nodegroup/nodegroup.go, the name sets of                  *)
(* internal/dangling/dangling.go and pkg/objectstate/rte, and the event    *)
(* mapping nodeGroupMatchesMCP of the controller.                          *)
(*                                                                         *)
(* A pool is named by itself, and a DaemonSet or a MachineConfig by the    *)
(* pool its name is generated from (objectnames.GetComponentName and       *)
(* GetMachineConfigName are injective in the pool for one operator).  A    *)
(* label selector is an opaque value; Selects gives the labels it matches. *)
(***************************************************************************)
EXTENDS Naturals, Sequences, FiniteSets

CONSTANTS
    Platform,       \* "OpenShift" or "HyperShift" (pkg/platform)
    Pools,          \* names a pool can have
    Labels,         \* label sets a MachineConfigPool can carry
    Selectors,      \* MachineConfigPoolSelectors, well formed or not
    BadSelectors,   \* those LabelSelectorAsSelector rejects
    Selects,        \* the labels each selector matches
    Configs,        \* normalized node group configurations
    NoPool,         \* PoolName == nil
    EmptyName,      \* *PoolName == ""
    NoSelector,     \* MachineConfigPoolSelector == nil
    MaxAnnotations  \* NodeGroupMaxAnnotations

ASSUME PlatformAssumption == Platform \in {"OpenShift", "HyperShift"}

ASSUME NamesAssumption ==
    /\ NoPool \notin Pools /\ EmptyName \notin Pools /\ NoPool # EmptyName
    /\ NoSelector \notin Selectors
    /\ BadSelectors \subseteq Selectors
    /\ Selects \in [Selectors -> SUBSET Labels]
    /\ MaxAnnotations \in Nat

\* A node group of the specification; custom is its custom-policy annotation.
NodeGroup == [pool: Pools \cup {NoPool, EmptyName}, sel: Selectors \cup {NoSelector},
              custom: BOOLEAN, cfg: Configs, annots: Nat]

Matches(sel, label) == sel \notin BadSelectors /\ label \in Selects[sel]

-----------------------------------------------------------------------------
(* Validation of the specification alone: validation.NodeGroups.           *)

nodeGroupForHypershift(groups) ==
    \A i \in DOMAIN groups : groups[i].sel = NoSelector /\ groups[i].pool # NoPool

nodeGroupsSpecifier(groups) ==
    \A i \in DOMAIN groups : (groups[i].sel = NoSelector) # (groups[i].pool = NoPool)

nodeGroupsValidPoolName(groups) ==
    \A i \in DOMAIN groups : groups[i].pool # EmptyName

nodeGroupsDuplicatesByMCPSelector(groups) ==
    \A i, j \in DOMAIN groups :
        i # j /\ groups[i].sel # NoSelector => groups[i].sel # groups[j].sel

nodeGroupsDuplicatesByPoolName(groups) ==
    \A i, j \in DOMAIN groups :
        i # j /\ groups[i].pool # NoPool => groups[i].pool # groups[j].pool

nodeGroupsValidMachineConfigPoolSelector(groups) ==
    \A i \in DOMAIN groups : groups[i].sel \notin BadSelectors

nodeGroupsAnnotations(groups) ==
    \A i \in DOMAIN groups : groups[i].annots <= MaxAnnotations

ValidNodeGroups(groups) ==
    /\ nodeGroupsSpecifier(groups)
    /\ nodeGroupsValidPoolName(groups)
    /\ nodeGroupsDuplicatesByPoolName(groups)
    /\ nodeGroupsAnnotations(groups)
    /\ Platform = "HyperShift" => nodeGroupForHypershift(groups)
    /\ Platform = "OpenShift" => /\ nodeGroupsDuplicatesByMCPSelector(groups)
                                 /\ nodeGroupsValidMachineConfigPoolSelector(groups)

-----------------------------------------------------------------------------
(* Trees.  mcps maps every pool name to [exists, label, ...]; a tree is    *)
(* the node group it was found for and the pools of that group.  The       *)
(* groups reaching FindTreesOpenshift are validated, so none is skipped    *)
(* for a bad selector.                                                     *)

\* MachineConfigPools FindTreesOpenshift binds to a group.
TreeMCPs(group, mcps) ==
    {p \in Pools : /\ mcps[p].exists
                   /\ \/ group.pool = p
                      \/ group.sel # NoSelector /\ Matches(group.sel, mcps[p].label)}

\* FindTreesOpenshift succeeds iff it finds a pool for every group; it is not
\* called on HyperShift.
TreesFound(groups, mcps) ==
    Platform = "OpenShift" => \A i \in DOMAIN groups : TreeMCPs(groups[i], mcps) # {}

MCPsDuplicates(groups, mcps) ==
    \A i, j \in DOMAIN groups :
        i # j => TreeMCPs(groups[i], mcps) \cap TreeMCPs(groups[j], mcps) = {}

\* What validation would accept without looking for pools selected twice.
AnyTrees(groups, mcps) == TRUE

\* NodeGroupsTree, the part that is an error.
ValidTrees(groups, mcps) == Platform = "OpenShift" => MCPsDuplicates(groups, mcps)

\* NodeGroupsTree, the tolerable part: MultipleMCPsPerTree.
MultipleMCPsPerTree(groups, mcps, multi) ==
    /\ Platform = "OpenShift" /\ ~multi
    /\ \E i \in DOMAIN groups : Cardinality(TreeMCPs(groups[i], mcps)) > 1

-----------------------------------------------------------------------------
(* Names.                                                                  *)

\* The DaemonSets the state finders of pkg/objectstate/rte generate for a tree.
TreeDaemonSets(group, mcps) ==
    IF Platform = "OpenShift" THEN TreeMCPs(group, mcps) ELSE {group.pool}

ManagedDaemonSets(groups, mcps) ==
    UNION {TreeDaemonSets(groups[i], mcps) : i \in DOMAIN groups}

\* buildDaemonSetNames for groups which only give names.
DaemonSetNamesByPool(groups, mcps) == {groups[i].pool : i \in DOMAIN groups} \ {NoPool}

\* The DaemonSets the dangling-object cleaner keeps: buildDaemonSetNames.
buildDaemonSetNames(groups, mcps) ==
    UNION {IF groups[i].pool # NoPool THEN {groups[i].pool} ELSE TreeMCPs(groups[i], mcps)
             : i \in DOMAIN groups}

\* The MachineConfigs DeleteUnusedMachineConfigs keeps.
expectedMachineConfigNames(groups, mcps) ==
    UNION {TreeMCPs(groups[i], mcps) : i \in DOMAIN groups}

\* nodeGroupMatchesMCP, if it looked at the pool name only.
MatchesMCPByName(group, pool, label) == group.pool = pool

\* Whether an event on a MachineConfigPool concerns a node group.
nodeGroupMatchesMCP(group, pool, label) ==
    IF group.pool # NoPool THEN group.pool = pool
    ELSE group.sel # NoSelector /\ Matches(group.sel, label)
=============================================================================
