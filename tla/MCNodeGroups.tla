--------------------------- MODULE MCNodeGroups ---------------------------
(***************************************************************************)
(* Edits of the node groups and of the MachineConfigPools in any order.    *)
(* Every combination is reached; the invariants relate what validation,    *)
(* the tree finder, the cleaner and the event mapping make of each.        *)
(***************************************************************************)
EXTENDS NodeGroups

CONSTANTS MaxGroups     \* bound on the number of node groups

VARIABLES groups, mcps
vars == <<groups, mcps>>

\* sAB and sA select overlapping labels, sBad is malformed.
MCSelects == [s \in Selectors |-> CASE s = "sA" -> {"a"}
                                    [] s = "sAB" -> {"a", "b"}
                                    [] OTHER -> {}]

Groups == {[pool |-> p, sel |-> s, custom |-> FALSE, cfg |-> "c", annots |-> n] :
             p \in Pools \cup {NoPool, EmptyName}, s \in Selectors \cup {NoSelector},
             n \in {MaxAnnotations, MaxAnnotations + 1}}

Init == /\ groups = <<>>
        /\ mcps = [p \in Pools |-> [exists |-> FALSE, label |-> "none"]]

AddGroup(g) ==
    /\ Len(groups) < MaxGroups
    /\ groups' = Append(groups, g)
    /\ UNCHANGED mcps

SetPool(p, exists, label) ==
    /\ mcps' = [mcps EXCEPT ![p] = [exists |-> exists, label |-> label]]
    /\ UNCHANGED groups

Next == \/ \E g \in Groups : AddGroup(g)
        \/ \E p \in Pools, e \in BOOLEAN, l \in Labels : SetPool(p, e, l)

Spec == Init /\ [][Next]_vars

-----------------------------------------------------------------------------
Accepted == ValidNodeGroups(groups) /\ TreesFound(groups, mcps) /\ ValidTrees(groups, mcps)

\* Node groups that pass validation never share a DaemonSet: no two trees
\* generate the same name, so no two of them overwrite each other's exporter
\* (validation.go NodeGroups, NodeGroupsTree).
NoSharedDaemonSet ==
    Accepted => \A i, j \in DOMAIN groups :
        i # j => TreeDaemonSets(groups[i], mcps) \cap TreeDaemonSets(groups[j], mcps) = {}

\* For accepted node groups the cleaner keeps exactly the DaemonSets that the
\* per-tree reconciliation writes (dangling.go buildDaemonSetNames against the
\* state finders), so cleanup and apply never undo each other.
CleanerAgreesWithWriter ==
    Accepted => buildDaemonSetNames(groups, mcps) = ManagedDaemonSets(groups, mcps)

\* An event on an existing pool is mapped to the operator exactly when the
\* pool belongs to one of the operator's trees (nodeGroupMatchesMCP against
\* FindTreesOpenshift).
EventsFollowTrees ==
    Accepted /\ Platform = "OpenShift" =>
        \A p \in Pools : mcps[p].exists =>
            ((\E i \in DOMAIN groups : p \in TreeMCPs(groups[i], mcps))
             <=> \E i \in DOMAIN groups : nodeGroupMatchesMCP(groups[i], p, mcps[p].label))
=============================================================================
