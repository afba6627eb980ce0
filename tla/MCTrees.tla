------------------------------ MODULE MCTrees ------------------------------
(***************************************************************************)
(* From node groups to the one step a reconciliation ends with: any node   *)
(* groups over any pools are validated, and if they are accepted every     *)
(* tree found for them is reconciled, in order and with any outcome, and   *)
(* the outcomes are reduced one at a time.                                 *)
(***************************************************************************)
EXTENDS MCNodeGroups, TreeResults, SequencesExt

VARIABLES results,      \* the outcomes of the trees reconciled so far
          acc           \* their reduction
treeVars == <<groups, mcps, results, acc>>

\* A tree whose pool p is pending: the pools before p were looked at, and the others
\* may be paused.
Updating(pools, p) ==
    UNION {{[ds |-> {}, mcps |-> M, paused |-> P, step |-> WithMessage(StepOngoing(60), p)]
              : P \in SUBSET (pools \ {p})}
             : M \in {N \in SUBSET pools : p \in N}}

\* What reconcilePerTreeMachineConfig and reconcilePerTreeDaemonSet may return for a
\* tree with these pools: complete, some pools paused (no delay), a pool pending
\* (60 s), a DaemonSet not ready (5 s), or a failure of either.  The paused pools
\* are reported also when the machine config of another one fails or is pending.
Outcomes(pools) ==
    {[ds |-> pools, mcps |-> pools, paused |-> {}, step |-> StepSuccess],
     [ds |-> pools, mcps |-> pools, paused |-> {}, step |-> StepFailed]}
    \cup {[ds |-> {}, mcps |-> {}, paused |-> P, step |-> StepFailed]
            : P \in (SUBSET pools) \ {pools}}
    \cup {[ds |-> {}, mcps |-> pools, paused |-> P, step |-> StepOngoing(0)]
            : P \in (SUBSET pools) \ {{}}}
    \cup {[ds |-> pools, mcps |-> pools, paused |-> {}, step |-> WithMessage(StepOngoing(5), p)]
            : p \in pools}
    \cup UNION {Updating(pools, p) : p \in pools}

TreesInit == Init /\ results = <<>> /\ acc = NoResults

\* The specification and the cluster before the reconciliation.  Node groups that
\* are not valid stay so whatever is added, so they are not extended further.
Configure ==
    /\ results = <<>>
    /\ \/ ValidNodeGroups(groups) /\ \E g \in Groups : AddGroup(g)
       \/ \E p \in Pools, e \in BOOLEAN, l \in Labels : SetPool(p, e, l)
    /\ UNCHANGED <<results, acc>>

\* The next tree is reconciled.
ReconcileTree ==
    /\ Accepted /\ Len(results) < Len(groups)
    /\ \E r \in Outcomes(TreeDaemonSets(groups[Len(results) + 1], mcps)) :
         /\ results' = Append(results, r)
         /\ acc' = ReduceStep(acc, r)
    /\ UNCHANGED <<groups, mcps>>

TreesNext == Configure \/ ReconcileTree

TreesSpec == TreesInit /\ [][TreesNext]_treeVars

-----------------------------------------------------------------------------
Steps == {r.step : r \in ToSet(results)}

Waits == {s.after : s \in {x \in Steps : Ongoing(x)}}

\* The reduction is a failure iff some tree failed, complete iff every tree is
\* complete, and otherwise still progressing, whatever the order of the trees
\* (result.go ReducePerTreeResults).
OutcomeIsWorst ==
    /\ Failed(acc.step) <=> \E s \in Steps : Failed(s)
    /\ Done(acc.step) <=> \A s \in Steps : Done(s)
    /\ Ongoing(acc.step) <=> /\ \E s \in Steps : Ongoing(s)
                             /\ \A s \in Steps : ~Failed(s)

\* The DaemonSets reported in the status are those the cleaner keeps for the
\* completed trees and no other: with every tree complete, all that
\* buildDaemonSetNames expects; paused pools are reported for every tree
\* (result.go ReducePerTreeResults against dangling.go).
OnlyCompletedTreesReported ==
    LET done == {i \in DOMAIN results : Done(results[i].step)}
    IN  /\ acc.ds = UNION {buildDaemonSetNames(<<groups[i]>>, mcps) : i \in done}
        /\ acc.paused = UNION {r.paused : r \in ToSet(results)}
        /\ done = DOMAIN groups => acc.ds = buildDaemonSetNames(groups, mcps)

\* When no tree waits without a delay, the operator comes back after the
\* shortest delay any of its trees asked for (result.go ShouldReplaceStep).
ShortestWaitWins ==
    Ongoing(acc.step) /\ 0 \notin Waits => acc.step.after = Min(Waits)

\* step.go documents StepOngoing as telling the caller "to retry to reconcile
\* after the `after` value": a tree waiting for a delay is polled again, also
\* when another tree waits for its pool to be unpaused.
DelayedTreeIsPolled ==
    Ongoing(acc.step) /\ Waits # {0} => acc.step.after > 0
=============================================================================
