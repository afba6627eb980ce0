---------------------------- MODULE TreeResults ----------------------------
(***************************************************************************)
(* The outcome of reconciling one tree (one node group with the pools it   *)
(* selects) and the way the outcomes of all the trees are reduced to the   *)
(* one step which decides the operator's conditions and its next wake-up:  *)
(* internal/reconcile/step.go and api/v1/helper/nodegroup/result.go.       *)
(*                                                                         *)
(* A message is an opaque value: ShouldReplaceStep only asks whether two   *)
(* messages differ and whether one is empty.  The counters that            *)
(* treeSummaryMessage prints in front of it are wording and are left out.  *)
(***************************************************************************)
EXTENDS Naturals, FiniteSets

\* An empty condition message.
NoMessage == "none"

\* The condition a step asks for; conditioninfo.Type of the step.
StepTypes == {"Available", "Progressing", "Degraded"}

StepSuccess == [type |-> "Available", after |-> 0, msg |-> NoMessage, failed |-> FALSE]

\* StepOngoing with the delay taken for minutes.
StepOngoingMinutes(after) ==
    [type |-> "Progressing", after |-> 60 * after, msg |-> NoMessage, failed |-> FALSE]

StepOngoing(after) == [type |-> "Progressing", after |-> after, msg |-> NoMessage, failed |-> FALSE]

StepFailed == [type |-> "Degraded", after |-> 0, msg |-> NoMessage, failed |-> TRUE]

\* conditioninfo.WithMessage: a message already there is kept.
WithMessage(step, msg) ==
    IF step.msg = NoMessage THEN [step EXCEPT !.msg = msg] ELSE step

Done(step) == step.type = "Available"

EarlyStop(step) == step.type # "Available"

Ongoing(step) == step.type = "Progressing"

Failed(step) == step.failed

-----------------------------------------------------------------------------

\* What ShouldReplaceStep would be with its requeue comparison reversed.
ShouldReplaceStepByLongest(current, candidate) ==
    \/ Done(current)
    \/ Failed(candidate) /\ ~Failed(current)
    \/ /\ Ongoing(candidate) /\ Ongoing(current)
       /\ candidate.after > current.after

\* What ShouldReplaceStep would be if any later tree displaced the current one.
ShouldReplaceStepAlways(current, candidate) == TRUE

\* Which of two unfinished steps stands for the whole reconciliation.
ShouldReplaceStep(current, candidate) ==
    \/ Done(current)
    \/ Failed(candidate) /\ ~Failed(current)
    \/ /\ Ongoing(candidate) /\ Ongoing(current)
       /\ IF candidate.after # current.after
          THEN candidate.after > 0 /\ candidate.after < current.after
          ELSE candidate.msg # NoMessage /\ candidate.msg # current.msg

\* The accumulator ReducePerTreeResults starts from.
NoResults == [ds |-> {}, mcps |-> {}, paused |-> {}, step |-> StepSuccess]

\* What the reduction would be if it collected the DaemonSets of every tree.
ReduceStepCollectAll(acc, result) ==
    [ds     |-> acc.ds \cup result.ds,
     mcps   |-> acc.mcps \cup result.mcps,
     paused |-> acc.paused \cup result.paused,
     step   |-> IF ~Done(result.step) /\ ShouldReplaceStep(acc.step, result.step)
                THEN result.step ELSE acc.step]

\* One iteration of the loop of ReducePerTreeResults.
ReduceStep(acc, result) ==
    [ds     |-> IF Done(result.step) THEN acc.ds \cup result.ds ELSE acc.ds,
     mcps   |-> acc.mcps \cup result.mcps,
     paused |-> acc.paused \cup result.paused,
     step   |-> IF ~Done(result.step) /\ ShouldReplaceStep(acc.step, result.step)
                THEN result.step ELSE acc.step]
=============================================================================
