-------------------------- MODULE SchedulerProofs --------------------------
(***************************************************************************)
(* Proofs about the NUMAResourcesScheduler controller for every set of     *)
(* specifications, any number of nodes and any number of disturbances.     *)
(***************************************************************************)
EXTENDS SchedulerController, TLAPS

-----------------------------------------------------------------------------
(* The operators the actions are built from.                               *)

\* The kinds, and the places where the ConfigMap and the Deployment are applied.
LEMMA OrderFacts ==
    /\ DOMAIN Order = 1 .. 6 /\ Len(Order) = 6
    /\ Kinds = {"sa", "cm", "cluster", "role", "dp", "np"}
    /\ \A i \in 1 .. 6 : /\ Order[i] \in Kinds
                         /\ Order[i] = "cm" <=> i = 2
                         /\ Order[i] = "dp" <=> i = 5
<1>1. DOMAIN Order = 1 .. 6 /\ Len(Order) = 6
  BY DEF Order
<1>2. /\ Order[1] = "sa" /\ Order[2] = "cm" /\ Order[3] = "cluster"
      /\ Order[4] = "role" /\ Order[5] = "dp" /\ Order[6] = "np"
  BY DEF Order
<1>3. \A i \in 1 .. 6 : i = 1 \/ i = 2 \/ i = 3 \/ i = 4 \/ i = 5 \/ i = 6
  OBVIOUS
<1>4. Kinds = {"sa", "cm", "cluster", "role", "dp", "np"}
  BY <1>1, <1>2, <1>3 DEF Kinds
<1> QED
  BY <1>1, <1>2, <1>3, <1>4

LEMMA OrderDistinct ==
    ASSUME NEW i \in DOMAIN Order, NEW j \in DOMAIN Order, i # j
    PROVE  Order[i] # Order[j]
BY DEF Order

\* A specification gives the fields their types.
LEMMA SpecFields ==
    ASSUME NEW spec \in Specs
    PROVE  /\ spec.replicas \in Nat \cup {AutoReplicas} /\ spec.name \in Names \cup {NoName}
           /\ spec.resources \in Resources \cup {NoResources}
           /\ spec.informer \in Informers \cup {NoInformer}
           /\ spec.args \in Args /\ spec.image \in Images
BY SchedAssumption DEF SpecType

\* computeSchedulerReplicas returns a number.
LEMMA ReplicasType ==
    ASSUME NEW spec \in Specs, NEW n \in Nat
    PROVE  computeSchedulerReplicas(spec, n) \in Nat
BY SpecFields DEF computeSchedulerReplicas, MaxSchedulerReplicas

\* Rendering the parameters of a specification into a configuration gives one.
LEMMA RenderType ==
    ASSUME NEW config \in Config, NEW spec \in Specs, NEW n \in Nat
    PROVE  RenderConfig(config, configParamsFromSchedSpec(spec, n)) \in Config
<1>1. Informer(spec) \in Informers
  BY SpecFields DEF Informer, Informers
<1>2. (n > 1) \in BOOLEAN
  OBVIOUS
<1> QED
  BY <1>1, <1>2, SpecFields DEF RenderConfig, configParamsFromSchedSpec, Config

\* The configuration rendered has leader election on for several replicas.
LEMMA RenderElection ==
    ASSUME NEW config, NEW spec, NEW n
    PROVE  RenderConfig(config, configParamsFromSchedSpec(spec, n)).lead = (n > 1)
BY DEF RenderConfig, configParamsFromSchedSpec

\* What is applied is an object of its kind.
LEMMA DesiredType ==
    ASSUME TypeOK, NEW k \in Kinds
    PROVE  Desired(k) \in Objects(k)
<1>1. CASE k = "cm"
  BY <1>1 DEF Desired, Objects, ConfigMap, TypeOK
<1>2. CASE k = "dp"
  <2>1. inst.spec.image \in Images
    BY SpecFields DEF TypeOK, CRType
  <2>2. seen["dp"] \in Deployment \cup {NoObj}
    BY <1>2 DEF TypeOK, Objects
  <2>3. (IF seen["dp"] = NoObj THEN "none" ELSE seen["dp"].available) \in {"none", "no", "yes"}
    BY <2>2 DEF Deployment
  <2> QED
    BY <1>2, <2>1, <2>3 DEF Desired, Objects, Deployment, TypeOK
<1> QED
  BY <1>1, <1>2 DEF Desired, Objects

\* The resource a Reconcile that does not run is left with.
LEMMA NewCRType ==
    ASSUME NEW conds \in Conditions
    PROVE  NewCR(conds) \in CRType
BY SchedAssumption DEF NewCR, CRType, Status

LEMMA ConditionsType == FreshConditions \in Conditions /\ OldConditions \in Conditions
BY DEF FreshConditions, OldConditions, Conditions, StepTypes

\* The steps the controller ends in.
Steps == [type: StepTypes, after: {0, 5}, msg: {NoMessage}, failed: BOOLEAN]

LEMMA StepsType == StepSuccess \in Steps /\ StepFailed \in Steps /\ StepOngoing(5) \in Steps
BY DEF StepSuccess, StepFailed, StepOngoing, Steps, StepTypes

\* No object is there.
LEMMA NothingType == DOMAIN Nothing = Kinds /\ \A k \in Kinds : Nothing[k] = NoObj
BY DEF Nothing

\* What a Reconcile leaves behind.
LEMMA ResetType ==
    ASSUME Reset
    PROVE  /\ pc' = "idle" /\ inst' \in CRType /\ seen' = Nothing
           /\ replicas' = 0 /\ next' = 1 /\ step' \in Steps
BY NewCRType, ConditionsType, StepsType DEF Reset

-----------------------------------------------------------------------------
(* Types.                                                                  *)

\* A disturbance is only taken from a budget that is not used up.
Spent == budget' = budget \/ (budget > 0 /\ budget' \in {0, budget - 1})

LEMMA BudgetStep ==
    ASSUME Next, budget \in 0 .. Budget
    PROVE  budget' \in 0 .. Budget
<1>1. ASSUME Reconcile PROVE Spent
  BY <1>1, Zenon DEF Reconcile, SkipPaused, StartReconcile, ApplyNext, CheckDeployment,
     DegradeStatus, ReportFailure, UpdateStatus, PatchStatus, Disturb, Spent
<1>2. ASSUME Others \/ DeploymentUp PROVE Spent
  BY <1>2, Zenon DEF Others, EditSpec, SetNodes, DeleteObj, ScaleDeployment, EditConfigMap,
     DeploymentDown, DeploymentUp, Disturb, Spent
<1>3. Spent
  BY <1>1, <1>2, Zenon DEF Next, TimerFires, WatchDeliver, Crash, Disturb, Spent
<1> QED
  BY <1>3, SchedAssumption DEF Spent

\* The flags of the workqueue stay flags.
LEMMA FlagsStep ==
    ASSUME Next, queued \in BOOLEAN, timer \in BOOLEAN
    PROVE  queued' \in BOOLEAN /\ timer' \in BOOLEAN
<1>1. ASSUME Reconcile PROVE queued' \in BOOLEAN /\ timer' \in BOOLEAN
  BY <1>1, Zenon DEF Reconcile, SkipPaused, StartReconcile, ApplyNext, CheckDeployment,
     DegradeStatus, ReportFailure, UpdateStatus, PatchStatus
<1>2. ASSUME Others \/ DeploymentUp PROVE queued' \in BOOLEAN /\ timer' \in BOOLEAN
  BY <1>2, Zenon DEF Others, EditSpec, SetNodes, DeleteObj, ScaleDeployment, EditConfigMap,
     DeploymentDown, DeploymentUp, SetObj
<1> QED
  BY <1>1, <1>2, Zenon DEF Next, TimerFires, WatchDeliver, Crash

\* A resource with another status, and with another specification.
LEMMA WithStatus ==
    ASSUME NEW c \in CRType, NEW s \in Status
    PROVE  [c EXCEPT !.status = s] \in CRType
BY DEF CRType

LEMMA WithSpec ==
    ASSUME NEW c \in CRType, NEW s \in Specs, NEW g \in Nat
    PROVE  [c EXCEPT !.spec = s, !.gen = g] \in CRType
BY DEF CRType

\* The conditions of a status stay conditions when the base ones are set,
LEMMA BaseType ==
    ASSUME TypeOK, NEW c \in Conditions, NEW b \in StepTypes
    PROVE  Base(c, b) \in Conditions
<1>1. inst.gen \in Nat
  BY DEF TypeOK, CRType
<1> QED
  BY <1>1 DEF Base, Conditions

\* and when the one on the informer is.
LEMMA InformerConditionType ==
    ASSUME TypeOK, NEW c \in Conditions
    PROVE  updateDedicatedInformerCondition(c) \in Conditions
<1>1. inst.gen \in Nat
  BY DEF TypeOK, CRType
<1>2. \A d \in {"True", "False"} : [c EXCEPT !.dedicated = d, !.dgen = inst.gen] \in Conditions
  BY <1>1 DEF Conditions
<1> QED
  BY <1>2 DEF updateDedicatedInformerCondition

LEMMA WithConds ==
    ASSUME NEW s \in Status, NEW c \in Conditions
    PROVE  [s EXCEPT !.conds = c] \in Status
BY DEF Status

\* The patch of a status is a status.
LEMMA PatchedType ==
    ASSUME TypeOK, NEW s \in Status
    PROVE  [cr EXCEPT !.status = PatchedStatus(s)] \in CRType
<1>1. cr \in CRType /\ cr.status \in Status
  BY DEF TypeOK, CRType
<1>2. PatchedStatus(s) \in Status
  BY <1>1 DEF PatchedStatus, MergeFrom, Status
<1> QED
  BY <1>1, <1>2, WithStatus

\* The resource keeps its type.
LEMMA ResourceStep ==
    ASSUME Next, TypeOK
    PROVE  cr' \in CRType
<1>0. inst.status \in Status /\ inst.status.conds \in Conditions
  BY DEF TypeOK, CRType, Status
<1>1. ASSUME NEW s \in Status, NEW r, NEW a, PatchStatus(s, r, a) PROVE cr' \in CRType
  BY <1>1, PatchedType, Zenon DEF PatchStatus, TypeOK
<1>2. ASSUME DegradeStatus \/ ReportFailure PROVE cr' \in CRType
  <2>1. "Degraded" \in StepTypes /\ step.type \in StepTypes
    BY DEF StepTypes, TypeOK
  <2>2. \A b \in StepTypes : [inst.status EXCEPT !.conds = Base(inst.status.conds, b)] \in Status
    BY <1>0, BaseType, WithConds
  <2> QED
    BY <1>1, <1>2, <2>1, <2>2, Zenon DEF DegradeStatus, ReportFailure
<1>3. ASSUME UpdateStatus PROVE cr' \in CRType
  <2> DEFINE c == Base(updateDedicatedInformerCondition(inst.status.conds), step.type)
  <2>1. c \in Conditions
    BY <1>0, BaseType, InformerConditionType DEF TypeOK
  <2>2. mem.name \in Names
    BY DEF TypeOK, Config
  <2>3. [conds |-> c, name |-> mem.name, dep |-> TRUE] \in Status
    BY <2>1, <2>2 DEF Status
  <2> QED
    BY <1>1, <1>3, <2>3, Zenon DEF UpdateStatus
<1>4. ASSUME NEW spec \in Specs, EditSpec(spec) PROVE cr' \in CRType
  <2>1. cr \in CRType /\ cr.gen \in Nat /\ cr.gen + 1 \in Nat
    BY DEF TypeOK, CRType
  <2>2. PICK g \in {cr.gen, cr.gen + 1} : cr' = [cr EXCEPT !.spec = spec, !.gen = g]
    BY <1>4, Zenon DEF EditSpec
  <2>3. g \in Nat
    BY <2>1
  <2>4. [cr EXCEPT !.spec = spec, !.gen = g] \in CRType
    BY <2>1, <2>3, WithSpec
  <2> QED
    BY <2>2, <2>4
<1> QED
  BY <1>2, <1>3, <1>4, Zenon DEF Next, Reconcile, Others, SkipPaused, StartReconcile, ApplyNext,
     CheckDeployment, TimerFires, WatchDeliver, Crash, SetNodes, DeleteObj, ScaleDeployment,
     EditConfigMap, DeploymentDown, DeploymentUp, SetObj, TypeOK

\* The cached copy and the one Reconcile works on are former resources.
LEMMA CopiesStep ==
    ASSUME Next, TypeOK
    PROVE  view' \in CRType /\ inst' \in CRType
<1>1. view' \in CRType
  BY Zenon DEF Next, Reconcile, Others, SkipPaused, StartReconcile, ApplyNext, CheckDeployment,
     DegradeStatus, ReportFailure, UpdateStatus, PatchStatus, TimerFires, WatchDeliver, Crash,
     EditSpec, SetNodes, DeleteObj, ScaleDeployment, EditConfigMap, DeploymentDown, DeploymentUp,
     SetObj, TypeOK
<1>2. inst' \in CRType
  BY ResetType, Zenon DEF Next, Reconcile, Others, SkipPaused, StartReconcile, ApplyNext,
     CheckDeployment, DegradeStatus, ReportFailure, UpdateStatus, PatchStatus, TimerFires,
     WatchDeliver, Crash, EditSpec, SetNodes, DeleteObj, ScaleDeployment, EditConfigMap,
     DeploymentDown, DeploymentUp, SetObj, locals, TypeOK
<1> QED
  BY <1>1, <1>2

\* A family of objects, one of each kind or none.
Family(f) == DOMAIN f = Kinds /\ \A k \in Kinds : f[k] \in Objects(k) \cup {NoObj}

LEMMA WithObject ==
    ASSUME NEW f, Family(f), NEW k \in Kinds, NEW o \in Objects(k) \cup {NoObj}
    PROVE  Family([f EXCEPT ![k] = o])
BY DEF Family

\* A Deployment or a ConfigMap with one field changed.
LEMMA WithField ==
    /\ \A d \in Deployment, n \in Nat : [d EXCEPT !.replicas = n] \in Deployment
    /\ \A d \in Deployment, a \in {"none", "no", "yes"} : [d EXCEPT !.available = a] \in Deployment
    /\ \A c \in ConfigMap : /\ [c EXCEPT !.extra = TRUE] \in ConfigMap
                            /\ [c EXCEPT !.extra = TRUE].config = c.config
BY DEF Deployment, ConfigMap

\* What others make of an object is an object of its kind.
LEMMA OthersObjects ==
    ASSUME Others \/ DeploymentUp, TypeOK
    PROVE  \/ obj' = obj
           \/ \E k \in Kinds : \E o \in Objects(k) \cup {NoObj} : obj' = [obj EXCEPT ![k] = o]
<1>0. "dp" \in Kinds /\ "cm" \in Kinds
  BY OrderFacts
<1>1. obj["dp"] \in Deployment \cup {NoObj} /\ obj["cm"] \in ConfigMap \cup {NoObj}
  BY <1>0 DEF TypeOK, Objects
<1>2. ASSUME NEW n \in 0 .. MaxNodes, ScaleDeployment(n)
      PROVE  \E o \in Objects("dp") : obj' = [obj EXCEPT !["dp"] = o]
  <2>1. n \in Nat
    BY SchedAssumption
  <2>2. [obj["dp"] EXCEPT !.replicas = n] \in Objects("dp")
    BY <1>1, <1>2, <2>1, WithField DEF ScaleDeployment, Objects
  <2> QED
    BY <1>2, <2>2, Zenon DEF ScaleDeployment, SetObj
<1>3. ASSUME DeploymentUp \/ DeploymentDown
      PROVE  \E o \in Objects("dp") : obj' = [obj EXCEPT !["dp"] = o]
  <2>1. obj["dp"] \in Deployment
    BY <1>1, <1>3 DEF DeploymentUp, DeploymentDown
  <2>2. \A a \in {"no", "yes"} : [obj["dp"] EXCEPT !.available = a] \in Objects("dp")
    BY <2>1, WithField DEF Objects
  <2> QED
    BY <1>3, <2>2, Zenon DEF DeploymentUp, DeploymentDown, SetObj
<1>4. ASSUME EditConfigMap PROVE \E o \in Objects("cm") : obj' = [obj EXCEPT !["cm"] = o]
  <2>1. [obj["cm"] EXCEPT !.extra = TRUE] \in Objects("cm")
    BY <1>1, <1>4, WithField DEF EditConfigMap, Objects
  <2> QED
    BY <1>4, <2>1, Zenon DEF EditConfigMap, SetObj
<1> QED
  BY <1>0, <1>2, <1>3, <1>4, Zenon DEF Others, EditSpec, SetNodes, DeleteObj, SetObj

\* The objects keep their types.
LEMMA ObjectsStep ==
    ASSUME Next, TypeOK
    PROVE  Family(obj')
<1>0. Family(obj)
  BY DEF TypeOK, Family
<1>1. ASSUME ApplyNext PROVE Family(obj')
  <2>1. Order[next] \in Kinds
    BY OrderFacts DEF TypeOK
  <2>2. Desired(Order[next]) \in Objects(Order[next]) \cup {NoObj}
    BY <2>1, DesiredType
  <2>3. obj' = obj \/ obj' = [obj EXCEPT ![Order[next]] = Desired(Order[next])]
    BY <1>1, Zenon DEF ApplyNext
  <2> QED
    BY <1>0, <2>1, <2>2, <2>3, WithObject
<1>2. ASSUME Others \/ DeploymentUp PROVE Family(obj')
  BY <1>0, <1>2, OthersObjects, WithObject
<1>3. ASSUME ~ApplyNext, ~Others, ~DeploymentUp PROVE obj' = obj
  BY <1>3, Zenon DEF Next, Reconcile, SkipPaused, StartReconcile, CheckDeployment, DegradeStatus,
     ReportFailure, UpdateStatus, PatchStatus, TimerFires, WatchDeliver, Crash
<1> QED
  BY <1>0, <1>1, <1>2, <1>3

\* So do the objects read.
LEMMA SeenStep ==
    ASSUME Next, TypeOK
    PROVE  Family(seen')
<1>1. seen' = seen \/ seen' = obj \/ seen' = Nothing
  BY ResetType, Zenon DEF Next, Reconcile, Others, SkipPaused, StartReconcile, ApplyNext,
     CheckDeployment, DegradeStatus, ReportFailure, UpdateStatus, PatchStatus, TimerFires,
     WatchDeliver, Crash, EditSpec, SetNodes, DeleteObj, ScaleDeployment, EditConfigMap,
     DeploymentDown, DeploymentUp, SetObj, locals
<1> QED
  BY <1>1, NothingType DEF TypeOK, Family

\* What Reconcile computes at its start.
LEMMA StartType ==
    ASSUME StartReconcile, TypeOK
    PROVE  mem' \in Config /\ replicas' \in Nat
<1>1. view.spec \in Specs /\ nodes \in Nat
  BY SchedAssumption DEF TypeOK, CRType
<1>2. computeSchedulerReplicas(view.spec, nodes) \in Nat
  BY <1>1, ReplicasType
<1>3. RenderConfig(mem, configParamsFromSchedSpec(view.spec, computeSchedulerReplicas(view.spec, nodes)))
        \in Config
  BY <1>1, <1>2, RenderType DEF TypeOK
<1> QED
  BY <1>2, <1>3, Zenon DEF StartReconcile, TypeOK

LEMMA BuiltinType == BuiltinConfig \in Config
BY SchedAssumption DEF BuiltinConfig, Config

\* The number of nodes, the manifests and the other locals keep their types.
LEMMA LocalsStep ==
    ASSUME Next, TypeOK
    PROVE  /\ nodes' \in 0 .. MaxNodes /\ mem' \in Config /\ replicas' \in Nat
           /\ next' \in DOMAIN Order /\ step' \in Steps
           /\ pc' \in {"idle", "apply", "check", "status", "degrade", "failed"}
<1>1. nodes' \in 0 .. MaxNodes
  BY Zenon DEF Next, Reconcile, Others, SkipPaused, StartReconcile, ApplyNext, CheckDeployment,
     DegradeStatus, ReportFailure, UpdateStatus, PatchStatus, TimerFires, WatchDeliver, Crash,
     EditSpec, SetNodes, DeleteObj, ScaleDeployment, EditConfigMap, DeploymentDown, DeploymentUp,
     SetObj, TypeOK
<1>2. mem' \in Config /\ replicas' \in Nat
  <2>1. 0 \in Nat
    OBVIOUS
  <2> QED
    BY <2>1, StartType, BuiltinType, ResetType, Zenon DEF Next, Reconcile, Others, SkipPaused,
       ApplyNext, CheckDeployment, DegradeStatus, ReportFailure, UpdateStatus, PatchStatus,
       TimerFires, WatchDeliver, Crash, EditSpec, SetNodes, DeleteObj, ScaleDeployment,
       EditConfigMap, DeploymentDown, DeploymentUp, SetObj, locals, TypeOK
<1>3. next' \in DOMAIN Order
  <2>1. ASSUME ApplyNext PROVE next' \in DOMAIN Order
    <3>1. next' = next \/ (next < Len(Order) /\ next' = next + 1)
      BY <2>1, Zenon DEF ApplyNext
    <3> QED
      BY <3>1, OrderFacts DEF TypeOK
  <2>2. 1 \in DOMAIN Order
    BY OrderFacts
  <2> QED
    BY <2>1, <2>2, ResetType, Zenon DEF Next, Reconcile, Others, SkipPaused, StartReconcile,
       CheckDeployment, DegradeStatus, ReportFailure, UpdateStatus, PatchStatus, TimerFires,
       WatchDeliver, Crash, EditSpec, SetNodes, DeleteObj, ScaleDeployment, EditConfigMap,
       DeploymentDown, DeploymentUp, SetObj, locals, TypeOK
<1>4. step' \in Steps
  <2>1. step \in Steps
    BY DEF TypeOK, Steps
  <2> QED
    BY <2>1, StepsType, ResetType, Zenon DEF Next, Reconcile, Others, SkipPaused, StartReconcile,
       ApplyNext, CheckDeployment, DegradeStatus, ReportFailure, UpdateStatus, PatchStatus,
       TimerFires, WatchDeliver, Crash, EditSpec, SetNodes, DeleteObj, ScaleDeployment,
       EditConfigMap, DeploymentDown, DeploymentUp, SetObj, locals
<1>5. pc' \in {"idle", "apply", "check", "status", "degrade", "failed"}
  BY ResetType, Zenon DEF Next, Reconcile, Others, SkipPaused, StartReconcile, ApplyNext,
     CheckDeployment, DegradeStatus, ReportFailure, UpdateStatus, PatchStatus, TimerFires,
     WatchDeliver, Crash, EditSpec, SetNodes, DeleteObj, ScaleDeployment, EditConfigMap,
     DeploymentDown, DeploymentUp, SetObj, locals, TypeOK
<1> QED
  BY <1>1, <1>2, <1>3, <1>4, <1>5

\* The initial state is typed.
LEMMA InitType ==
    ASSUME Init
    PROVE  TypeOK
<1>1. cr \in CRType /\ view \in CRType /\ inst \in CRType
  BY NewCRType, ConditionsType DEF Init
<1>2. Family(obj) /\ Family(seen)
  BY NothingType DEF Init, Family
<1>3. mem \in Config /\ step \in Steps
  BY BuiltinType, StepsType DEF Init
<1>4. nodes \in 0 .. MaxNodes /\ budget \in 0 .. Budget /\ replicas \in Nat /\ next \in DOMAIN Order
  BY SchedAssumption, OrderFacts DEF Init
<1>5. queued \in BOOLEAN /\ timer \in BOOLEAN /\ pc = "idle"
  BY DEF Init
<1> QED
  BY <1>1, <1>2, <1>3, <1>4, <1>5 DEF TypeOK, Family, Steps

LEMMA TypeStep ==
    ASSUME TypeOK, [Next]_vars
    PROVE  TypeOK'
<1>1. CASE Next
  <2>1. queued' \in BOOLEAN /\ timer' \in BOOLEAN /\ budget' \in 0 .. Budget
    BY <1>1, FlagsStep, BudgetStep DEF TypeOK
  <2>2. Family(obj') /\ Family(seen')
    BY <1>1, ObjectsStep, SeenStep
  <2> QED
    BY <1>1, <2>1, <2>2, ResourceStep, CopiesStep, LocalsStep DEF TypeOK, Family, Steps
<1>2. CASE UNCHANGED vars
  BY <1>2 DEF vars, locals, TypeOK, Desired
<1> QED
  BY <1>1, <1>2

\* Every variable of the controller keeps its type, whatever is edited, fails or
\* restarts between the steps of Reconcile.
THEOREM TypeCorrect == Spec => []TypeOK
<1>1. Init => TypeOK
  BY InitType
<1>2. TypeOK /\ [Next]_vars => TypeOK'
  BY TypeStep
<1> QED
  BY <1>1, <1>2, PTL DEF Spec

-----------------------------------------------------------------------------
(* Leader election.                                                        *)

\* What the property needs of every state: between reconciliations the next
\* object is the first one.  While objects are applied, the manifests in memory
\* agree with the replicas; the ConfigMap, if there is one, has the configuration
\* that was read until it is applied, and the one in memory from then on.
ElectionInv ==
    /\ pc = "idle" => next = 1
    /\ pc = "apply" => (mem.lead <=> replicas > 1)
    /\ pc = "apply" /\ next \in {1, 2} /\ obj["cm"] # NoObj =>
         seen["cm"] # NoObj /\ obj["cm"].config = seen["cm"].config
    /\ pc = "apply" /\ next \notin {1, 2} /\ obj["cm"] # NoObj => obj["cm"].config = mem

\* Others delete the ConfigMap or add data to it: they leave the configuration.
LEMMA OthersKeepConfig ==
    ASSUME Others \/ DeploymentUp, TypeOK
    PROVE  /\ obj'["cm"] # NoObj => obj["cm"] # NoObj /\ obj'["cm"].config = obj["cm"].config
           /\ UNCHANGED <<mem, locals>>
<1>0. "dp" \in Kinds /\ "cm" \in Kinds /\ "dp" # "cm"
  BY OrderFacts
<1>1. DOMAIN obj = Kinds
  BY DEF TypeOK
<1>2. UNCHANGED <<mem, locals>>
  BY Zenon DEF Others, EditSpec, SetNodes, DeleteObj, ScaleDeployment, EditConfigMap,
     DeploymentDown, DeploymentUp, SetObj
<1>3. \/ obj' = obj
      \/ \E k \in Kinds : obj' = [obj EXCEPT ![k] = NoObj]
      \/ \E o : obj' = [obj EXCEPT !["dp"] = o]
      \/ obj["cm"] # NoObj /\ obj' = [obj EXCEPT !["cm"] = [obj["cm"] EXCEPT !.extra = TRUE]]
  BY Zenon DEF Others, EditSpec, SetNodes, DeleteObj, ScaleDeployment, EditConfigMap,
     DeploymentDown, DeploymentUp, SetObj
<1>4. \/ obj'["cm"] = obj["cm"]
      \/ obj'["cm"] = NoObj
      \/ obj["cm"] # NoObj /\ obj'["cm"] = [obj["cm"] EXCEPT !.extra = TRUE]
  <2>1. ASSUME NEW k \in Kinds, obj' = [obj EXCEPT ![k] = NoObj]
        PROVE  obj'["cm"] = obj["cm"] \/ obj'["cm"] = NoObj
    BY <1>0, <1>1, <2>1
  <2>2. ASSUME NEW o, obj' = [obj EXCEPT !["dp"] = o] PROVE obj'["cm"] = obj["cm"]
    BY <1>0, <1>1, <2>2
  <2>3. ASSUME NEW o, obj' = [obj EXCEPT !["cm"] = o] PROVE obj'["cm"] = o
    BY <1>0, <1>1, <2>3
  <2> QED
    BY <1>3, <2>1, <2>2, <2>3, Zenon
<1>5. obj["cm"] # NoObj => [obj["cm"] EXCEPT !.extra = TRUE].config = obj["cm"].config
  <2>1. obj["cm"] # NoObj => obj["cm"] \in ConfigMap
    BY <1>0 DEF TypeOK, Objects
  <2> QED
    BY <2>1, WithField
<1> QED
  BY <1>2, <1>4, <1>5, Zenon

\* Applying an object keeps the invariant.
LEMMA ApplyKeepsElection ==
    ASSUME ApplyNext, TypeOK, ElectionInv
    PROVE  ElectionInv'
<1> DEFINE k == Order[next]
<1>0. k \in Kinds /\ (k = "cm" <=> next = 2) /\ next \in 1 .. 6 /\ Len(Order) = 6 /\ "cm" \in Kinds
  BY OrderFacts DEF TypeOK
<1>1. CASE pc' = "failed"
  BY <1>1 DEF ElectionInv
<1>2. CASE pc' # "failed"
  <2>1. /\ pc = "apply"
        /\ obj[k] = seen[k] \/ Desired(k) = seen[k]
        /\ obj' = IF obj[k] = seen[k] THEN [obj EXCEPT ![k] = Desired(k)] ELSE obj
        /\ next' = IF next < Len(Order) THEN next + 1 ELSE next
        /\ pc' = IF next < Len(Order) THEN "apply" ELSE "check"
        /\ mem' = mem /\ seen' = seen /\ replicas' = replicas
    BY <1>2, Zenon DEF ApplyNext
  <2>2. pc' # "idle"
    BY <2>1
  <2>3. mem'.lead <=> replicas' > 1
    BY <2>1 DEF ElectionInv
  <2>4. CASE next = 1
    <3>1. next' = 2
      BY <1>0, <2>1, <2>4
    <3>2. obj'["cm"] = obj["cm"]
      BY <1>0, <2>1, <2>4 DEF TypeOK
    <3> QED
      BY <2>1, <2>2, <2>3, <2>4, <3>1, <3>2 DEF ElectionInv
  <2>5. CASE next = 2
    <3>1. next' = 3
      BY <1>0, <2>1, <2>5
    <3>2. Desired("cm") = [config |-> mem, extra |-> FALSE]
      BY DEF Desired
    <3>3. obj'["cm"] # NoObj => obj'["cm"].config = mem
      <4>1. CASE obj["cm"] = seen["cm"]
        <5>1. obj'["cm"] = Desired("cm")
          BY <1>0, <2>1, <2>5, <4>1 DEF TypeOK
        <5> QED
          BY <5>1, <3>2
      <4>2. CASE obj["cm"] # seen["cm"]
        <5>1. obj' = obj /\ seen["cm"] = Desired("cm")
          BY <1>0, <2>1, <2>5, <4>2
        <5>2. seen["cm"].config = mem
          BY <3>2, <5>1
        <5> QED
          BY <2>1, <2>5, <5>1, <5>2 DEF ElectionInv
      <4> QED
        BY <4>1, <4>2
    <3> QED
      BY <2>1, <2>2, <2>3, <3>1, <3>3 DEF ElectionInv
  <2>6. CASE next \notin {1, 2}
    <3>1. next' \notin {1, 2}
      BY <1>0, <2>1, <2>6
    <3>2. obj'["cm"] = obj["cm"]
      BY <1>0, <2>1, <2>6 DEF TypeOK
    <3> QED
      BY <2>1, <2>2, <2>3, <2>6, <3>1, <3>2 DEF ElectionInv
  <2> QED
    BY <2>4, <2>5, <2>6
<1> QED
  BY <1>1, <1>2

\* Starting a reconciliation establishes what it is about.
LEMMA StartEstablishesElection ==
    ASSUME StartReconcile, TypeOK, ElectionInv
    PROVE  ElectionInv'
<1>1. next' = 1 /\ pc' # "idle"
  BY Zenon DEF StartReconcile, ElectionInv
<1>2. ASSUME pc' = "apply"
      PROVE  /\ seen' = obj /\ obj' = obj
             /\ \E spec, n : /\ replicas' = n
                             /\ mem' = RenderConfig(mem, configParamsFromSchedSpec(spec, n))
  BY <1>2, Zenon DEF StartReconcile
<1>3. pc' = "apply" => (mem'.lead <=> replicas' > 1)
  BY <1>2, RenderElection
<1> QED
  BY <1>1, <1>2, <1>3 DEF ElectionInv

LEMMA ElectionInvStep ==
    ASSUME TypeOK, ElectionInv, [Next]_vars
    PROVE  ElectionInv'
<1>1. CASE StartReconcile
  BY <1>1, StartEstablishesElection
<1>2. CASE ApplyNext
  BY <1>2, ApplyKeepsElection
<1>3. CASE CheckDeployment
  BY <1>3 DEF CheckDeployment, ElectionInv
<1>4. CASE DegradeStatus \/ ReportFailure \/ UpdateStatus \/ Crash
  <2>1. Reset
    BY <1>4, Zenon DEF DegradeStatus, ReportFailure, UpdateStatus, PatchStatus, Crash
  <2> QED
    BY <2>1 DEF Reset, ElectionInv
<1>5. CASE Others \/ DeploymentUp
  BY <1>5, OthersKeepConfig DEF locals, ElectionInv
<1>6. CASE SkipPaused \/ TimerFires \/ WatchDeliver \/ UNCHANGED vars
  <2>1. UNCHANGED <<obj, mem, locals>>
    BY <1>6, Zenon DEF SkipPaused, TimerFires, WatchDeliver, vars
  <2> QED
    BY <2>1 DEF locals, ElectionInv
<1> QED
  BY <1>1, <1>2, <1>3, <1>4, <1>5, <1>6, Zenon DEF Next, Reconcile

\* Only a successful apply advances, and at the Deployment it writes the manifest.
LEMMA ElectionStepHolds ==
    ASSUME TypeOK, ElectionInv, [Next]_vars
    PROVE  ElectionStep
<1> SUFFICES ASSUME next' > next, Order[next] = "dp", obj' # obj
             PROVE  LET dp == obj'["dp"]
                    IN  /\ dp.hash.lead <=> dp.replicas > 1
                        /\ obj["cm"] # NoObj => obj["cm"].config = dp.hash
  BY DEF ElectionStep
<1>0. next = 5 /\ "dp" \in Kinds /\ DOMAIN obj = Kinds
  BY OrderFacts DEF TypeOK
<1>1. next' # next /\ next' # 1
  BY <1>0
<1>2. ApplyNext
  <2>1. ASSUME Reset PROVE FALSE
    BY <1>1, <2>1 DEF Reset
  <2> QED
    BY <1>1, <2>1, OthersKeepConfig, Zenon DEF Next, Reconcile, SkipPaused, StartReconcile,
       CheckDeployment, DegradeStatus, ReportFailure, UpdateStatus, PatchStatus, TimerFires,
       WatchDeliver, Crash, locals, vars
<1>3. pc = "apply" /\ obj' = [obj EXCEPT !["dp"] = Desired("dp")]
  BY <1>2, Zenon DEF ApplyNext
<1>4. obj'["dp"] = Desired("dp")
  BY <1>0, <1>3
<1>5. obj'["dp"].hash = mem /\ obj'["dp"].replicas = replicas
  BY <1>4 DEF Desired
<1> QED
  BY <1>0, <1>3, <1>5 DEF ElectionInv

\* A Deployment is only ever written with leader election on exactly when it has
\* several replicas, and with the hash of the configuration then in the ConfigMap,
\* for every sequence of specifications, restarts, conflicts, deletions and edits
\* by others that leave the configuration key of the ConfigMap alone
\* (syncNUMASchedulerResources).
THEOREM ElectionTheorem == Spec => ElectedReplicas
<1>1. Init => ElectionInv
  BY DEF Init, ElectionInv
<1>2. TypeOK /\ ElectionInv /\ [Next]_vars => ElectionInv'
  BY ElectionInvStep
<1>3. TypeOK /\ ElectionInv /\ [Next]_vars => [ElectionStep]_vars
  BY ElectionStepHolds
<1> QED
  BY <1>1, <1>2, <1>3, TypeCorrect, PTL DEF Spec, ElectedReplicas

-----------------------------------------------------------------------------
(* Wake-ups.                                                               *)

Working == pc \in {"apply", "check", "status"}

\* An object that has been applied is as it was applied, but for what changes
\* without an event.
Applied(k) ==
    /\ obj[k] # NoObj
    /\ k = "cm" => obj[k].config = mem
    /\ k = "dp" => /\ obj[k].replicas = replicas /\ obj[k].hash = mem
                   /\ obj[k].image = inst.spec.image

\* One that has not is as it was read, but for what changes without an event.
Unspoiled(k) ==
    seen[k] # NoObj =>
        /\ obj[k] # NoObj
        /\ k = "cm" => obj[k].config = seen[k].config
        /\ k = "dp" => /\ obj[k].replicas = seen[k].replicas /\ obj[k].hash = seen[k].hash
                       /\ obj[k].image = seen[k].image

\* The operator will not be woken by anything that has happened.
Quiet == pc = "idle" /\ ~queued /\ ~timer /\ view.status = cr.status /\ ~view.spec.pause

\* The copy of the resource is true of the objects and of its own specification.
Deployed ==
    LET config == obj["cm"].config
        n == computeSchedulerReplicas(view.spec, nodes)
    IN  /\ \A k \in Watched : obj[k] # NoObj
        /\ ~ReplicasError(view.spec, nodes)
        /\ obj["dp"].replicas = n /\ obj["dp"].hash = config /\ obj["dp"].image = view.spec.image
        /\ RenderConfig(config, configParamsFromSchedSpec(view.spec, n)) = config

Reported(status, name) ==
    /\ status.conds.base = "Available" /\ status.dep /\ status.name = name
    /\ \/ status.conds.dedicated = "Missing"
       \/ /\ status.conds.dgen = view.gen
          /\ status.conds.dedicated = IF Informer(view.spec) = "Dedicated" THEN "True" ELSE "False"

Settled ==
    /\ view.status.conds.gen = view.gen
    /\ view.spec.image \notin ValidImages => view.status.conds.base = "Degraded"
    /\ view.spec.image \in ValidImages => Deployed /\ Reported(view.status, obj["cm"].config.name)

\* What no lost wake-up needs of every state.  Without a request in the workqueue
\* a running Reconcile works on the cached copy of the resource, its replicas are
\* those the nodes allow, and the objects are as it applied or as it read them.
WakeInv ==
    /\ pc # "idle" /\ ~queued => inst = view
    /\ pc = "degrade" => inst.spec.image \notin ValidImages
    /\ Working => /\ inst.spec.image \in ValidImages
                  /\ RenderConfig(mem, configParamsFromSchedSpec(inst.spec, replicas)) = mem
    /\ Working /\ ~queued =>
         /\ ~ReplicasError(inst.spec, nodes)
         /\ replicas = computeSchedulerReplicas(inst.spec, nodes)
         /\ \A i \in DOMAIN Order : Order[i] \in Watched =>
              IF pc = "apply" /\ i >= next THEN Unspoiled(Order[i]) ELSE Applied(Order[i])
    /\ pc = "status" => step = StepSuccess \/ Failed(step) \/ step.after > 0
    /\ Quiet => Settled

\* What a change without an event leaves of an object.
Keeps(k) ==
    obj[k] # NoObj =>
        /\ obj'[k] # NoObj
        /\ k = "cm" => obj'[k].config = obj[k].config
        /\ k = "dp" => /\ obj'[k].replicas = obj[k].replicas /\ obj'[k].hash = obj[k].hash
                       /\ obj'[k].image = obj[k].image

LEMMA WatchedFacts == Watched \subseteq Kinds /\ "cm" \in Watched /\ "dp" \in Watched
BY OrderFacts DEF Watched

\* Everything others do is an event, except what leaves the fields the operator
\* sets alone; nodes changing their role are left out.
LEMMA SilentOthers ==
    ASSUME TypeOK, Others \/ DeploymentUp, "relabel" \notin Disturbances, ~queued'
    PROVE  /\ ~queued /\ nodes' = nodes /\ cr'.status = cr.status
           /\ UNCHANGED <<view, mem, timer, locals>>
           /\ \A k \in Watched : Keeps(k)
<1>0. queued \in BOOLEAN /\ DOMAIN obj = Kinds /\ cr \in CRType
  BY DEF TypeOK
<1>1. ~queued /\ UNCHANGED <<view, mem, timer, locals>>
  <2>1. UNCHANGED <<view, mem, timer, locals>>
    BY Zenon DEF Others, EditSpec, SetNodes, DeleteObj, ScaleDeployment, EditConfigMap,
       DeploymentDown, DeploymentUp, SetObj
  <2>2. ~queued
    BY Zenon DEF Others, EditSpec, SetNodes, DeleteObj, ScaleDeployment, EditConfigMap,
       DeploymentDown, DeploymentUp, SetObj
  <2> QED
    BY <2>1, <2>2
<1>2. nodes' = nodes
  BY Zenon DEF Others, EditSpec, SetNodes, DeleteObj, ScaleDeployment, EditConfigMap,
     DeploymentDown, DeploymentUp, SetObj, Disturb
<1>3. cr'.status = cr.status
  <2>1. cr' = cr \/ \E s, g : cr' = [cr EXCEPT !.spec = s, !.gen = g]
    BY Zenon DEF Others, EditSpec, SetNodes, DeleteObj, ScaleDeployment, EditConfigMap,
       DeploymentDown, DeploymentUp, SetObj
  <2>2. \A s, g : [cr EXCEPT !.spec = s, !.gen = g].status = cr.status
    BY <1>0 DEF CRType
  <2> QED
    BY <2>1, <2>2
<1>4. \/ obj' = obj
      \/ \E k \in Kinds \ Watched : obj' = [obj EXCEPT ![k] = NoObj]
      \/ obj["cm"] # NoObj /\ obj' = [obj EXCEPT !["cm"] = [obj["cm"] EXCEPT !.extra = TRUE]]
      \/ obj["dp"] # NoObj /\ \E a \in {"yes", "no"} :
           obj' = [obj EXCEPT !["dp"] = [obj["dp"] EXCEPT !.available = a]]
  BY <1>1, Zenon DEF Others, EditSpec, SetNodes, DeleteObj, ScaleDeployment, EditConfigMap,
     DeploymentDown, DeploymentUp, SetObj
<1>5. ASSUME NEW k \in Watched PROVE Keeps(k)
  <2>0. k \in Kinds /\ "cm" \in Kinds /\ "dp" \in Kinds /\ "cm" # "dp"
    BY WatchedFacts
  <2>1. CASE obj' = obj
    BY <2>1 DEF Keeps
  <2>2. ASSUME NEW j \in Kinds \ Watched, obj' = [obj EXCEPT ![j] = NoObj] PROVE Keeps(k)
    <3>1. obj'[k] = obj[k]
      BY <1>0, <2>0, <2>2
    <3> QED
      BY <3>1 DEF Keeps
  <2>3. CASE obj["cm"] # NoObj /\ obj' = [obj EXCEPT !["cm"] = [obj["cm"] EXCEPT !.extra = TRUE]]
    <3>1. obj["cm"] \in ConfigMap
      BY <2>0, <2>3 DEF TypeOK, Objects
    <3>2. [obj["cm"] EXCEPT !.extra = TRUE] \in ConfigMap
          /\ [obj["cm"] EXCEPT !.extra = TRUE].config = obj["cm"].config
      BY <3>1, WithField
    <3>3. obj'["cm"] = [obj["cm"] EXCEPT !.extra = TRUE] /\ (k # "cm" => obj'[k] = obj[k])
      BY <1>0, <2>0, <2>3
    <3>4. obj'["cm"] # NoObj /\ obj'["cm"].config = obj["cm"].config
      BY <3>2, <3>3, SchedAssumption
    <3> QED
      BY <2>0, <3>3, <3>4 DEF Keeps
  <2>4. ASSUME NEW a \in {"yes", "no"}, obj["dp"] # NoObj,
               obj' = [obj EXCEPT !["dp"] = [obj["dp"] EXCEPT !.available = a]]
        PROVE  Keeps(k)
    <3>1. obj["dp"] \in Deployment
      BY <2>0, <2>4 DEF TypeOK, Objects
    <3> DEFINE d == [obj["dp"] EXCEPT !.available = a]
    <3>2. d \in Deployment /\ d.replicas = obj["dp"].replicas /\ d.hash = obj["dp"].hash
          /\ d.image = obj["dp"].image
      BY <3>1 DEF Deployment
    <3>3. obj'["dp"] = d /\ (k # "dp" => obj'[k] = obj[k])
      BY <1>0, <2>0, <2>4
    <3> HIDE DEF d
    <3>4. obj'["dp"] # NoObj
      BY <3>2, <3>3, SchedAssumption
    <3> QED
      BY <2>0, <3>2, <3>3, <3>4 DEF Keeps
  <2> QED
    BY <1>4, <2>1, <2>2, <2>3, <2>4, Zenon
<1> QED
  BY <1>1, <1>2, <1>3, <1>5

\* With a request in the workqueue only what a Reconcile knows by itself counts.
LEMMA QueuedKeeps ==
    ASSUME WakeInv, UNCHANGED <<mem, locals>>, queued' = TRUE
    PROVE  WakeInv'
BY DEF WakeInv, locals, Working, Quiet

LEMMA ResetQueued ==
    ASSUME Reset, queued' = TRUE
    PROVE  WakeInv'
BY DEF WakeInv, Reset, Working, Quiet

\* Without one, changes that are not events do not matter.
LEMMA SilentKeeps ==
    ASSUME WakeInv, ~queued, ~queued', nodes' = nodes, cr'.status = cr.status,
           UNCHANGED <<view, mem, timer, locals>>, \A k \in Watched : Keeps(k)
    PROVE  WakeInv'
<1>0. /\ view' = view /\ mem' = mem /\ timer' = timer /\ pc' = pc /\ inst' = inst
      /\ seen' = seen /\ replicas' = replicas /\ next' = next /\ step' = step
  BY DEF locals
<1>1. ASSUME NEW k \in Watched PROVE Applied(k) => Applied(k)'
  <2>1. Keeps(k)
    OBVIOUS
  <2> QED
    BY <1>0, <2>1 DEF Applied, Keeps
<1>2. ASSUME NEW k \in Watched PROVE Unspoiled(k) => Unspoiled(k)'
  <2>1. Keeps(k)
    OBVIOUS
  <2> QED
    BY <1>0, <2>1 DEF Unspoiled, Keeps
<1>3. Quiet' => Quiet
  BY <1>0 DEF Quiet
<1>4. Deployed => Deployed' /\ obj'["cm"].config = obj["cm"].config
  <2>1. Keeps("cm") /\ Keeps("dp") /\ \A k \in Watched : obj[k] # NoObj => obj'[k] # NoObj
    BY WatchedFacts DEF Keeps
  <2>2. "cm" \in Watched /\ "dp" \in Watched /\ "cm" # "dp"
    BY WatchedFacts
  <2> QED
    BY <1>0, <2>1, <2>2 DEF Deployed, Keeps
<1>5. Settled => Settled'
  BY <1>0, <1>4 DEF Settled, Reported
<1> QED
  BY <1>0, <1>1, <1>2, <1>3, <1>5 DEF WakeInv, Working

\* Rendering the same parameters twice changes nothing more.
LEMMA RenderTwice ==
    ASSUME NEW config, NEW params
    PROVE  RenderConfig(RenderConfig(config, params), params) = RenderConfig(config, params)
BY DEF RenderConfig

LEMMA StartKeepsWake ==
    ASSUME TypeOK, ElectionInv, WakeInv, StartReconcile
    PROVE  WakeInv'
<1>1. /\ inst' = view /\ view' = view /\ obj' = obj /\ nodes' = nodes /\ next' = next
      /\ pc' \in {"degrade", "failed", "apply"}
  BY Zenon DEF StartReconcile
<1>2. CASE pc' = "degrade"
  <2>1. view.spec.image \notin ValidImages
    BY <1>2, Zenon DEF StartReconcile
  <2> QED
    BY <1>1, <1>2, <2>1 DEF WakeInv, Working, Quiet
<1>3. CASE pc' = "failed"
  BY <1>1, <1>3 DEF WakeInv, Working, Quiet
<1>4. CASE pc' = "apply"
  <2> DEFINE n == computeSchedulerReplicas(view.spec, nodes)
             params == configParamsFromSchedSpec(view.spec, n)
  <2>1. /\ view.spec.image \in ValidImages /\ ~ReplicasError(view.spec, nodes)
        /\ replicas' = n /\ mem' = RenderConfig(mem, params) /\ seen' = obj
    BY <1>4, Zenon DEF StartReconcile
  <2>2. RenderConfig(mem', params) = mem'
    BY <2>1, RenderTwice
  <2>3. \A i \in DOMAIN Order : i >= next'
    BY <1>1, OrderFacts DEF StartReconcile, ElectionInv
  <2>4. \A k \in Kinds : Unspoiled(k)'
    BY <1>1, <2>1 DEF Unspoiled
  <2>5. \A i \in DOMAIN Order : Order[i] \in Kinds
    BY OrderFacts
  <2> HIDE DEF n, params
  <2> QED
    BY <1>1, <1>4, <2>1, <2>2, <2>3, <2>4, <2>5 DEF WakeInv, Working, Quiet, n, params
<1> QED
  BY <1>1, <1>2, <1>3, <1>4

\* Applying an object: the write of a watched one is an event, and what compared
\* equal to the manifest when it was read still does in the fields that count.
LEMMA ApplyKeepsWake ==
    ASSUME TypeOK, WakeInv, ApplyNext
    PROVE  WakeInv'
<1> DEFINE k == Order[next]
<1>0. /\ next \in 1 .. 6 /\ DOMAIN Order = 1 .. 6 /\ Len(Order) = 6 /\ k \in Kinds
      /\ DOMAIN obj = Kinds /\ queued \in BOOLEAN
  BY OrderFacts DEF TypeOK
<1>1. /\ pc = "apply" /\ view' = view /\ nodes' = nodes /\ mem' = mem /\ inst' = inst
      /\ seen' = seen /\ replicas' = replicas
  BY Zenon DEF ApplyNext
<1>2. CASE pc' = "failed"
  <2>1. queued' = queued
    BY <1>2, Zenon DEF ApplyNext
  <2> QED
    BY <1>1, <1>2, <2>1 DEF WakeInv, Working, Quiet
<1>3. CASE pc' # "failed"
  <2>1. /\ obj[k] = seen[k] \/ Desired(k) = seen[k]
        /\ obj' = IF obj[k] = seen[k] THEN [obj EXCEPT ![k] = Desired(k)] ELSE obj
        /\ queued' = (queued \/ (obj' # obj /\ k \in Watched /\ (obj[k] = NoObj \/ k = "dp")))
        /\ next' = IF next < Len(Order) THEN next + 1 ELSE next
        /\ pc' = IF next < Len(Order) THEN "apply" ELSE "check"
    BY <1>3, Zenon DEF ApplyNext
  <2>2. pc' \in {"apply", "check"} /\ Working /\ Working' /\ ~Quiet'
    BY <1>1, <2>1 DEF Working, Quiet
  <2>3. ~queued' => ~queued
    BY <1>0, <2>1
  <2>4. ASSUME ~queued, NEW i \in DOMAIN Order, Order[i] \in Watched
        PROVE  IF pc' = "apply" /\ i >= next' THEN Unspoiled(Order[i])' ELSE Applied(Order[i])'
    <3>1. IF i >= next THEN Unspoiled(Order[i]) ELSE Applied(Order[i])
      BY <1>1, <2>2, <2>4 DEF WakeInv
    <3>2. CASE i = next
      <4>1. ~(pc' = "apply" /\ i >= next')
        BY <1>0, <2>1, <3>2
      <4>2. Unspoiled(k)
        BY <1>0, <3>1, <3>2
      <4>3. Desired(k) # NoObj
        <5>1. Desired(k) \in Objects(k)
          BY <1>0, DesiredType
        <5> QED
          BY <5>1, SchedAssumption DEF Objects
      <4>4. /\ k = "cm" => Desired(k).config = mem
            /\ k = "dp" => /\ Desired(k).replicas = replicas /\ Desired(k).hash = mem
                           /\ Desired(k).image = inst.spec.image
        BY DEF Desired
      <4>5. CASE obj[k] = seen[k]
        <5>1. obj'[k] = Desired(k)
          BY <1>0, <2>1, <4>5
        <5> QED
          BY <1>1, <3>2, <4>1, <4>3, <4>4, <5>1 DEF Applied
      <4>6. CASE obj[k] # seen[k]
        <5>1. obj' = obj /\ seen[k] = Desired(k)
          BY <2>1, <4>6
        <5>2. Applied(Order[i])'
          BY <1>1, <3>2, <4>2, <4>3, <4>4, <5>1 DEF Applied, Unspoiled
        <5> QED
          BY <4>1, <5>2
      <4> QED
        BY <4>5, <4>6
    <3>3. CASE i # next
      <4>1. Order[i] # k /\ Order[i] \in Kinds
        BY <1>0, <2>4, <3>3, OrderDistinct, OrderFacts
      <4>2. obj'[Order[i]] = obj[Order[i]]
        BY <1>0, <2>1, <4>1
      <4>3. (pc' = "apply" /\ i >= next') <=> i >= next
        BY <1>0, <2>1, <3>3
      <4>4. Unspoiled(Order[i]) => Unspoiled(Order[i])'
        BY <1>1, <4>2 DEF Unspoiled
      <4>5. Applied(Order[i]) => Applied(Order[i])'
        BY <1>1, <4>2 DEF Applied
      <4> QED
        BY <3>1, <4>3, <4>4, <4>5
    <3> QED
      BY <3>2, <3>3
  <2> QED
    BY <1>1, <2>2, <2>3, <2>4 DEF WakeInv
<1> QED
  BY <1>2, <1>3

LEMMA CheckKeepsWake ==
    ASSUME TypeOK, WakeInv, CheckDeployment
    PROVE  WakeInv'
<1>1. /\ pc = "check" /\ pc' = "status" /\ queued' = queued
      /\ view' = view /\ obj' = obj /\ nodes' = nodes /\ mem' = mem /\ inst' = inst
      /\ replicas' = replicas
  BY Zenon DEF CheckDeployment
<1>2. step' \in {StepFailed, StepSuccess, StepOngoing(5)}
  BY Zenon DEF CheckDeployment
<1>3. Failed(StepFailed) /\ StepOngoing(5).after > 0
  BY DEF Failed, StepFailed, StepOngoing
<1>4. \A k : Applied(k)' <=> Applied(k)
  BY <1>1 DEF Applied
<1> QED
  BY <1>1, <1>2, <1>3, <1>4 DEF WakeInv, Working, Quiet

\* A patch that leaves the status as the copy has it was for that status: only
\* what differs from the copy is sent.
LEMMA PatchAgrees ==
    ASSUME TypeOK, NEW s \in Status, inst = view, view' = view,
           cr' = [cr EXCEPT !.status = PatchedStatus(s)], view'.status = cr'.status
    PROVE  view'.status = s
<1>1. cr'.status = PatchedStatus(s)
  BY DEF TypeOK, CRType
<1>2. view.status \in Status
  BY DEF TypeOK, CRType
<1>3. /\ view.status.conds = MergeFrom(s.conds, view.status.conds, cr.status.conds)
      /\ view.status.name = MergeFrom(s.name, view.status.name, cr.status.name)
      /\ view.status.dep = MergeFrom(s.dep, view.status.dep, cr.status.dep)
  BY <1>1 DEF PatchedStatus
<1>4. /\ view.status.conds = s.conds /\ view.status.name = s.name /\ view.status.dep = s.dep
  BY <1>3 DEF MergeFrom
<1> QED
  BY <1>2, <1>4 DEF Status

\* Ending a Reconcile: either there is a request, or the status was patched.
LEMMA PatchKeepsWake ==
    ASSUME TypeOK, WakeInv, pc # "idle", NEW s \in Status, NEW r \in BOOLEAN, NEW a,
           PatchStatus(s, r, a),
           (~queued /\ ~r /\ ~(a > 0) /\ inst = view /\ view'.status = s) => Settled'
    PROVE  WakeInv'
<1>0. Reset /\ view' = view /\ queued \in BOOLEAN /\ timer \in BOOLEAN
  BY Zenon DEF PatchStatus, TypeOK
<1>1. CASE queued' = TRUE
  BY <1>0, <1>1, ResetQueued
<1>2. CASE queued' # TRUE
  <2>1. /\ cr' = [cr EXCEPT !.status = PatchedStatus(s)]
        /\ queued' = (queued \/ r) /\ timer' = (timer \/ a > 0)
    BY <1>2, Zenon DEF PatchStatus
  <2>2. ~queued /\ ~r
    BY <1>0, <1>2, <2>1
  <2>3. inst = view
    BY <2>2 DEF WakeInv
  <2>4. ASSUME Quiet' PROVE Settled'
    <3>1. view'.status = cr'.status /\ ~timer'
      BY <2>4 DEF Quiet
    <3>2. view'.status = s
      BY <1>0, <2>1, <2>3, <3>1, PatchAgrees
    <3>3. ~(a > 0)
      BY <1>0, <2>1, <3>1, Zenon
    <3> QED
      BY <2>2, <2>3, <3>2, <3>3
  <2> QED
    BY <1>0, <2>4 DEF Reset, WakeInv, Working
<1> QED
  BY <1>1, <1>2

\* The conditions a Reconcile writes.
LEMMA BaseFields ==
    ASSUME NEW c \in Conditions, NEW b
    PROVE  Base(c, b).base = b /\ Base(c, b).gen = inst.gen
           /\ Base(c, b).dedicated = c.dedicated /\ Base(c, b).dgen = c.dgen
BY DEF Base, Conditions

LEMMA InformerFields ==
    ASSUME NEW c \in Conditions
    PROVE  \/ updateDedicatedInformerCondition(c).dedicated = "Missing"
           \/ /\ updateDedicatedInformerCondition(c).dgen = inst.gen
              /\ updateDedicatedInformerCondition(c).dedicated =
                   IF Informer(inst.spec) = "Dedicated" THEN "True" ELSE "False"
BY DEF updateDedicatedInformerCondition, Conditions

LEMMA DegradeKeepsWake ==
    ASSUME TypeOK, WakeInv, DegradeStatus
    PROVE  WakeInv'
<1> DEFINE c == Base(inst.status.conds, "Degraded")
           s == [inst.status EXCEPT !.conds = c]
<1>0. inst.status \in Status /\ inst.status.conds \in Conditions /\ pc = "degrade"
  BY DEF TypeOK, CRType, Status, DegradeStatus
<1>1. c \in Conditions /\ c.base = "Degraded" /\ c.gen = inst.gen
  BY <1>0, BaseType, BaseFields DEF StepTypes
<1> HIDE DEF c
<1>2. s \in Status /\ s.conds = c
  BY <1>0, <1>1, WithConds DEF Status
<1>3. PatchStatus(s, FALSE, 0)
  BY Zenon DEF DegradeStatus, c
<1>4. view' = view
  BY <1>3, Zenon DEF PatchStatus
<1> HIDE DEF s
<1>5. ASSUME inst = view, view'.status = s PROVE Settled'
  <2>1. view.spec.image \notin ValidImages
    BY <1>0, <1>5 DEF WakeInv
  <2> QED
    BY <1>1, <1>2, <1>4, <1>5, <2>1 DEF Settled
<1> QED
  BY <1>0, <1>2, <1>3, <1>5, PatchKeepsWake

LEMMA FailureKeepsWake ==
    ASSUME TypeOK, WakeInv, ReportFailure
    PROVE  WakeInv'
<1>1. Reset /\ queued \in BOOLEAN /\ queued' = TRUE
  BY Zenon DEF ReportFailure, PatchStatus, TypeOK
<1> QED
  BY <1>1, ResetQueued

LEMMA UpdateKeepsWake ==
    ASSUME TypeOK, WakeInv, UpdateStatus
    PROVE  WakeInv'
<1> DEFINE u == updateDedicatedInformerCondition(inst.status.conds)
           c == Base(u, step.type)
           s == [conds |-> c, name |-> mem.name, dep |-> TRUE]
<1>0. /\ inst.status \in Status /\ inst.status.conds \in Conditions /\ pc = "status"
      /\ step.type \in StepTypes /\ mem.name \in Names
  BY DEF TypeOK, CRType, Status, UpdateStatus, Config
<1>1. u \in Conditions /\ (\/ u.dedicated = "Missing"
                           \/ /\ u.dgen = inst.gen
                              /\ u.dedicated = IF Informer(inst.spec) = "Dedicated" THEN "True" ELSE "False")
  BY <1>0, InformerConditionType, InformerFields
<1> HIDE DEF u
<1>2. /\ c \in Conditions /\ c.base = step.type /\ c.gen = inst.gen
      /\ c.dedicated = u.dedicated /\ c.dgen = u.dgen
  BY <1>0, <1>1, BaseType, BaseFields
<1> HIDE DEF c
<1>3. s \in Status /\ s.conds = c /\ s.name = mem.name /\ s.dep = TRUE
  BY <1>0, <1>2 DEF Status
<1>4. PatchStatus(s, Failed(step), step.after)
  BY Zenon DEF UpdateStatus, c, u
<1>5. view' = view /\ obj' = obj /\ nodes' = nodes
  BY <1>4, Zenon DEF PatchStatus
<1> HIDE DEF s
<1>6. ASSUME ~queued, ~Failed(step), ~(step.after > 0), inst = view, view'.status = s
      PROVE  Settled'
  <2>1. step.type = "Available"
    BY <1>0, <1>6 DEF WakeInv, StepSuccess
  <2>2. Working /\ view.spec.image \in ValidImages
    BY <1>0, <1>6 DEF WakeInv, Working
  <2>3. \A k \in Watched : Applied(k)
    <3>1. \A i \in DOMAIN Order : Order[i] \in Watched => Applied(Order[i])
      BY <1>0, <1>6, <2>2 DEF WakeInv
    <3> QED
      BY <3>1, WatchedFacts DEF Kinds
  <2>4. /\ ~ReplicasError(view.spec, nodes) /\ replicas = computeSchedulerReplicas(view.spec, nodes)
        /\ RenderConfig(mem, configParamsFromSchedSpec(view.spec, replicas)) = mem
    BY <1>6, <2>2 DEF WakeInv
  <2>5. /\ \A k \in Watched : obj[k] # NoObj
        /\ obj["cm"].config = mem /\ obj["dp"].replicas = replicas /\ obj["dp"].hash = mem
        /\ obj["dp"].image = view.spec.image
    BY <1>6, <2>3, WatchedFacts DEF Applied
  <2>6. Deployed'
    BY <1>5, <2>4, <2>5 DEF Deployed
  <2> QED
    BY <1>1, <1>2, <1>3, <1>5, <1>6, <2>1, <2>2, <2>5, <2>6 DEF Settled, Reported
<1>7. Failed(step) \in BOOLEAN
  BY DEF TypeOK, Failed
<1> QED
  BY <1>0, <1>3, <1>4, <1>6, <1>7, PatchKeepsWake

LEMMA WakeInvInit ==
    ASSUME Init
    PROVE  WakeInv
BY DEF Init, WakeInv, Working, Quiet

LEMMA WakeInvStep ==
    ASSUME TypeOK, ElectionInv, WakeInv, [Next]_vars, "relabel" \notin Disturbances
    PROVE  WakeInv'
<1>0. queued \in BOOLEAN
  BY DEF TypeOK
<1>1. CASE SkipPaused
  <2>1. pc' = "idle" /\ view'.spec.pause
    BY <1>1, Zenon DEF SkipPaused, locals
  <2> QED
    BY <2>1 DEF WakeInv, Working, Quiet
<1>2. CASE StartReconcile
  BY <1>2, StartKeepsWake
<1>3. CASE ApplyNext
  BY <1>3, ApplyKeepsWake
<1>4. CASE CheckDeployment
  BY <1>4, CheckKeepsWake
<1>5. CASE DegradeStatus
  BY <1>5, DegradeKeepsWake
<1>6. CASE ReportFailure
  BY <1>6, FailureKeepsWake
<1>7. CASE UpdateStatus
  BY <1>7, UpdateKeepsWake
<1>8. CASE TimerFires \/ WatchDeliver
  <2>1. UNCHANGED <<mem, locals>> /\ queued' = TRUE
    BY <1>8, Zenon DEF TimerFires, WatchDeliver
  <2> QED
    BY <2>1, QueuedKeeps
<1>9. CASE Crash
  <2>1. Reset /\ queued' = TRUE
    BY <1>9, Zenon DEF Crash
  <2> QED
    BY <2>1, ResetQueued
<1>10. CASE Others \/ DeploymentUp
  <2>1. CASE ~queued'
    BY <1>10, <2>1, SilentOthers, SilentKeeps
  <2>2. CASE queued'
    <3>1. UNCHANGED <<mem, locals>>
      BY <1>10, OthersKeepConfig
    <3>2. queued' \in BOOLEAN
      BY <1>10, <1>0, Zenon DEF Others, EditSpec, SetNodes, DeleteObj, ScaleDeployment,
         EditConfigMap, DeploymentDown, DeploymentUp, SetObj
    <3> QED
      BY <2>2, <3>1, <3>2, QueuedKeeps
  <2> QED
    BY <2>1, <2>2
<1>11. CASE UNCHANGED vars
  BY <1>11 DEF vars, locals, WakeInv, Working, Quiet, Settled, Deployed, Reported, Applied, Unspoiled
<1> QED
  BY <1>1, <1>2, <1>3, <1>4, <1>5, <1>6, <1>7, <1>8, <1>9, <1>10, <1>11, Zenon DEF Next, Reconcile

\* Asleep, the resource is the cached copy.
LEMMA AsleepSettled ==
    ASSUME WakeInv
    PROVE  NoLostWakeup /\ StatusTellsTruth
<1> SUFFICES ASSUME Asleep, ~cr.spec.pause
             PROVE  NoLostWakeup /\ StatusTellsTruth
  BY DEF NoLostWakeup, StatusTellsTruth
<1>1. view = cr /\ Settled
  BY DEF Asleep, Quiet, WakeInv
<1> QED
  BY <1>1 DEF NoLostWakeup, StatusTellsTruth, Settled, Deployed, Reported

LEMMA WakeInvAlways ==
    ASSUME "relabel" \notin Disturbances
    PROVE  Spec => []WakeInv
<1>1. Init => WakeInv /\ ElectionInv
  BY WakeInvInit DEF Init, ElectionInv
<1>2. TypeOK /\ ElectionInv /\ WakeInv /\ [Next]_vars => WakeInv' /\ ElectionInv'
  BY WakeInvStep, ElectionInvStep
<1> QED
  BY <1>1, <1>2, TypeCorrect, PTL DEF Spec

\* As long as no node changes its role, no wake-up is lost: when the operator has
\* gone to sleep, the objects are those of the specification and of the nodes as
\* they are now, whatever was edited, deleted, scaled, refused or restarted, and
\* however stale the copies were that Reconcile worked on.
THEOREM NoLostWakeupTheorem ==
    ASSUME "relabel" \notin Disturbances
    PROVE  Spec => []NoLostWakeup
<1>1. WakeInv => NoLostWakeup
  BY AsleepSettled
<1> QED
  BY <1>1, WakeInvAlways, PTL

\* Under the same condition the status an operator that has gone to sleep leaves
\* is true of the ConfigMap and of the specification, although each patch sends
\* only what differs from a cached copy.
THEOREM StatusTheorem ==
    ASSUME "relabel" \notin Disturbances
    PROVE  Spec => []StatusTellsTruth
<1>1. WakeInv => StatusTellsTruth
  BY AsleepSettled
<1> QED
  BY <1>1, WakeInvAlways, PTL
=============================================================================
