------------------------ MODULE SchedulerController ------------------------
(***************************************************************************)
(* The NUMAResourcesScheduler controller                                   *)
(* (internal/controller/numaresourcesscheduler_controller.go) with the     *)
(* parts of the cluster it reads and writes.                               *)
(*                                                                         *)
(* It keeps the secondary scheduler: a ConfigMap with the configuration, a *)
(* Deployment whose template carries the hash of that configuration, and   *)
(* the objects around them.  The manifests it starts from are fields of    *)
(* the reconciler: each reconciliation renders into what the previous one  *)
(* left, until the process restarts.                                       *)
(***************************************************************************)
EXTENDS TreeResults, Sequences

CONSTANTS
    Specs,              \* specifications the user may write
    InitSpec,           \* the one the resource is created with
    MaxNodes,           \* bound on the nodes with the role that counts
    InitNodes,          \* their number at the start
    AutoReplicas,       \* spec.Replicas == nil
    NoName,             \* spec.SchedulerName == ""
    NoResources,        \* no resources in the scoring strategy
    NoInformer,         \* spec.SchedulerInformer == nil
    Names, Resources, Args, Images, ValidImages,
    BuiltinName,        \* the profile name of the built-in manifest
    BuiltinArgs,        \* its plugin arguments
    ListActivePods,     \* Properties.PodResourcesListFilterActivePods
    NoObj,              \* an object that is not there
    Disturbances,       \* kinds of external events and failures of this instance
    Closing,            \* the kinds after which there is no other
    Budget              \* bound on their number

Informers == {"Shared", "Dedicated"}

\* args are the settings that are always rendered or removed: resync period and
\* detection, scoring type, preemption.
SpecType == [replicas: Nat \cup {AutoReplicas}, name: Names \cup {NoName},
             resources: Resources \cup {NoResources}, informer: Informers \cup {NoInformer},
             args: Args, image: Images, pause: BOOLEAN]

Config == [name: Names, lead: BOOLEAN, resources: Resources \cup {NoResources},
           informer: Informers \cup {NoInformer}, args: Args]

\* extra: the ConfigMap holds data that is not the operator's.
ConfigMap == [config: Config, extra: BOOLEAN]

\* available: the condition of that type, "none" before there is one.
Deployment == [replicas: Nat, hash: Config, image: Images, available: {"none", "no", "yes"}]

ASSUME SchedAssumption ==
    /\ Specs \subseteq SpecType /\ InitSpec \in Specs
    /\ MaxNodes \in Nat /\ InitNodes \in 0 .. MaxNodes
    /\ AutoReplicas \notin Nat /\ NoName \notin Names /\ NoResources \notin Resources
    /\ NoInformer \notin Informers
    /\ BuiltinName \in Names /\ BuiltinArgs \in Args /\ ListActivePods \in BOOLEAN
    /\ NoObj \notin ConfigMap /\ NoObj \notin Deployment /\ NoObj # "present"
    /\ Budget \in Nat

VARIABLES
    cr,         \* the NUMAResourcesScheduler resource in the API server
    view,       \* the operator's cached copy of it
    obj,        \* the objects of the scheduler
    nodes,      \* how many nodes have the role
    mem,        \* the configuration in the reconciler's manifests
    queued,     \* a request is in the workqueue
    timer,      \* a delayed request is pending
    budget,     \* disturbances left
    pc,         \* where the running Reconcile is
    inst,       \* the copy of the resource it works on
    seen,       \* the objects it read
    replicas,   \* the replicas it computed
    next,       \* the object it applies next
    step        \* the step it ended in

locals == <<pc, inst, seen, replicas, next, step>>
vars == <<cr, view, obj, nodes, mem, queued, timer, budget, locals>>

-----------------------------------------------------------------------------
\* The order if the Deployment were applied before its ConfigMap.
OrderDeploymentFirst == <<"sa", "dp", "cluster", "role", "cm", "np">>

\* The objects in the order they are applied: the ServiceAccount, the ConfigMap,
\* ClusterRole and binding, Role and binding, Deployment, network policies.
Order == <<"sa", "cm", "cluster", "role", "dp", "np">>
Kinds == {Order[i] : i \in DOMAIN Order}
Objects(k) == CASE k = "cm" -> ConfigMap [] k = "dp" -> Deployment [] OTHER -> {"present"}

\* Kinds SetupWithManager watches.
Watched == {"sa", "cm", "cluster", "dp"}

\* The base condition that is true and the condition on the informer, each with
\* its observed generation.  The latter is missing when the status was written
\* by a version that did not have it.
Conditions == [base: StepTypes \cup {"Unset"}, gen: Nat,
               dedicated: {"Missing", "Unknown", "True", "False"}, dgen: Nat]
Status == [conds: Conditions, name: Names \cup {NoName}, dep: BOOLEAN]
CRType == [spec: Specs, gen: Nat, status: Status]

FreshConditions == [base |-> "Unset", gen |-> 0, dedicated |-> "Unknown", dgen |-> 0]
OldConditions == [base |-> "Available", gen |-> 1, dedicated |-> "Missing", dgen |-> 0]

BuiltinConfig == [name |-> BuiltinName, lead |-> FALSE, resources |-> NoResources,
                  informer |-> NoInformer, args |-> BuiltinArgs]

NewCR(conds) == [spec |-> InitSpec, gen |-> 1,
                 status |-> [conds |-> conds, name |-> NoName, dep |-> FALSE]]

Nothing == [k \in Kinds |-> NoObj]

Reset ==
    /\ pc' = "idle" /\ inst' = NewCR(FreshConditions) /\ seen' = Nothing
    /\ replicas' = 0 /\ next' = 1 /\ step' = StepSuccess

Disturb(kind) ==
    /\ kind \in Disturbances /\ budget > 0
    /\ budget' = IF kind \in Closing THEN 0 ELSE budget - 1

Init ==
    /\ \E conds \in {FreshConditions, OldConditions} : cr = NewCR(conds)
    /\ view = cr
    /\ obj = Nothing /\ nodes = InitNodes /\ mem = BuiltinConfig
    /\ queued = TRUE /\ timer = FALSE /\ budget = Budget
    /\ pc = "idle" /\ inst = NewCR(FreshConditions) /\ seen = Nothing
    /\ replicas = 0 /\ next = 1 /\ step = StepSuccess

-----------------------------------------------------------------------------
(* What is deployed.                                                       *)

MaxSchedulerReplicas == 3

\* computeSchedulerReplicas: when it is an error, and the number otherwise.
ReplicasError(spec, n) == IF spec.replicas # AutoReplicas THEN spec.replicas > n ELSE n = 0

computeSchedulerReplicas(spec, n) ==
    IF spec.replicas # AutoReplicas THEN spec.replicas
    ELSE IF n < MaxSchedulerReplicas THEN 1 ELSE MaxSchedulerReplicas

\* platformNormalize and the default of SchedulerInformer.
Informer(spec) ==
    IF spec.informer # NoInformer THEN spec.informer
    ELSE IF ListActivePods THEN "Shared" ELSE "Dedicated"

\* configParamsFromSchedSpec.
configParamsFromSchedSpec(spec, n) ==
    [name |-> spec.name, lead |-> n > 1, resources |-> spec.resources,
     informer |-> Informer(spec), args |-> spec.args]

\* RenderConfig: an empty name and an empty list leave what is there.
RenderConfig(config, params) ==
    [name      |-> IF params.name = NoName THEN config.name ELSE params.name,
     lead      |-> params.lead,
     resources |-> IF params.resources = NoResources THEN config.resources ELSE params.resources,
     informer  |-> params.informer,
     args      |-> params.args]

\* The manifest of kind k, and what applying it over the object read makes of it:
\* merging keeps the status.
Desired(k) ==
    CASE k = "cm" -> [config |-> mem, extra |-> FALSE]
      [] k = "dp" -> [replicas |-> replicas, hash |-> mem, image |-> inst.spec.image,
                      available |-> IF seen["dp"] = NoObj THEN "none" ELSE seen["dp"].available]
      [] OTHER -> "present"

-----------------------------------------------------------------------------
(* Reconcile.                                                              *)

SkipPaused ==
    /\ pc = "idle" /\ queued /\ view.spec.pause
    /\ queued' = FALSE
    /\ UNCHANGED <<cr, view, obj, nodes, mem, timer, budget, locals>>

\* Get the resource, validate the image, count the nodes, render the manifests
\* and read the objects that exist.
StartReconcile ==
    /\ pc = "idle" /\ queued /\ ~view.spec.pause
    /\ queued' = FALSE /\ inst' = view
    /\ LET spec == view.spec
           n == computeSchedulerReplicas(spec, nodes)
           fail == pc' = "failed" /\ step' = StepFailed /\ UNCHANGED <<mem, seen, replicas>>
       IN  \/ /\ spec.image \notin ValidImages
              /\ pc' = "degrade" /\ UNCHANGED <<mem, seen, replicas, step, budget>>
           \/ spec.image \in ValidImages /\ Disturb("fault") /\ fail
           \/ spec.image \in ValidImages /\ ReplicasError(spec, nodes) /\ fail /\ UNCHANGED budget
           \/ /\ spec.image \in ValidImages /\ ~ReplicasError(spec, nodes)
              /\ replicas' = n
              /\ mem' = RenderConfig(mem, configParamsFromSchedSpec(spec, n))
              /\ seen' = obj
              /\ pc' = "apply" /\ UNCHANGED <<step, budget>>
    /\ UNCHANGED <<cr, view, obj, nodes, timer, next>>

\* Apply one object.  The API server refuses to write one that changed since it
\* was read; one that compares equal to what is wanted may not be written at all.
\* A write is an event when it creates an object of a watched kind or changes its
\* generation: a ConfigMap has none.
ApplyNext ==
    /\ pc = "apply"
    /\ LET k == Order[next]
       IN  \/ /\ obj[k] = seen[k] \/ Desired(k) = seen[k]
              /\ obj' = IF obj[k] = seen[k] THEN [obj EXCEPT ![k] = Desired(k)] ELSE obj
              /\ queued' = (queued \/ (obj' # obj /\ k \in Watched /\ (obj[k] = NoObj \/ k = "dp")))
              /\ next' = IF next < Len(Order) THEN next + 1 ELSE next
              /\ pc' = IF next < Len(Order) THEN "apply" ELSE "check"
              /\ UNCHANGED <<budget, step>>
           \/ /\ IF obj[k] # seen[k] THEN UNCHANGED budget ELSE Disturb("fault")
              /\ pc' = "failed" /\ step' = StepFailed
              /\ UNCHANGED <<obj, queued, next>>
    /\ UNCHANGED <<cr, view, nodes, mem, timer, inst, seen, replicas>>

\* isDeploymentRunning with the status of the condition negated.
isDeploymentRunningNegated(dp) == dp.available = "no"

\* isDeploymentRunning, once the Deployment is found.
isDeploymentRunning(dp) == dp.available = "yes"

\* Get the Deployment back; the cache may not have seen the write yet.
CheckDeployment ==
    /\ pc = "check"
    /\ \E stale \in BOOLEAN :
         LET got == IF stale THEN seen["dp"] ELSE obj["dp"]
         IN  /\ IF stale THEN seen["dp"] # obj["dp"] /\ Disturb("stale") ELSE UNCHANGED budget
             /\ step' = IF got = NoObj THEN StepFailed
                        ELSE IF isDeploymentRunning(got) THEN StepSuccess ELSE StepOngoing(5)
    /\ pc' = "status"
    /\ UNCHANGED <<cr, view, obj, nodes, mem, queued, timer, inst, seen, replicas, next>>

-----------------------------------------------------------------------------
(* The status patch.                                                       *)

\* Only what differs from the cached copy is sent.
MergeFrom(new, read, stored) == IF new = read THEN stored ELSE new

PatchedStatus(new) ==
    [conds |-> MergeFrom(new.conds, inst.status.conds, cr.status.conds),
     name  |-> MergeFrom(new.name, inst.status.name, cr.status.name),
     dep   |-> MergeFrom(new.dep, inst.status.dep, cr.status.dep)]

\* PatchStatus if Reconcile returned neither its error nor its delay.
PatchStatusForgetful(status, retry, after) ==
    /\ \/ /\ cr' = [cr EXCEPT !.status = PatchedStatus(status)]
          /\ UNCHANGED <<queued, timer, budget>>
       \/ Disturb("fault") /\ queued' = TRUE /\ UNCHANGED <<cr, timer>>
    /\ Reset
    /\ UNCHANGED <<view, obj, nodes, mem>>

PatchStatus(status, retry, after) ==
    /\ \/ /\ cr' = [cr EXCEPT !.status = PatchedStatus(status)]
          /\ queued' = (queued \/ retry) /\ timer' = (timer \/ after > 0)
          /\ UNCHANGED budget
       \/ Disturb("fault") /\ queued' = TRUE /\ UNCHANGED <<cr, timer>>
    /\ Reset
    /\ UNCHANGED <<view, obj, nodes, mem>>

Base(conds, base) == [conds EXCEPT !.base = base, !.gen = inst.gen]

\* updateDedicatedInformerCondition: a condition that is not there is not added.
updateDedicatedInformerCondition(conds) ==
    IF conds.dedicated = "Missing" THEN conds
    ELSE [conds EXCEPT !.dedicated = IF Informer(inst.spec) = "Dedicated" THEN "True" ELSE "False",
                       !.dgen = inst.gen]

\* degradeStatus: no retry.
DegradeStatus ==
    /\ pc = "degrade"
    /\ PatchStatus([inst.status EXCEPT !.conds = Base(@, "Degraded")], FALSE, 0)

\* syncNUMASchedulerResources failed: of the status only the conditions change.
ReportFailure ==
    /\ pc = "failed"
    /\ PatchStatus([inst.status EXCEPT !.conds = Base(@, step.type)], TRUE, 0)

UpdateStatus ==
    /\ pc = "status"
    /\ PatchStatus([conds |-> Base(updateDedicatedInformerCondition(inst.status.conds), step.type),
                    name  |-> mem.name, dep |-> TRUE],
                   Failed(step), step.after)

Reconcile ==
    \/ SkipPaused \/ StartReconcile \/ ApplyNext \/ CheckDeployment
    \/ DegradeStatus \/ ReportFailure \/ UpdateStatus

-----------------------------------------------------------------------------
(* Events.                                                                 *)

TimerFires ==
    /\ timer /\ timer' = FALSE /\ queued' = TRUE
    /\ UNCHANGED <<cr, view, obj, nodes, mem, budget, locals>>

\* WatchDeliver if the controller only reacted to changes of the specification.
WatchDeliverGenerationChanged ==
    /\ view # cr /\ view' = cr /\ queued' = (queued \/ view.gen # cr.gen)
    /\ UNCHANGED <<cr, obj, nodes, mem, timer, budget, locals>>

WatchDeliver ==
    /\ view # cr /\ view' = cr /\ queued' = TRUE
    /\ UNCHANGED <<cr, obj, nodes, mem, timer, budget, locals>>

\* A restart: the manifests are the built-in ones again.
Crash ==
    /\ Disturb("crash")
    /\ Reset
    /\ mem' = BuiltinConfig /\ view' = cr /\ queued' = TRUE /\ timer' = FALSE
    /\ UNCHANGED <<cr, obj, nodes>>

\* The pause annotation is not part of the generation.
EditSpec(spec) ==
    /\ Disturb("edit") /\ spec # cr.spec
    /\ cr' = [cr EXCEPT !.spec = spec,
                        !.gen = IF [spec EXCEPT !.pause = cr.spec.pause] = cr.spec THEN @ ELSE @ + 1]
    /\ UNCHANGED <<view, obj, nodes, mem, queued, timer, locals>>

\* Nodes come and go, which is an event, or change their role, which is not
\* (nodesPredicate).
SetNodes(n, relabel) ==
    /\ n # nodes /\ (IF relabel THEN Disturb("relabel") ELSE Disturb("nodes"))
    /\ nodes' = n /\ queued' = (queued \/ ~relabel)
    /\ UNCHANGED <<cr, view, obj, mem, timer, locals>>

SetObj(k, o, event) ==
    /\ obj' = [obj EXCEPT ![k] = o]
    /\ queued' = (queued \/ event)
    /\ UNCHANGED <<cr, view, nodes, mem, timer, locals>>

DeleteObj(k) == obj[k] # NoObj /\ Disturb("delete") /\ SetObj(k, NoObj, k \in Watched)

\* Someone edits the Deployment, which gets a new generation,
ScaleDeployment(n) ==
    /\ obj["dp"] # NoObj /\ n # obj["dp"].replicas /\ Disturb("scale")
    /\ SetObj("dp", [obj["dp"] EXCEPT !.replicas = n], TRUE)

\* or adds to the ConfigMap: its data have no generation, and the predicate of the watch
\* looks at the generation, the labels and the annotations.
EditConfigMap ==
    /\ obj["cm"] # NoObj /\ ~obj["cm"].extra /\ Disturb("drift")
    /\ SetObj("cm", [obj["cm"] EXCEPT !.extra = TRUE], FALSE)

\* The Deployment becomes available, or loses too many pods.
DeploymentUp ==
    /\ obj["dp"] # NoObj /\ obj["dp"].available # "yes"
    /\ SetObj("dp", [obj["dp"] EXCEPT !.available = "yes"], FALSE) /\ UNCHANGED budget

DeploymentDown ==
    /\ obj["dp"] # NoObj /\ obj["dp"].available = "yes" /\ Disturb("down")
    /\ SetObj("dp", [obj["dp"] EXCEPT !.available = "no"], FALSE)

Others ==
    \/ \E spec \in Specs : EditSpec(spec)
    \/ \E n \in 0 .. MaxNodes, relabel \in BOOLEAN : SetNodes(n, relabel)
    \/ \E k \in Kinds : DeleteObj(k)
    \/ \E n \in 0 .. MaxNodes : ScaleDeployment(n)
    \/ EditConfigMap \/ DeploymentDown

Next == Reconcile \/ TimerFires \/ WatchDeliver \/ Crash \/ Others \/ DeploymentUp

Spec == Init /\ [][Next]_vars

FairSpec ==
    /\ Spec
    /\ WF_vars(Reconcile) /\ WF_vars(TimerFires) /\ WF_vars(WatchDeliver) /\ WF_vars(DeploymentUp)

-----------------------------------------------------------------------------
(* Properties.                                                             *)

\* Every variable has its type.
TypeOK ==
    /\ cr \in CRType /\ view \in CRType /\ inst \in CRType
    /\ \A k \in Kinds : obj[k] \in Objects(k) \cup {NoObj} /\ seen[k] \in Objects(k) \cup {NoObj}
    /\ DOMAIN obj = Kinds /\ DOMAIN seen = Kinds
    /\ nodes \in 0 .. MaxNodes /\ mem \in Config
    /\ queued \in BOOLEAN /\ timer \in BOOLEAN /\ budget \in 0 .. Budget
    /\ pc \in {"idle", "apply", "check", "status", "degrade", "failed"}
    /\ replicas \in Nat /\ next \in DOMAIN Order
    /\ step \in [type: StepTypes, after: {0, 5}, msg: {NoMessage}, failed: BOOLEAN]

Asleep == pc = "idle" /\ ~queued /\ ~timer /\ view = cr

\* When the operator has gone to sleep no wake-up was lost: unless the resource is
\* paused, an untrusted image is reported; with a good one the objects of the
\* watched kinds exist, the Deployment has the replicas the nodes allow now and
\* runs the configuration in the ConfigMap, and rendering the specification once
\* more would change nothing (SetupWithManager, Reconcile and
\* syncNUMASchedulerResources).
NoLostWakeup ==
    Asleep /\ ~cr.spec.pause =>
        /\ cr.status.conds.gen = cr.gen
        /\ cr.spec.image \notin ValidImages => cr.status.conds.base = "Degraded"
        /\ cr.spec.image \in ValidImages =>
             /\ \A k \in Watched : obj[k] # NoObj
             /\ ~ReplicasError(cr.spec, nodes)
             /\ LET config == obj["cm"].config
                    n == computeSchedulerReplicas(cr.spec, nodes)
                IN  /\ obj["dp"].replicas = n /\ obj["dp"].hash = config
                    /\ obj["dp"].image = cr.spec.image
                    /\ RenderConfig(config, configParamsFromSchedSpec(cr.spec, n)) = config

\* Asleep, the status is true: it names the profile in the ConfigMap and tells
\* which informer is in use, unless the status comes from a version without that
\* condition, although it is patched against a cached copy that may lag behind.
StatusTellsTruth ==
    Asleep /\ ~cr.spec.pause /\ cr.spec.image \in ValidImages =>
        /\ cr.status.conds.base = "Available" /\ cr.status.dep
        /\ cr.status.name = obj["cm"].config.name
        /\ \/ cr.status.conds.dedicated = "Missing"
           \/ /\ cr.status.conds.dgen = cr.gen
              /\ cr.status.conds.dedicated =
                   IF Informer(cr.spec) = "Dedicated" THEN "True" ELSE "False"

ElectionStep ==
    next' > next /\ Order[next] = "dp" /\ obj' # obj =>
        LET dp == obj'["dp"]
        IN  /\ dp.hash.lead <=> dp.replicas > 1
            /\ obj["cm"] # NoObj => obj["cm"].config = dp.hash

\* The Deployment is only written with leader election on when it has several
\* replicas and off when it has not, and only after the ConfigMap its hash stands
\* for, whatever the reconciler kept in memory from earlier specifications
\* (configParamsFromSchedSpec, DeploymentConfigMapSettings, the order of State).
ElectedReplicas == [][ElectionStep]_vars

\* A change of the data of the owned ConfigMap is undone: the operator does not
\* sleep over it (SetupWithManager owns ConfigMaps).
DriftRepaired == Asleep /\ ~cr.spec.pause /\ obj["cm"] # NoObj => ~obj["cm"].extra

\* Left alone, the operator comes to rest, unless more replicas are asked for
\* than there are nodes, which it retries.
ComesToRest == <>[](Asleep \/ ReplicasError(cr.spec, nodes))
=============================================================================
