# A TLA+ model of the NUMA Resources Operator

This directory holds specifications of the NUMA Resources Operator: modules that
translate its controllers and the algorithms under them, instances of these for
the model checker TLC, and theorems with proofs checked by TLAPS. `PROJECT.json`
gives, for every definition, the lines of Go it stands for.

## The system

The operator installs what NUMA-aware scheduling needs: an exporter DaemonSet
for every pool of nodes, a secondary scheduler, and the configuration of both.
It is three controllers (`ARCHITECTURE.md`, "controllers"), each a single worker
that takes requests from a coalescing queue, reads the cluster from a cache and
writes to the API server.

| part | state it keeps or changes | operations | interacts with |
| --- | --- | --- | --- |
| NUMAResourcesOperator controller | conditions, DaemonSets, pools and node groups of the resource's status; exporter DaemonSets; MachineConfigs; CRD and RBAC objects | `Reconcile` and its parts, event predicates and mappings | users, machine config operator, DaemonSet controller, KubeletConfig controller (ConfigMap hash) |
| node groups and trees | none (pure) | validation, tree finders, generated names, event matching | the controller, the cleaner of dangling objects |
| reconciliation steps | none (pure) | `Step` constructors, `ReducePerTreeResults`, `ShouldReplaceStep` | the two controllers with a status |
| KubeletConfig controller | one ConfigMap per pool; `garbageCollectionFor` in memory | `Reconcile`, deletion predicate, predicate on the operator's resource | users, garbage collector, the operator's status patches |
| NUMAResourcesScheduler controller | Deployment, ConfigMap, RBAC, status | `Reconcile`, replica computation, node events | users, nodes, Deployment controller |
| status conditions | list of conditions | create, back-fill, compute | both controllers with a status |
| object apply and merge | API objects | create, merge, compare, update, delete | all controllers |
| manifests of operands | the manifests in memory, changed in place by start-up and by every reconciliation | `Render`, `setupTreeAgnosticManifests`, `daemonsetUpdater`, `RenderConfig`, the settings of the Deployment | the two controllers that own operands |
| API defaults, normalisation, conversion, schemas | none (pure) | `NormalizeConfig`, `Merge`, `Convert*`, `SetDefaults_*` | controllers, conversion webhook, clients of both versions |
| start-up, platform, TLS profile, images | what `main` learns and keeps for its lifetime | the steps of `main`, the watcher of the TLS profile | all controllers, administrators |
| exporter main, validation tool, test helpers, tools | none | | |

What makes it hard: edits of the resource and of pools between two reads of one
reconciliation; objects that changed since they were read; failures half way
through a list of writes; restarts; a status patch computed against a stale copy;
requeue delays that get lost when the results of several node groups are reduced;
events that are filtered, or mapped after the object has changed again; the
operator's own writes, each of which is an event; what one specification leaves in
the manifests kept in memory; two versions of the API with different defaults; and
what was learned at start-up while the cluster goes on changing. The `hazards` of
`PROJECT.json` list these at their lines.

## Modules

| module | models | kind |
| --- | --- | --- |
| `TreeResults` | `internal/reconcile/step.go`, `api/v1/helper/nodegroup/result.go` | operators |
| `NodeGroups` | `pkg/validation`, tree finders, names, event matching | operators |
| `NROController` | the NUMAResourcesOperator controller and its surroundings; extends the two above | state machine |
| `KubeletConfigController` | the KubeletConfig controller and its surroundings | state machine |
| `SchedulerController` | the NUMAResourcesScheduler controller and its surroundings; extends `TreeResults` | state machine |
| `HyperShift` | the NUMAResourcesOperator and the KubeletConfig controller in one process on HyperShift; extends `NROController` and instantiates `KubeletConfigController` | composition |
| `ObjectApply` | `pkg/apply`, `pkg/objectstate` and its merge and compare: one list of objects, the cache, and those who change the objects | state machine |
| `ObjectStore` | what applying an object promises | abstract specification, implemented by `ObjectApply` |
| `Flagcodec` | the flag codec of container arguments | operators |
| `ApiVersions` | defaults, normalisation, conversion and schemas of v1 and v1alpha1 | operators |
| `OperandManifests` | accounts, roles, bindings, security context constraints, network policies and MachineConfig of the operands; the order in which they are applied | operators |
| `ExporterManifests` | from the DaemonSet manifest to the template of a pool; extends the three above | operators |
| `SchedulerConfig` | parameters, rendering and decoding of the scheduler's configuration; the settings of its Deployment | operators |
| `Startup` | `cmd/main.go`, platform and version detection, the TLS profile, image discovery | state machine |
| `OperatorProcess` | the process with its two resources and their clients; extends `Startup`, which extends the manifests | composition |
| `MCTrees`, `MCNodeGroups`, `MCNROController`, `MCKubeletConfig`, `MCScheduler`, `MCHyperShift`, `MCOperatorProcess` | instances for TLC | |
| `TreesProofs`, `NROProofs`, `NROWakeProofs`, `SchedulerProofs`, `KubeletConfigProofs`, `HyperShiftKCProofs`, `HyperShiftProofs`, `ObjectApplyProofs` | theorems | proofs |

### TreeResults

A step is its condition type, its delay in seconds, its message and whether it
carries an error. Messages are opaque, because `ShouldReplaceStep` only asks
whether one is empty or two differ; the counters `treeSummaryMessage` prints in
front of them are left out. `ReduceStep` is one iteration of the loop of
`ReducePerTreeResults`.

### NodeGroups

A pool is its own name, and stands for the DaemonSet and the MachineConfig named
after it. A label selector is an opaque value with the set of labels it matches.
Each validation function of `pkg/validation/validation.go` is one operator that
holds when the function returns no error.

### NROController

`cr` is the resource in the API server and `view` the copy in the operator's
cache. The other cluster state is the MachineConfigPools `mcp` (with `src`, the
operator's MachineConfig is among the sources of the pool's configuration, and
`upd`, its Updated condition), the MachineConfigs `mc`, the exporter DaemonSets
`ds`, the kubelet ConfigMaps `cm` and, as one Boolean, the CRD and the shared
objects. `pc`, `inst`, `snap`, `tree`, `seen`, `hash` and `acc` are the locals of
the running `Reconcile`.

A Reconcile is the chain `StartReconcile`, `SyncShared`, `Cleanup`, then per tree
`SyncTree`, `ApplyDaemonSets`, `CheckDaemonSets`, and at the end one of
`UpdateStatus`, `ReportFailure`, `DegradeStatus`. Between any two, every other
action may happen. The steps are cut where the code reads or writes:

- The reads of the resource and of the pools are one step. Both are from the
  cache and nothing is written in between. The pools are read live, so their
  cache is taken to be current at that moment; the copy is stale from then on.
- `existing.PerTree` and the MachineConfig writes of a tree are one step
  (`SyncTree`): the DaemonSets read there are only used by the apply step, before
  which others may change them.
- Applying the DaemonSets of a tree is one step for any prefix of the writes; the
  first one that is refused or fails ends the tree. As order in the list is not
  kept, any subset of the others may have been written. An object that compares
  equal to what is wanted need not be sent. Whether it is depends on the fields
  the API server defaults, so an object that changed after it was read may be
  refused or passed over.
- Reading the DaemonSets back may, under the disturbance `stale`, be answered by
  what the cache held before the apply.

The predicates and mappings of `SetupWithManager` are the `queued'` conjuncts of
the actions of the others. A failed request and a request with a delay are
`queued` and `timer`; two pending delayed requests are one, as in the workqueue.

Left out: other names of the resource (`degradeStatus` at once); the annotation
that skips the CRD; the wording of conditions except what tells two messages
apart; the contents of manifests, which are the `cfg` of a node group.

### KubeletConfigController

`platform` is what the process has detected, `kc` are the KubeletConfigs (on
HyperShift, the ConfigMaps that contain them), `cm` the ConfigMaps rendered for the exporters with their owner, `gc` is
`garbageCollectionFor`, `queue` and `timers` the workqueue. A KubeletConfig has a
`uid`, as owner references and the garbage collector go by it. The shortening of
`garbageCollectionFor` is two steps, `DeleteConfigMap` that reads it and
`ForgetDeleted` that writes it, because the event handler appends to it without
synchronisation. The status patches of the operator's controller, which wake this
one, are the action `PatchNROStatus`: one follows every change of the
specification.

### SchedulerController

`obj` are the objects of the scheduler by kind: for most, whether they are there;
the ConfigMap with the configuration in it; the Deployment with its replicas, the
configuration its hash stands for, its image and its Available condition. `mem` is
the ConfigMap among the manifests of the reconciler, into which every
reconciliation renders, and which a restart resets. The settings that rendering
always sets or removes are one opaque value, `args`; the name and the scoring
resources, which an empty specification leaves as they are, are kept apart.
`Reconcile` is `StartReconcile`, one `ApplyNext` per kind in the order of `State`,
`CheckDeployment` and `UpdateStatus`, with `ReportFailure` and `DegradeStatus` for
the early ends. A status may come from a version without the informer condition.

### HyperShift

The module extends `NROController` and instantiates `KubeletConfigController`: the
two share the resource, its cached copy, the ConfigMaps and the budget. `NROStep` is
a step of the one that leaves the other alone. `KCStep` is a step of the other: a
ConfigMap it creates or writes queues a request for the first one, by
`configMapToNUMAResourceOperator`. `CacheReceives` takes an update of the resource to
the queues of both through the predicates of the code, and `Restart` takes both down.
`excludes` is `spec.podExcludes`, which only the KubeletConfig controller reads.
`lost` records the pools whose deletion was noted in memory and forgotten: with the
process, or because the event handler appended the note while a reconciliation
shortened the list. A behaviour starts when the process does, in a cluster an earlier
one had caught up with.

### ObjectApply and ObjectStore

An object is its specification (`body`), the label the operator sets (`mark`), what
others added, what the cluster filled in, and its status. `objs` is the API server,
`cache` the copy of the operator, `existing` what the present pass has read, and
`fresh` says whether such a copy has the current resource version. `Read` looks up
all objects, each of which may fail; then `DeleteUnwanted`, `CreateMissing` or
`MergeExisting` treats one after the other. `Places` are the positions in the list,
and how an object is merged goes with its place. The merge functions are those named
in the lists of `TreeAgnostic` and `State`. `AfterMerge` models that `Labels` and
`Annotations` write into the map of the existing object before it is compared.

`Wakes` says which changes are reported, from `SetupWithManager` of the controller
that applies the object. All events of `OwnedAlways` are. Those of
`OwnedWithPredicate` are if they create or delete the object, or if the update
passes the predicate (`UpdateFunc`): the generation differs, which only kinds in
`HasGeneration` have, or the labels do. The model does not tell labels from
annotations, so where the predicate looks at labels only it may answer either way.
Nothing wakes the operator for the other kinds. Every change is judged when it is
made; `pending` are the objects with a report on its way, which `CacheSync` delivers
together with the object. The history variable `unseen` holds the objects that others
put out of order without a report since the operator last read them.

### Flagcodec, ApiVersions, OperandManifests, ExporterManifests, SchedulerConfig

Records and sequences in place of the Go structures, with `Nil` and `ptr(v)` for
optional fields. Only what the code reads or changes is in a manifest: a role has
its name and, for the scheduler, its lease, but no rules; a binding has its role and
its subject; a constraint its name, its SELinux type and its users; a DaemonSet its
arguments, mounts, environment, image, security context, tolerations and pool. The
operators take the manifest and return it changed, in the order of the calls in the
code, so what a call leaves alone stays. The command line flags are sequences in
which a flag that is set again keeps its place.

### Startup and OperatorProcess

`proc` is the process: how far `main` has come, what it has learned, and the
manifests its reconcilers own. `DiscoverCluster`, `FetchTLSProfile` and
`StartManager` are the three stretches of `main` between which the cluster may
change; every one may exit. The watcher ends the process when the TLS profile
differs from the one read at start.

In `OperatorProcess` a reconciliation is one step, for any prefix of the shared
objects and any subset of the node groups that may fail; the interleavings within
one are the subject of `NROController` and `SchedulerController`. `nro` and `sched`
are the specifications as stored, in v1. A client of v1alpha1 writes through the
conversion webhook, which is part of the process, or reads, changes the log level
and writes back. The API server keeps the workloads as they are applied; that
others change them is the subject of `ObjectApply`.

The cache re-lists nothing by itself in the models: controller-runtime's resync,
hours apart, is not an event here.

## Runs

All bounds are constants: `Pools`, `MaxGroups`, `MaxNodes`, `MaxGen` (generations
of the resource in `HyperShift`) and `Budget`, the number of disturbances (edits,
failures, crashes, events from outside, by kind in `Disturbances`). In
`SchedulerController` no disturbance follows one of a kind in `Closing`. Everything the
controllers, the machine config operator, the DaemonSet controller, the garbage
collector and the watch cache do is unbounded. Deadlock is not checked: a
controller with nothing to do rests.

| run | shows |
| --- | --- |
| `trees` | up to three groups over three pools with any labels on OpenShift, valid and not: accepted groups share no DaemonSet; cleaner and writer agree; pool events are mapped as trees are found. The trees of accepted groups are reconciled with every outcome: the reduction is the worst result, collects the DaemonSets of complete trees only, and takes the shortest delay unless a tree waits without one. Three trees are enough to have a current, a replaced and a later step. HyperShift is covered by the theorems. |
| `nro_one_pool` | edits, crashes, failures, stale reads and deletions of the exporter, two of them at any points: asleep, the operator has missed nothing (`NoLostWakeup`), and its status is true (`StatusTellsTruth`). Two are needed for an edit followed by a crash, a failure or a stale read. Liveness: the operator stops waking itself (`ComesToRest`). |
| `nro_two_trees` | the safety properties with two pools in one tree, two trees, or overlapping trees, and a pool without machine config selector; an edit, a pause or a rollout at any point. |
| `nro_any_event` | all seventeen kinds of disturbance: the policy of an exporter always follows the MachineConfig, and foreign DaemonSets are left alone. |
| `hypershift` | the two controllers together, from a cluster both have caught up with: after any two of edits, deletions, faults and crashes the exporter runs with the KubeletConfig and the exclusions of now (`ExportersFollowKubeletConfig`), the status is true, no ConfigMap outlives its KubeletConfig unless the note of the deletion was forgotten (`NoOrphanedConfig`), and the writes of each do not keep the other awake (`BothComeToRest`). Two disturbances are an edit and a fault or crash on its way through both, or the only node group taken away and put back; one pool and one KubeletConfig suffice for what passes between the controllers, and the theorems cover any number. |
| `kubelet_config` | two KubeletConfigs and two disturbances on OpenShift and HyperShift: asleep, every usable KubeletConfig has reached its ConfigMap (`ConfigReachesPool`); in the end only requests that cannot succeed remain (`ComesToRest`). Two of each are needed for a note of a deletion to be followed by another one, or by the request of another KubeletConfig. |
| `sched` | four specifications, up to four nodes, and two disturbances of nine kinds, of which an edit, a crash, a failure, a stale read or a drift may come first and any may come last: asleep, the Deployment has the replicas the nodes allow and runs the configuration in the ConfigMap, which is the one the specification renders to; the status is true; the Deployment is only written with matching leader election and after its ConfigMap; the operator comes to rest. Four nodes are needed to be above, at and below the cap of three replicas. |
| `object_apply` | a ServiceAccount, a Service and a DaemonSet to be kept and a MachineConfig to be deleted, with two changes by others or failures: every write brings the object as it is at that moment to its desired form, and leaves alone what belongs to others (`ActsOnCurrentObject`, the refinement of `ObjectStore`); in the end nothing is queued and the objects are as desired, unless others changed one in a way the watches do not report after the last pass read it (`ConvergesToDesired`). The four are one object not watched, one watched whose specification has no generation, one watched in full, and one to be deleted. Two are a change between the read and the write of an object, and a failure or another change on the way to repairing it. |
| `operator_process` | two disturbances of eleven kinds on OpenShift and HyperShift: nothing of an earlier specification or of another group stays in the DaemonSets or in the scheduler's objects, but for what the code keeps on purpose (`DaemonSetsFollowSpec`, `SchedulerFollowsSpec`); the templates stay valid (`TemplatesValid`); a client of v1alpha1 gets what it wrote with the defaults of its version (`LegacyConfigHonoured`); the status of the scheduler says what the configuration decodes to (`StatusMatchesConfig`); no workload is there without the account, roles, constraint and lease it needs, at whatever object a reconciliation ended (`WorkloadsAuthorised`); and a change of the TLS profile reaches the workloads whenever it happens (`TLSReachesWorkloads`). Two are needed for two specifications one after the other, or one and a failure or restart; the specifications are chosen so that each sets what another leaves out. |

`NoLostWakeup` and `StatusTellsTruth` are checked without the events the code is
built not to notice: relabelling or deletion of pools, deletion of a kubelet
ConfigMap or of an object of an unwatched kind, a failing List, a failing deletion
of a dangling object, and nodes that change their role (`relabel`, `pools`,
`cmdelete`, `unwatched`, `listfault`, `cleanupfault`).
On HyperShift, `kubelet_config` and `hypershift` leave out that a KubeletConfig is
deleted and created again, when the code deletes the ConfigMap of the new one, and
that somebody deletes a ConfigMap, which has no owner there and so wakes nobody.

Three runs show where the code and what is written about it part:

| run | what happens |
| --- | --- |
| `trees_polled` | a tree with a paused pool before one that waits 5 or 60 seconds: the reduced step has no delay and nothing polls the second tree. |
| `kc_deleted` | OpenShift: a request for a KubeletConfig that is gone, in flight when it was deleted or made for the owner of its garbage-collected ConfigMap, is retried for ever. |
| `sched_drift` | a change of the data of the scheduler's ConfigMap passes no predicate, as ConfigMaps have no generation, and stays. |

### Behaviour worth knowing

What the translation brought to light and the properties allow for:

- The name and the scoring resources of the scheduler stay in the manifests in
  memory when a specification no longer sets them, until the process restarts
  (`Forgettable`). A resync period below half a second is rounded to zero, and
  then there is none.
- The pull policy of an exporter depends on the images of earlier specifications
  (`Template`). A failed discovery of the operator's own image lasts as long as the
  process, and so does the cluster version found at its start.
- A v1alpha1 client that reads and writes back loses the fields v1alpha1 does not
  have. Its mode `EnabledExclusiveResources` is not converted and is right only
  because it is the default of v1. `ConvertFrom` needs every group to have a
  configuration (`ConvertibleFrom`).
- Refreshing on events alone leaves `--sleep-interval` as it was.
- No controller watches Services and NetworkPolicies, nor the exporter's ClusterRoles
  and ClusterRoleBindings and the scheduler's Roles and RoleBindings: one that is
  deleted or changed stays so until something else wakes the operator. The same
  goes for the contents of ServiceAccounts, of the exporter's Roles and RoleBindings
  and of the scheduler's ClusterRoles, ClusterRoleBindings and ConfigMap, which have
  no generation; their deletion is noticed.
- A label the operator sets and somebody changed is not repaired when nothing else
  differs, because the comparison sees the map the merge has already written to.
- The scheduler's network policy that denies everything is applied before its
  exception, and after the Deployment; for the exporter it is the other way round.
- A failed deletion of a dangling DaemonSet or MachineConfig is only logged. After
  an edit the status patch comes back as an event and the deletion is tried again;
  if it fails again nothing retries it until something else happens.
- A KubeletConfig on HyperShift that moves to another pool leaves the ConfigMap of
  the former pool behind.
- On plain Kubernetes `main` exits, as there is no TLS profile to read.

### Fairness

`FairSpec` of `NROController`: weak fairness of the worker (a request in the queue
is taken, and a running Reconcile goes on), of delayed requests, of the delivery
of the watch, and of the machine config operator and the DaemonSet controller for
each pool. These are what controller-runtime and Kubernetes provide. Nothing is
assumed of users, nor that failures stop other than by `Budget`.
`KubeletConfigController` assumes the same of its worker, its delayed requests
and the garbage collector, and that the status patch after an edit is made. Taking
a request is strongly fair for each KubeletConfig, because the workqueue is first
in, first out: a request that fails for ever does not starve another one.
`SchedulerController` assumes weak fairness of the worker, of delayed requests, of
the watch, and that a Deployment becomes available. `HyperShift` assumes weak
fairness of each of the two workers (with its delayed requests), of the cache, and
of the DaemonSet controller for each pool. `ObjectApply` assumes weak fairness of
the worker and of the watch for each object. `OperatorProcess` assumes that the kubelet starts the process again and
`main` goes on, and that each of the two workers takes its requests.

## Refinement

`ActsOnCurrentObject` is `ObjectStore!Spec` with the identity on `objs`: every step
of `ObjectApply`, with its cache, its copies and its order, is a step of the
abstract store in which the operator creates a missing object, enforces the present
one or removes an unwanted one, or it stutters. It rests on the resource version:
an update from a stale copy would undo what others wrote, and no action of
`ObjectStore` does that. `ApplyImplementsStore` proves it for any objects.

## Theorems

For every value of the constants that satisfies the named assumptions. These say
that the constants have their types, that the markers (`NoKC`, `NoDS`, ...) are none
of the values they stand apart from, and that the initial state is one of the
program: `PlatformAssumption`, `NamesAssumption`, `SpecsAssumption`,
`InitAssumption`, `SchedAssumption`, `ApplyAssumption`, `KCAssumption`,
`HyperShiftAssumption`. TLC evaluates each in the runs.

Node groups and trees:

- `TreesProofs`: `NoSharedDaemonSetTheorem`, `CleanerAgreesTheorem`,
  `EventsFollowTreesTheorem`. They follow from acceptance alone. The central lemma
  is `NamedTree`: an accepted group by name has exactly the pool it names.
- `TreesProofs`: `OutcomeIsWorstTheorem`, `ReportedTheorem`, `ShortestWaitTheorem`,
  for any number of trees in any order. The reduction is a step per tree in the
  model, so the invariant `TreesInv` goes over the trees reduced so far: what each of
  them returned, which outcome `acc` has because of them (`StepInv`), and which
  DaemonSets they put in (`NamesInv`).

NUMAResourcesOperator controller:

- `NROProofs!TypeCorrect`: `TypeOK`. It needs to be strengthened by `IndexOK`:
  whenever a tree is in process, its index is within the node groups of the copy
  the reconciliation works on.
- `NROProofs!PolicyTheorem`: `PolicyFollowsMachineConfig`. The inductive invariant
  `PolicyInv` says that once a tree has passed the MachineConfig step on
  OpenShift, the MachineConfigs of its pools exist exactly if it has the custom
  policy, until the tree is done; it is stable because only this controller
  writes them.
- `NROProofs!ForeignTheorem`: `ForeignLeftAlone`, an action property that follows
  from the definitions and types.
- `NROWakeProofs`: `NoLostWakeupTheorem`, `StatusTheorem`, under the hypothesis
  `EverythingNoticed`: none of the kinds of disturbance listed above that the code
  does not notice. `StatusTheorem` admits that ConfigMaps are deleted;
  `NoLostWakeupTheorem` does not, as the exporter keeps the hash of a ConfigMap that
  is gone. The inductive invariant `WakeInv` says what must be true at every point of
  a running reconciliation if no request is waiting: what it has read is still so,
  what it has written for the trees before the present one is still there, and the
  results collected are those of these trees. Either an event invalidates that, and
  then it queues a request, or the reconciliation ends in a state in which nothing is
  left to do, or with a delay or an error. `UnreadInv` adds that no hash is of a
  ConfigMap that is gone. The invariant, the steps of the world and those of a
  reconciliation up to its trees are in `NROProofs`.

NUMAResourcesScheduler controller:

- `SchedulerProofs!TypeCorrect`: `TypeOK`, which is inductive as it stands.
- `SchedulerProofs!ElectionTheorem`: `ElectedReplicas`. The inductive invariant
  `ElectionInv` says that while objects are applied the manifests in memory agree
  with the replicas computed, and that the ConfigMap, if it exists, carries the
  configuration that was read until its turn and the one in memory afterwards.
  It rests on the order of the objects, on writes being refused when the object
  changed since it was read, and on nobody else changing the configuration itself.
- `SchedulerProofs`: `NoLostWakeupTheorem`, `StatusTheorem`, under the hypothesis
  that nodes do not change their role (`relabel`). `WakeInv` is to this controller
  what it is to the other one, object by object in the order they are applied.

KubeletConfig controller:

- `KubeletConfigProofs!KCTypeCorrect`: `TypeOK`, strengthened by `HasPool`: on
  HyperShift a KubeletConfig has its pool, which the code reads without a test.
- `KubeletConfigProofs!ConfigReachesTheorem`: `ConfigReachesPool`. The inductive
  invariant `ReachInv` says that every KubeletConfig that is usable has a request
  waiting, or is about to be written, or has reached its ConfigMap while nothing
  older is being written (`RequestInv`), and, on HyperShift, that what is noted or
  being deleted belongs to a KubeletConfig that is gone (`OwnerInv`). On OpenShift the
  ConfigMap has an owner, so that its deletion or a write by another KubeletConfig of
  the pool comes back as a request.
  The hypothesis `Orderly` is about HyperShift, where ConfigMaps have no owner:
  each KubeletConfig has its own pool, none is created again after its deletion,
  and nobody deletes ConfigMaps. On OpenShift nothing is excluded.

Both controllers on HyperShift, for any pools, node groups and KubeletConfigs.
`HyperShiftKCProofs` has the invariants of the KubeletConfig controller,
`HyperShiftProofs` those of the other one and the theorems:

- `NoOrphanedTheorem`: `NoOrphanedConfig`, re-creation of KubeletConfigs and all
  disturbances included. The invariant `FollowInv` says that every ConfigMap that is
  there or about to be written has a KubeletConfig, or a note in the list, unless the
  note was forgotten; and that the ConfigMap is gone before its note is. The
  hypothesis `OnePool` says that a KubeletConfig stays with its pool.
- `HyperShiftStatusTheorem`: `StatusTellsTruth`, under `EverythingNoticed`. A step of
  the composition is a step of `NROController`, which keeps `WakeInv` by
  `WakeInvStep`, or one it does not have: an edit of the exclusions (`EditWakes`), or a
  step of the KubeletConfig controller, of which it sees that ConfigMaps change and a
  request is queued unless they only go (`KCFrameWakes`).
- `ExportersTheorem`: `ExportersFollowKubeletConfig`, under `EverythingNoticed`,
  `OnePool` and `Orderly` (a pool has one KubeletConfig, and none is created again).
  `WakeInv` gives that the exporters run with the ConfigMaps. That the ConfigMaps are
  those of the KubeletConfigs takes both controllers: the predicate of the
  KubeletConfig controller holds back the update that edits the node groups, and with
  it an edit of the exclusions made at the same time, so until the status of the new
  generation comes nobody need have been told. `RequestInv` therefore says that every
  usable KubeletConfig is in its ConfigMap, on its way or waiting only if the
  condition of the cached resource is of its generation; `GenInv` says that the status
  is never ahead of the cache, and the cache behind the resource when it lacks an
  edit; and `WakeInv` that an operator that sleeps has brought the condition to the
  present generation. `GoneInv` says that what is noted or being deleted is gone, so
  that no deletion takes the ConfigMap of a living KubeletConfig.

`LeastExists`, that a set of numbers that is not empty has a least one, is a
hypothesis of the lemmas of `HyperShiftKCProofs` and is proved in `HyperShiftProofs`
(`LeastNumber`), where the theorems use it: the proofs of the former stay clear of the
libraries, which make every one of them slower.

Object apply:

- `ObjectApplyProofs!ApplyTypeCorrect`: `TypeOK`.
- `ObjectApplyProofs!ApplyImplementsStore`: `ActsOnCurrentObject`. The invariant
  `StoreInv` adds `CopiesAreCurrent`: a copy whose resource version is current, in
  the cache or in what the pass has read, is equal to the object. Then each action of the loop is mapped to its step of
  `ObjectStore`, the refused and failed writes to stuttering.

Only model-checked:

- all liveness (`ComesToRest`, `BothComeToRest`, `ConvergesToDesired`), which needs
  fairness and ENABLED;
- `OperatorProcess`, with all its invariants: its DaemonSets, flags and objects are
  built by folds over node groups, arguments and lists, and what these compute for
  every input needs an induction over the sequence. That also goes for `TypeOK`, as
  the templates are values of these folds;
- the three runs that end in a counterexample.

## Plan

1. Proofs: the part of `OperatorProcess` about the scheduler, which has no folds
   (`StatusMatchesConfig`).
2. Lemmas about the pure operators: `Merge` is idempotent and its result complete,
   a v1alpha1 specification survives the conversion, the security context follows
   the SELinux type of the constraint.
3. Back-filling of the operator's conditions on upgrade (`pkg/status`).

## Not modelled

- Vendored libraries (client, caches, the deployer's platform code, the exporter),
  except for how this code uses them.
- YAML and Ignition encoding, the rules of roles, the bytes of SELinux policies,
  wording of messages, logging, metrics of the operator, leader election of the
  operator itself and health checks: nothing above depends on them.
- The modes of the program that print and end (render, platform detection,
  introspection, lifecycle events), and the parsing of its own flags: their results
  are constants of `Startup`.
- The one attempt at start-up to delete a ClusterRoleBinding of old versions: a
  failure of it is only logged and nothing else reads that object.
- Conversion of statuses between the versions; back-filling of conditions.
- The exporter's main program, `nrovalidate`, the waiters and comparisons of the
  end-to-end tests, and the developer tools: input and output without state that
  the operator keeps.
- Generated deep copies. Where sharing instead of copying matters, it is modelled
  at the place (`CoreAfter`, `AfterMerge`).
