----------------------------- MODULE ObjectApply -----------------------------
(***************************************************************************)
(* Applying a list of objects: the existing ones are read from the watch   *)
(* cache (FromClient...), then each is created, merged and updated, or     *)
(* deleted (pkg/apply, pkg/objectstate), while others change the objects.  *)
(* The resource version is what the merge carries over from the copy that  *)
(* was read: the API server refuses an update whose copy is out of date.   *)
(* A copy is therefore modelled together with whether it is current.       *)
(***************************************************************************)
EXTENDS Naturals, Sequences, FiniteSetsExt

CONSTANTS
    Platform,           \* "OpenShift", "HyperShift" or "Kubernetes"
    Focus,              \* the objects this instance follows
    Wanted,             \* those of them that should exist
    Absent,             \* no such object
    Budget              \* bound on changes by others and failures

VARIABLES
    objs,       \* the objects in the API server
    cache,      \* the operator's watch cache
    synced,     \* whether the cached copy is the current version
    queued,     \* a request is in the workqueue
    pc,         \* the position in the list being applied, or 0
    existing,   \* the copies this pass read
    fresh,      \* whether such a copy is still the current version
    failed,     \* objects this pass could not read
    pending,    \* objects with an event on its way that will wake the operator
    unseen,     \* objects that others put out of order without such an event,
                \* since the operator last read them (history)
    budget      \* changes by others and failures left

reader == <<pc, existing, fresh, failed>>
watch == <<pending, unseen>>
vars == <<objs, cache, synced, queued, reader, watch, budget>>

-----------------------------------------------------------------------------
(* The lists of objects and how each is merged.                            *)

Obj(name, kind, merge) == [name |-> name, kind |-> kind, merge |-> merge]

\* The exporter's objects; the security constraints exist on OpenShift only.
TreeAgnostic ==
    << Obj("rte-sa", "ServiceAccount", "ServiceAccountForUpdate"),
       Obj("rte-role", "Role", "ObjectForUpdate"),
       Obj("rte-rolebinding", "RoleBinding", "ObjectForUpdate"),
       Obj("rte-clusterrole", "ClusterRole", "ObjectForUpdate"),
       Obj("rte-clusterrolebinding", "ClusterRoleBinding", "ObjectForUpdate"),
       Obj("rte-np-api", "NetworkPolicy", "MetadataForUpdate"),
       Obj("rte-np-metrics", "NetworkPolicy", "MetadataForUpdate"),
       Obj("rte-np-default", "NetworkPolicy", "MetadataForUpdate") >>
    \o (IF Platform = "Kubernetes" THEN <<>>
        ELSE << Obj("rte-scc", "SecurityContextConstraints", "ObjectForUpdate"),
                Obj("rte-sccv2", "SecurityContextConstraints", "ObjectForUpdate") >>)
    \o << Obj("rte-service", "Service", "ServiceForUpdate") >>

\* The CRD, the MachineConfig of a pool, the DaemonSet of a tree and the
\* kubelet ConfigMap are lists of their own.
SingleObjects ==
    << Obj("crd", "CustomResourceDefinition", "ObjectForUpdate"),
       Obj("machineconfig", "MachineConfig", "ObjectForUpdate"),
       Obj("daemonset", "DaemonSet", "ObjectForUpdate"),
       Obj("kubelet-cm", "ConfigMap", "ObjectForUpdate") >>

\* The scheduler's objects.
SchedulerState ==
    << Obj("sched-sa", "ServiceAccount", "ServiceAccountForUpdate"),
       Obj("sched-cm", "ConfigMap", "MetadataForUpdate"),
       Obj("sched-clusterrole", "ClusterRole", "MetadataForUpdate"),
       Obj("sched-clusterrolebinding", "ClusterRoleBinding", "MetadataForUpdate"),
       Obj("sched-role", "Role", "MetadataForUpdate"),
       Obj("sched-rolebinding", "RoleBinding", "MetadataForUpdate"),
       Obj("sched-deployment", "Deployment", "ObjectForUpdate"),
       Obj("sched-np-default", "NetworkPolicy", "MetadataForUpdate"),
       Obj("sched-np-api", "NetworkPolicy", "MetadataForUpdate") >>

Objects == TreeAgnostic \o SingleObjects \o SchedulerState

\* Where in the list the objects are that this instance follows.
Places == {i \in DOMAIN Objects : Objects[i].name \in Focus}
Names == {Objects[i].name : i \in Places}
Place(n) == CHOOSE i \in Places : Objects[i].name = n
Kind(n) == Objects[Place(n)].kind
MergeOf(n) == Objects[Place(n)].merge

Filled == {n \in Names : Kind(n) \in {"ServiceAccount", "Service"}}

-----------------------------------------------------------------------------
(* Merging and comparing.                                                  *)

Desired == [body |-> "desired", mark |-> "own", others |-> FALSE,
            filled |-> FALSE, status |-> "old"]

\* An object without labels has no label map at all.
NoLabels(o) == o.mark = "none" /\ ~o.others

\* Labels and annotations: the current ones, overridden by the desired ones.
MetadataForUpdate(cur, upd) == [upd EXCEPT !.others = cur.others]

StatusForUpdate(cur, upd, kind) ==
    IF kind \in {"Deployment", "DaemonSet", "Service", "CustomResourceDefinition"}
    THEN [upd EXCEPT !.status = cur.status]
    ELSE upd

ObjectForUpdate(cur, upd, kind) == StatusForUpdate(cur, MetadataForUpdate(cur, upd), kind)

\* preserveServiceAccountPullSecrets and preserveIPConfigurations.
PreserveFilled(cur, upd) == [upd EXCEPT !.filled = cur.filled]

Merge(n, cur, upd) ==
    CASE MergeOf(n) = "MetadataForUpdate" -> MetadataForUpdate(cur, upd)
      [] MergeOf(n) = "ObjectForUpdate" -> ObjectForUpdate(cur, upd, Kind(n))
      [] OTHER -> ObjectForUpdate(cur, PreserveFilled(cur, upd), Kind(n))

\* The merge writes the labels and annotations into the map of the object that
\* was read, if it has one, before the two are compared.
AfterMerge(cur, merged) == IF NoLabels(cur) THEN cur ELSE [cur EXCEPT !.mark = merged.mark]

Compare(cur, merged) == AfterMerge(cur, merged) = merged

-----------------------------------------------------------------------------
(* The watches (SetupWithManager of the controllers).                      *)

\* Objects of the NUMAResourcesOperator and KubeletConfig controllers; the others
\* are the scheduler controller's.
Exporter == {n \in Names : Place(n) <= Len(TreeAgnostic \o SingleObjects)}

\* Those whose events all reach their controller.  The kubelet ConfigMap has no
\* owner on HyperShift, and SCCs are watched on OpenShift only.
OwnedAlways ==
    {n \in Exporter :
        \/ Kind(n) = "CustomResourceDefinition"
        \/ Kind(n) \in {"SecurityContextConstraints", "ConfigMap"} /\ Platform = "OpenShift"}

\* Those whose updates must pass the predicate p.  No controller hears of Services
\* and NetworkPolicies, nor of the exporter's ClusterRoles and ClusterRoleBindings
\* and the scheduler's Roles and RoleBindings.
OwnedWithPredicate ==
    {n \in Exporter :
        \/ Kind(n) \in {"ServiceAccount", "RoleBinding", "Role", "DaemonSet"}
        \/ Kind(n) = "MachineConfig" /\ Platform = "OpenShift"}
    \cup {n \in Names \ Exporter :
            Kind(n) \in {"ClusterRole", "ClusterRoleBinding", "ServiceAccount", "ConfigMap",
                        "Deployment"}}

\* The API server counts the generations of these kinds (of those behind p).
HasGeneration == {n \in Names : Kind(n) \in {"DaemonSet", "Deployment", "MachineConfig"}}

\* Whether the labels differ, the annotations too for the scheduler's predicate.  The
\* model does not tell the two apart: for the exporter's objects either may be.
MetadataDiffers(n, old, new) ==
    IF <<old.mark, old.others>> = <<new.mark, new.others>> THEN {FALSE}
    ELSE IF n \in Exporter THEN BOOLEAN ELSE {TRUE}

\* The predicate p: an update passes if the generation or the labels differ.
UpdateFunc(n, old, new) ==
    IF n \in HasGeneration /\ old.body # new.body THEN {TRUE} ELSE MetadataDiffers(n, old, new)

\* Whether the event of a change of n wakes the controller.
Wakes(n, old, new) ==
    CASE n \notin OwnedAlways /\ n \notin OwnedWithPredicate -> {FALSE}
      [] n \in OwnedAlways \/ old = Absent \/ new = Absent -> {TRUE}
      [] OTHER -> UpdateFunc(n, old, new)

InOrder(n, o) == IF n \in Wanted THEN o # Absent /\ o.body = "desired" ELSE o = Absent

-----------------------------------------------------------------------------
Store == INSTANCE ObjectStore WITH FilledByServer <- Filled

ASSUME ApplyAssumption == Places # {} /\ Absent \notin Store!Object /\ Budget \in Nat

\* Every variable has its type; in particular a pass stays within its list, with the
\* copies it read for the objects of that list.
TypeOK ==
    /\ objs \in [Names -> Store!Object \cup {Absent}]
    /\ cache \in [Names -> Store!Object \cup {Absent}]
    /\ existing \in [Names -> Store!Object \cup {Absent}]
    /\ synced \in [Names -> BOOLEAN] /\ fresh \in [Names -> BOOLEAN]
    /\ failed \in SUBSET Names /\ queued \in BOOLEAN
    /\ pending \in SUBSET Names /\ unseen \in SUBSET Names
    /\ pc \in {0} \cup Places /\ budget \in 0..Budget

Idle == pc = 0

ResetReader ==
    /\ pc' = 0 /\ failed' = {}
    /\ existing' = [n \in Names |-> Absent] /\ fresh' = [n \in Names |-> FALSE]

Init ==
    /\ objs = [n \in Names |-> Absent] /\ cache = objs
    /\ synced = [n \in Names |-> TRUE] /\ queued = TRUE
    /\ pc = 0 /\ failed = {} /\ existing = objs /\ fresh = [n \in Names |-> FALSE]
    /\ pending = {} /\ unseen = {} /\ budget = Budget

Disturb == budget > 0 /\ budget' = budget - 1

\* Object n becomes o in the API server: the cached copy is out of date, and an
\* event is on its way to the operator.
Stored(n, o) ==
    /\ objs' = [objs EXCEPT ![n] = o] /\ synced' = [synced EXCEPT ![n] = FALSE]
    /\ \E wakes \in Wakes(n, objs[n], o) :
         /\ pending' = IF wakes THEN pending \cup {n} ELSE pending
         /\ unseen' = IF ~wakes /\ InOrder(n, objs[n]) /\ ~InOrder(n, o)
                      THEN unseen \cup {n} ELSE unseen

\* FromClient: every object is looked up in the cache; a lookup may fail.
Read ==
    /\ Idle /\ queued
    /\ queued' = FALSE /\ pc' = Min(Places)
    /\ existing' = cache /\ fresh' = synced /\ unseen' = {n \in unseen : ~synced[n]}
    /\ \/ failed' = {} /\ UNCHANGED budget
       \/ Disturb /\ \E n \in Names : failed' = {n}
    /\ UNCHANGED <<objs, cache, synced, pending>>

Current == Objects[pc].name

Later == {i \in Places : i > pc}

\* Going on past the last object.
AdvanceOffByOne(current) ==
    /\ pc' = IF Later = {} THEN pc + 1 ELSE Min(Later)
    /\ fresh' = current /\ UNCHANGED <<existing, failed>>

\* The next object of the list, or the end of the pass; current tells which of the
\* copies that were read are still the current version.
Advance(current) ==
    IF Later = {} THEN ResetReader
    ELSE pc' = Min(Later) /\ fresh' = current /\ UNCHANGED <<existing, failed>>

\* The pass ends and its error is not returned.
AbortQuietly == queued' = queued /\ ResetReader /\ UNCHANGED <<objs, cache, synced, watch, budget>>

\* The pass ends and the request is retried: an error, or a panic that the
\* controller runtime recovers (see LoadFailed).
Abort == queued' = TRUE /\ ResetReader /\ UNCHANGED <<objs, cache, synced, watch, budget>>

\* A lookup failed for another reason than a missing object.  applyObjects
\* returns the error; the other callers hand a nil object to the merge or to
\* the deletion, which panics.
LoadFailed == ~Idle /\ Current \in failed /\ Abort

Skip == queued' = queued /\ Advance(fresh) /\ UNCHANGED <<objs, cache, synced, watch, budget>>

\* A request the API server accepts.
Write(o) ==
    /\ Stored(Current, o) /\ Advance([fresh EXCEPT ![Current] = FALSE])
    /\ UNCHANGED <<cache, queued, budget>>

\* ApplyState without a desired object: delete what was found.  The request
\* names the object and carries no version.
DeleteUnwanted ==
    /\ ~Idle /\ Current \notin failed /\ Current \notin Wanted
    /\ CASE existing[Current] = Absent -> Skip
         [] objs[Current] = Absent -> Abort
         [] OTHER -> Write(Absent)

\* ApplyObject on an object that was not found.
CreateMissing ==
    /\ ~Idle /\ Current \notin failed /\ Current \in Wanted
    /\ existing[Current] = Absent
    /\ IF objs[Current] # Absent THEN Abort ELSE Write(Desired)

\* An update without the version that was read.
AcceptedBlindly(n) == objs[n] # Absent

\* The API server accepts an update of the current version.
Accepted(n) == objs[n] # Absent /\ fresh[n]

\* ApplyObject on an object that was found.  The API server keeps its own
\* status, and an update that changes nothing makes no new version.
MergeExisting ==
    /\ ~Idle /\ Current \notin failed /\ Current \in Wanted
    /\ existing[Current] # Absent
    /\ LET merged == Merge(Current, existing[Current], Desired)
       IN  IF Compare(existing[Current], merged) THEN Skip
           ELSE IF ~Accepted(Current) THEN Abort
           ELSE LET o == [merged EXCEPT !.status = objs[Current].status]
                IN  IF o = objs[Current] THEN Skip ELSE Write(o)

ApplyNext == LoadFailed \/ DeleteUnwanted \/ CreateMissing \/ MergeExisting

-----------------------------------------------------------------------------
(* The rest of the cluster.                                                *)

\* A change by somebody else: the copies of it are out of date.
Foreign(n, o) ==
    /\ Stored(n, o) /\ fresh' = [fresh EXCEPT ![n] = FALSE]
    /\ UNCHANGED <<cache, queued, pc, existing, failed>>

EditObject(n) ==
    /\ objs[n] # Absent /\ Disturb
    /\ \/ objs[n].body = "desired" /\ Foreign(n, [objs[n] EXCEPT !.body = "other"])
       \/ \E m \in {"other", "none"} :
            objs[n].mark # m /\ Foreign(n, [objs[n] EXCEPT !.mark = m])
       \/ ~objs[n].others /\ Foreign(n, [objs[n] EXCEPT !.others = TRUE])
       \/ /\ Kind(n) \in {"Deployment", "DaemonSet", "Service", "CustomResourceDefinition"}
          /\ \E s \in {"old", "new"} :
               objs[n].status # s /\ Foreign(n, [objs[n] EXCEPT !.status = s])

DeleteObject(n) == objs[n] # Absent /\ Disturb /\ Foreign(n, Absent)

\* An object that is not wanted any more was created under another specification.
LeaveOver(n) == n \notin Wanted /\ objs[n] = Absent /\ Disturb /\ Foreign(n, Desired)

\* The cluster adds pull secrets to a ServiceAccount, addresses to a Service.
FillIn(n) ==
    /\ n \in Filled /\ objs[n] # Absent /\ ~objs[n].filled
    /\ Foreign(n, [objs[n] EXCEPT !.filled = TRUE])
    /\ UNCHANGED budget

\* The watch delivers the current version, and wakes the controller if any of the
\* changes since its copy passes the predicates.
CacheSync(n) ==
    /\ ~synced[n]
    /\ cache' = [cache EXCEPT ![n] = objs[n]] /\ synced' = [synced EXCEPT ![n] = TRUE]
    /\ queued' = (queued \/ n \in pending) /\ pending' = pending \ {n}
    /\ UNCHANGED <<objs, reader, unseen, budget>>

Others == \E n \in Names :
             EditObject(n) \/ DeleteObject(n) \/ LeaveOver(n) \/ FillIn(n) \/ CacheSync(n)

Next == Read \/ ApplyNext \/ Others

\* The controller runs and the watch delivers; nobody has to edit, delete or
\* complete anything, and failures are not fair.
Fairness == WF_vars(Read) /\ WF_vars(ApplyNext) /\ \A n \in Names : WF_vars(CacheSync(n))

Spec == Init /\ [][Next]_vars /\ Fairness

-----------------------------------------------------------------------------
\* Whatever the operator reads from its cache and however the objects change
\* before it writes, what it does to an object is a create, an enforcement of
\* the desired form on the object as it is at that moment, or a removal: no
\* change made by others in between is lost (merge.go, apply.go ApplyObject).
ActsOnCurrentObject == Store!Spec

\* What the watches report of an object that is out of order: all of it, or that it
\* is missing or left over, or nothing.
Reported(n) ==
    \/ n \in OwnedAlways
    \/ n \in OwnedWithPredicate /\ (n \in HasGeneration \/ n \notin Wanted \/ objs[n] = Absent)

\* Once others leave the objects alone the operator stops writing, and then every
\* wanted object exists in its desired form and every other one is gone.  The
\* one exception is an object that others put out of order, in a way the watches
\* do not report, after the last pass read it; a pass that failed or was
\* refused and a reported change that races with a pass are always made up for
\* (SetupWithManager and its predicate p, apply.go, applyObjects).
ConvergesToDesired ==
    <>[](/\ ~queued /\ Idle
         /\ \A n \in Names :
              synced[n] /\ (InOrder(n, objs[n]) \/ (n \in unseen /\ ~Reported(n))))
=============================================================================
