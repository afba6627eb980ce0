-------------------------- MODULE OperandManifests --------------------------
(***************************************************************************)
(* The objects the operator installs besides the workloads themselves: the *)
(* built-in manifests, with placeholders for the namespace and the account *)
(* in some of them (manifests packages of the exporter, the scheduler and  *)
(* the metrics), and what fills them in: loading for a platform and a      *)
(* namespace, rendering when the operator starts, and the updates of a     *)
(* reconciliation.                                                         *)
(*                                                                         *)
(* An object is what others refer to: its name, its namespace, and what it *)
(* refers to itself.                                                       *)
(***************************************************************************)
EXTENDS ApiVersions, FiniteSetsExt

OpenShiftLike == {"OpenShift", "HyperShift"}

Account(name, ns) == [name |-> name, ns |-> ns]

\* A namespace that is not given leaves the placeholder.
Namespaced(obj, ns) == IF ns = "" THEN obj ELSE [obj EXCEPT !.ns = ns]

-----------------------------------------------------------------------------
(* The exporter.                                                           *)

ServiceAccount(ns) == Namespaced(Account("rte", ""), ns)

Role(ns) == Namespaced([name |-> "rte", ns |-> "default"], ns)

RoleBinding(ns) ==
    Namespaced([ns |-> "default", role |-> "rte", subject |-> Account("rte", "default")], ns)

ClusterRole == [name |-> "rte"]

ClusterRoleBinding == [role |-> "rte", subject |-> Account("rte", "default")]

\* NetworkPolicy: deny is the type of the policy that lets nothing through.
NetworkPolicy(type, ns) ==
    Namespaced([name |-> type, ns |-> "", pods |-> "resource-topology"], ns)

\* The two SELinux types of the exporter, and the SELinux policy that goes with the
\* legacy one (GetPolicy): the newest that is not newer than the cluster.
ContextType == "container_device_plugin_t"
ContextTypeLegacy == "rte.process"

KnownVersions == 10 .. 18

GetPolicy(ver) ==
    LET fit == {v \in KnownVersions : v <= ver.minor}
    IN  IF fit = {} THEN Min(KnownVersions) ELSE Max(fit)

\* makeIgnitionConfig: the policy, the unit that installs it, and the hooks if asked for.
IgnitionConfig(ver, hooks) ==
    [files |-> {<<"policy", GetPolicy(ver)>>} \cup (IF hooks THEN {<<"hook", 0>>, <<"script", 0>>} ELSE {}),
     units |-> {"install policy"}]

MachineConfig(ver, hooks) == [name |-> "50-resource-topology-exporter", spec |-> IgnitionConfig(ver, hooks)]

SecurityContextConstraint(customPolicy) ==
    [name |-> "scc", users |-> {}, selinux |-> IF customPolicy THEN ContextTypeLegacy ELSE ContextType]

SecurityContextConstraintV2 == [name |-> "scc-v2", users |-> {}, selinux |-> ContextType]

\* Service of the metrics.
Service(ns) == Namespaced([name |-> "numaresources-rte-metrics-service", ns |-> ""], ns)

\* NewWithOptions, with the manifest of the metrics.
NewWithOptions(plat, ver, ns, hooks, customPolicy) ==
    [plat |-> plat,
     mc |-> IF plat = "OpenShift" /\ customPolicy THEN ptr(MachineConfig(ver, hooks)) ELSE Nil,
     scc |-> IF plat # "Kubernetes" THEN ptr(SecurityContextConstraint(customPolicy)) ELSE Nil,
     sccv2 |-> IF plat # "Kubernetes" THEN ptr(SecurityContextConstraintV2) ELSE Nil,
     sa |-> ServiceAccount(ns), role |-> Role(ns), rolebinding |-> RoleBinding(ns),
     clusterrole |-> ClusterRole, clusterrolebinding |-> ClusterRoleBinding,
     default |-> NetworkPolicy("default", ns), apiserver |-> NetworkPolicy("apiserver", ns),
     metrics |-> NetworkPolicy("metrics", ns), service |-> Service(ns)]

\* GetManifests as main calls it.
GetManifests(plat, ver, ns) == NewWithOptions(plat, ver, ns, FALSE, TRUE)

\* RoleBinding and ClusterRoleBinding of objectupdate/rbac.
BindTo(binding, account, ns) ==
    [binding EXCEPT !.subject = Account(IF account = "" THEN @.name ELSE account, ns)]

\* SecurityContextConstraint of objectupdate/ocp.
Admit(scc, sa) == [i \in DOMAIN scc |-> [scc[i] EXCEPT !.users = @ \cup {sa}]]

\* Render, of the objects around the DaemonSet, without a name of their own: the
\* bindings and the constraints refer to the account.
RenderObjects(mf, ns) ==
    LET sa == IF mf.plat = "Kubernetes" THEN Namespaced(mf.sa, ns) ELSE mf.sa
    IN  [mf EXCEPT !.sa = sa,
                   !.rolebinding = BindTo(@, mf.sa.name, sa.ns),
                   !.clusterrolebinding = BindTo(@, mf.sa.name, mf.sa.ns),
                   !.scc = Admit(@, sa), !.sccv2 = Admit(@, sa)]

\* SecurityContextConstraint of objectupdate/rte, as a reconciliation calls it; it
\* would not survive a platform without constraints.
ForceLegacyContext(mf) == [mf EXCEPT !.scc = ptr([@[1] EXCEPT !.selinux = ContextTypeLegacy])]

-----------------------------------------------------------------------------
(* The scheduler.                                                          *)

SchedulerAccount == "secondary-scheduler"

SchedulerServiceAccount(ns) == Namespaced(Account(SchedulerAccount, "placeholder"), ns)

SchedulerRole(ns) ==
    Namespaced([name |-> "leader-elect", ns |-> "tas-scheduler", lease |-> "nrtmatch-scheduler"], ns)

SchedulerRoleBinding(ns) ==
    Namespaced([ns |-> "tas-scheduler", role |-> "leader-elect",
                subject |-> Account("topology-aware-scheduler", "tas-scheduler")], ns)

SchedulerClusterRole == [name |-> "topology-aware-scheduler"]

\* loadClusterRoleBinding.
SchedulerClusterRoleBinding(ns) ==
    BindTo([role |-> "topology-aware-scheduler", subject |-> Account(SchedulerAccount, "placeholder")], "", ns)

SchedulerNetworkPolicy(type, ns) ==
    Namespaced([name |-> type, ns |-> "", pods |-> "secondary-scheduler"], ns)

\* GetManifests of the scheduler, but for the ConfigMap and the Deployment.
GetSchedulerManifests(ns) ==
    [sa |-> SchedulerServiceAccount(ns), clusterrole |-> SchedulerClusterRole,
     clusterrolebinding |-> SchedulerClusterRoleBinding(ns),
     role |-> SchedulerRole(ns), rolebinding |-> SchedulerRoleBinding(ns),
     default |-> SchedulerNetworkPolicy("default", ns), apiserver |-> SchedulerNetworkPolicy("apiserver", ns)]

\* RoleForLeaderElection.
RoleForLeaderElection(role, ns, resource) == [role EXCEPT !.ns = ns, !.lease = resource]

\* The updates of syncNUMASchedulerResources, and those it would make without the
\* one of the binding.
UpdateRoleOnly(mf, ns, resource) == [mf EXCEPT !.role = RoleForLeaderElection(@, ns, resource)]

UpdateRBAC(mf, ns, resource) ==
    [mf EXCEPT !.role = RoleForLeaderElection(@, ns, resource),
               !.rolebinding = BindTo(@, mf.sa.name, ns)]

-----------------------------------------------------------------------------
(* Applying them.                                                          *)

\* The order in which TreeAgnostic lists the objects of the exporter, and the one
\* with the network policies as ToObjects has them.
TreeAgnosticOrder(mf) ==
    <<"sa", "role", "rolebinding", "clusterrole", "clusterrolebinding", "default", "apiserver", "metrics">>
    \o (IF mf.scc # Nil THEN <<"scc", "sccv2">> ELSE <<>>) \o <<"service">>

TreeAgnostic(mf) ==
    <<"sa", "role", "rolebinding", "clusterrole", "clusterrolebinding", "apiserver", "metrics", "default">>
    \o (IF mf.scc # Nil THEN <<"scc">> ELSE <<>>) \o (IF mf.sccv2 # Nil THEN <<"sccv2">> ELSE <<>>)
    \o <<"service">>

\* State of the scheduler: "cm" and "dp" stand for the ConfigMap and the Deployment.
SchedulerState ==
    <<"sa", "cm", "clusterrole", "clusterrolebinding", "role", "rolebinding", "dp", "default", "apiserver">>

\* The objects in the cluster after those of order, up to the k-th, have been applied.
ApplyFirst(objs, mf, order, k) ==
    LET names == {order[i] : i \in 1 .. k} \cap DOMAIN mf
    IN  [n \in names \cup DOMAIN objs |-> IF n \in names THEN mf[n] ELSE objs[n]]
=============================================================================
