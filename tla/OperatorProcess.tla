-------------------------- MODULE OperatorProcess --------------------------
(***************************************************************************)
(* The operator process with the two resources it serves: what its         *)
(* reconcilers make, over its lifetime and over restarts, of               *)
(* specifications written by clients of both versions of the API.          *)
(*                                                                         *)
(* A reconciliation is one step: interleavings within one are the subject  *)
(* of NROController and SchedulerController, which abstract from the       *)
(* contents of the workloads that are detailed here.                       *)
(***************************************************************************)
EXTENDS Startup

CONSTANTS
    Pools,          \* pools of nodes
    NROSpecs,       \* NUMAResourcesOperator specifications the user may write
    AlphaSpecs,     \* the ones a client of v1alpha1 may write
    SchedSpecs,     \* NUMAResourcesScheduler specifications
    InitNRO, InitSched,
    Overridable     \* IsRTEImageOverridable

VARIABLES
    nro,        \* the specification of the NUMAResourcesOperator resource
    legacy,     \* what its last writer wrote, if that was a client of v1alpha1
    sched,      \* the specification of the NUMAResourcesScheduler resource
    kubelet,    \* for each pool the hash of its ConfigMap, "" when there is none
    ds,         \* for each pool the DaemonSet, if there is one
    objs,       \* the other objects in the cluster, [rte, sched], by their place in the manifests
    scm, sdp,   \* the ConfigMap and the Deployment of the scheduler, if there are
    status,     \* of the scheduler: [name, period]
    synced      \* which of the resources nothing has to be done for

vars == <<cluster, proc, budget, nro, legacy, sched, kubelet, ds, objs, scm, sdp, status, synced>>

Controllers == {"nro", "sched"}

Init ==
    /\ StartupInit
    /\ nro = InitNRO /\ legacy = Nil /\ sched = InitSched
    /\ kubelet = [p \in Pools |-> ""]
    /\ ds = [p \in Pools |-> Nil] /\ scm = Nil /\ sdp = Nil
    /\ objs = [rte |-> <<>>, sched |-> <<>>]
    /\ status = [name |-> "", period |-> 0]
    /\ synced = [c \in Controllers |-> FALSE]

-----------------------------------------------------------------------------
(* The NUMAResourcesOperator controller.                                   *)

\* The checks of Reconcile that degrade the resource before anything is applied.
Acceptable(spec, plat) ==
    /\ Overridable \/ spec.image = ""
    /\ \A i \in DOMAIN spec.groups :
          spec.groups[i].by \in (IF plat = "HyperShift" THEN {"name"} ELSE {"name", "selector"})

PoolsOf(spec) == {spec.groups[i].pool : i \in DOMAIN spec.groups}

\* The DaemonSets of the groups, built one after the other on what is left of the core
\* manifest, and that.  The group of a failure keeps the DaemonSet it has, and the
\* others go on; those that no group has any more are deleted.
BuildDaemonSets(core, mf, spec, failed) ==
    LET build(acc, i) ==
            LET group == spec.groups[i]
                d == FindState(acc.core, mf, group, proc.tls, kubelet[group.pool])
            IN  [core |-> CoreAfter(acc.core, d),
                 ds |-> IF i \in failed THEN acc.ds ELSE [acc.ds EXCEPT ![group.pool] = ptr(d)]]
    IN  FoldLeft(LAMBDA acc, i : Once(acc, LAMBDA a : build(a, i)),
                 [core |-> core,
                  ds |-> [p \in Pools |-> IF p \in PoolsOf(spec) THEN ds[p] ELSE Nil]],
                 [i \in DOMAIN spec.groups |-> i])

\* Reconcile.  A failure with one of the shared objects ends it, one with the
\* DaemonSet of a group leaves that for the retry.
ReconcileNRO ==
    /\ Running /\ ~synced["nro"]
    /\ UNCHANGED <<cluster, nro, legacy, sched, kubelet, scm, sdp, status>>
    /\ IF ~Acceptable(nro, proc.plat)
       THEN synced' = [synced EXCEPT !["nro"] = TRUE] /\ UNCHANGED <<proc, budget, ds, objs>>
       ELSE \E core \in {setupTreeAgnosticManifests(proc.core, nro, proc.imgs, proc.policy)} :
            \E mf \in {ForceLegacyContext(proc.rte)} :
            \E order \in {TreeAgnostic(mf)} :
            \E k \in 0 .. Len(order) :
              /\ objs' = [objs EXCEPT !.rte = ApplyFirst(@, mf, order, k)]
              /\ IF k < Len(order)
                 THEN /\ proc' = [proc EXCEPT !.core = core, !.rte = mf]
                      /\ Disturb("fault") /\ UNCHANGED <<ds, synced>>
                 ELSE \E failed \in SUBSET DOMAIN nro.groups :
                      \E built \in {BuildDaemonSets(core, mf, nro, failed)} :
                        /\ proc' = [proc EXCEPT !.core = built.core, !.rte = mf]
                        /\ ds' = built.ds
                        /\ IF failed = {}
                           THEN synced' = [synced EXCEPT !["nro"] = TRUE] /\ UNCHANGED budget
                           ELSE Disturb("fault") /\ UNCHANGED synced

-----------------------------------------------------------------------------
(* The NUMAResourcesScheduler controller.                                  *)

\* The specification syncNUMASchedulerResources works with.
Normalized(spec) ==
    DefaultSchedulerSpec(platformNormalize(spec, ListActivePods(proc.plat, proc.version)))

\* syncNUMASchedulerResources.  Rendering changes the manifests in memory, whether
\* or not what follows fails; a failure ends it after the first k objects.
ReconcileScheduler ==
    /\ Running /\ ~synced["sched"] /\ HasSchedulerName(proc.doc)
    /\ UNCHANGED <<cluster, nro, legacy, sched, kubelet, ds>>
    /\ \E spec \in {Normalized(sched)} :
       \E doc \in {RenderConfig(proc.doc, SchedulerName(proc.doc), ConfigParams(spec))} :
       \E dp \in {DeploymentSettings(proc.dp, spec, doc, proc.tls)} :
       \E mf \in {UpdateRBAC(proc.smf, Namespace, ResourceName)} :
       \E k \in 0 .. Len(SchedulerState) :
           LET applied == {SchedulerState[i] : i \in 1 .. k}
           IN  /\ proc' = [proc EXCEPT !.doc = doc, !.dp = dp, !.smf = mf]
               /\ objs' = [objs EXCEPT !.sched = ApplyFirst(@, mf, SchedulerState, k)]
               /\ scm' = IF "cm" \in applied THEN ptr(doc) ELSE scm
               /\ sdp' = IF "dp" \in applied THEN ptr(dp) ELSE sdp
               /\ IF k = Len(SchedulerState)
                  THEN /\ status' = [name |-> SchedulerName(doc),
                                     period |-> unpackAPIResyncPeriod(spec.period[1])]
                       /\ synced' = [synced EXCEPT !["sched"] = TRUE]
                       /\ UNCHANGED budget
                  ELSE Disturb("fault") /\ UNCHANGED <<status, synced>>

-----------------------------------------------------------------------------
(* The clients.                                                            *)

Unsync(c) == synced' = [synced EXCEPT ![c] = FALSE]

WriteNRO(spec, alpha) ==
    /\ nro' = spec /\ legacy' = alpha /\ Unsync("nro")
    /\ UNCHANGED <<cluster, proc, sched, kubelet, ds, objs, scm, sdp, status>>

EditNRO(spec) == spec # nro /\ Disturb("edit") /\ WriteNRO(spec, Nil)

\* The conversion webhook is a part of the process.
LegacyWrite(alpha) == Running /\ Disturb("legacy") /\ WriteNRO(ConvertTo(alpha), ptr(alpha))

\* A client of v1alpha1 reads the resource and writes it back with another log level.
LegacyEdit(log) ==
    /\ Running /\ ConvertibleFrom(nro) /\ log # nro.log /\ Disturb("legacy")
    /\ LET alpha == [ConvertFrom(nro) EXCEPT !.log = log]
       IN  WriteNRO(ConvertTo(alpha), ptr(alpha))

WriteSched(spec) ==
    /\ sched' = spec /\ Unsync("sched")
    /\ UNCHANGED <<cluster, proc, nro, legacy, kubelet, ds, objs, scm, sdp, status>>

EditSched(spec) == spec # sched /\ Disturb("schededit") /\ WriteSched(spec)

LegacyEditSched(log) ==
    /\ Running /\ log # sched.log /\ Disturb("schedlegacy")
    /\ WriteSched([ThroughAlpha(sched) EXCEPT !.log = log])

\* The KubeletConfig controller writes the ConfigMap of a pool.
WriteKubelet(p) ==
    /\ kubelet[p] = "" /\ Disturb("kubelet")
    /\ kubelet' = [kubelet EXCEPT ![p] = "hash"] /\ Unsync("nro")
    /\ UNCHANGED <<cluster, proc, nro, legacy, sched, ds, objs, scm, sdp, status>>

Clients ==
    \/ \E spec \in NROSpecs : EditNRO(spec)
    \/ \E alpha \in AlphaSpecs : LegacyWrite(alpha)
    \/ \E log \in {"Normal", "Trace"} : LegacyEdit(log) \/ LegacyEditSched(log)
    \/ \E spec \in SchedSpecs : EditSched(spec)
    \/ \E p \in Pools : WriteKubelet(p)

\* A process that starts lists every resource.
WithResources(step) ==
    /\ step
    /\ synced' = IF proc'.pc = "down" THEN [c \in Controllers |-> FALSE] ELSE synced
    /\ UNCHANGED <<nro, legacy, sched, kubelet, ds, objs, scm, sdp, status>>

Process == WithResources(Main)

Next == Process \/ WithResources(World) \/ ReconcileNRO \/ ReconcileScheduler \/ Clients

Spec == Init /\ [][Next]_vars

FairSpec == Spec /\ WF_vars(Process) /\ WF_vars(ReconcileNRO) /\ WF_vars(ReconcileScheduler)

-----------------------------------------------------------------------------
(* Properties.                                                             *)

Images == {"manifest", BuiltinImage, SelfImage, UserImage} \cup {spec.image : spec \in NROSpecs \cup AlphaSpecs}

\* Every variable has its type: the schemas of the API hold for what the conversions
\* make of valid resources, and every workload has an image.
TypeOK ==
    /\ cluster \in [tls: Profiles, topology: Topologies, version: DOMAIN Versions] /\ budget \in 0 .. Budget
    /\ proc.pc \in {"down", "discovered", "profiled", "running"}
    /\ proc.plat \in {"Unknown"} \cup OpenShiftLike
    /\ proc.version \in {MissingVersion} \cup {Versions[v].ocp : v \in DOMAIN Versions}
    /\ proc.initial \in Profiles \cup {NoProfile}
    /\ ValidSpec(nro) /\ (legacy = Nil \/ ValidAlphaSpec(legacy[1])) /\ ValidSchedulerSpec(sched)
    /\ PoolsOf(nro) \subseteq Pools /\ kubelet \in [Pools -> {"", "hash"}]
    /\ \A p \in Pools : ds[p] # Nil =>
         /\ ds[p][1].pool = p /\ ds[p][1].image \in Images \ {""}
         /\ ds[p][1].helper.image = ds[p][1].image
    /\ status.period \in Int /\ synced \in [Controllers -> BOOLEAN]

\* Everything but the pull policy, which depends on the images of earlier
\* specifications (DaemonSetUserImageSettings).
Template(d) == [d EXCEPT !.policy = NullPolicy, !.helper.policy = NullPolicy]

\* However many specifications the process has served, the DaemonSets it leaves are
\* the ones a process that has just started would make: nothing of an earlier
\* specification, or of another group, stays in the manifests the reconciler keeps
\* (setupTreeAgnosticManifests, FindState, daemonsetUpdater).
DaemonSetsFollowSpec ==
    Running /\ synced["nro"] /\ Acceptable(nro, proc.plat) =>
        /\ \A rendered \in {renderRTEManifests(proc.rte, Namespace, proc.imgs)} :
           \A core \in {setupTreeAgnosticManifests(rendered, nro, proc.imgs, proc.policy)} :
           \A i \in DOMAIN nro.groups :
             LET g == nro.groups[i]
                 fresh == FindState(core, proc.rte, g, proc.tls, kubelet[g.pool])
             IN  ds[g.pool] # Nil /\ Template(ds[g.pool][1]) = Template(fresh)
        /\ \A p \in Pools \ PoolsOf(nro) : ds[p] = Nil

Distinct(seq) == Cardinality({seq[i] : i \in DOMAIN seq}) = Len(seq)

\* The templates stay acceptable to the API server and to the exporter: no volume
\* and no flag twice, although mounts are appended, and the variable for the status
\* of the fingerprint exactly with its volume (DaemonSetArgs, ContainerConfig).
TemplatesValid ==
    \A p \in Pools : ds[p] # Nil =>
        LET d == ds[p][1]
            names == [i \in DOMAIN d.args |-> d.args[i].name]
        IN  /\ Distinct(d.mounts) /\ Distinct(names)
            /\ "PFP_STATUS_DUMP" \in d.env <=> \E i \in DOMAIN d.mounts : d.mounts[i] = "run-pfpstatus"

ValueOf(args, name) ==
    IF HasFlag(args, name) THEN args[CHOOSE i \in DOMAIN args : args[i].name = name].val ELSE ""

\* What a client of v1alpha1 wrote is what the exporter does, with the defaults of
\* that version, which are not those of v1: the fingerprint over all pods, and
\* refreshing periodically as well as on events (NormalizeConfig, ConvertTo).
LegacyConfigHonoured ==
    synced["nro"] /\ Acceptable(nro, proc.plat) /\ legacy # Nil =>
        \A i \in DOMAIN legacy[1].groups :
            LET g == legacy[1].groups[i]
                cfg == Or(g.cfg, [pfp |-> Nil, mode |-> Nil, period |-> Nil])
                mode == Or(cfg.mode, "PeriodicAndEvents")
                pfp == Or(cfg.pfp, IF g.disable = ptr(TRUE) THEN "Disabled" ELSE "Enabled")
                args == ds[g.pool][1].args
            IN  /\ HasFlag(args, "--notify-file") <=> mode # "Periodic"
                /\ mode # "Events" => ValueOf(args, "--sleep-interval") = Or(cfg.period, "10s")
                /\ ValueOf(args, "--pods-fingerprint-method") =
                     (CASE pfp = "Enabled" -> "all"
                        [] pfp = "EnabledExclusiveResources" -> "with-exclusive-resources"
                        [] OTHER -> "")
                /\ ValueOf(args, "--pods-fingerprint") = (IF pfp = "Disabled" THEN "false" ELSE Toggle)
                /\ ~HasFlag(args, "--no-publish")

\* The arguments of the plugin, without what stays when it is no longer set.
Forgettable(doc) ==
    [doc EXCEPT !.profiles[1].name = "", !.profiles[1].plugins[1].args.scoring[1].resources = Nil]

\* However many specifications the process has served, the ConfigMap and the
\* Deployment of the scheduler are the ones a process that has just started would
\* make, but for the name and the scoring resources, which stay until they are set
\* again; and the Deployment carries the hash of that ConfigMap
\* (RenderConfig, syncNUMASchedulerResources).
SchedulerFollowsSpec ==
    Running /\ synced["sched"] =>
        \A spec \in {Normalized(sched)} :
        LET fresh == RenderConfig(ConfigManifest, SchedulerName(ConfigManifest), ConfigParams(spec))
            args == scm[1].profiles[1].plugins[1].args
        IN  /\ Forgettable(scm[1]) = Forgettable(fresh)
            /\ spec.name # "" => scm[1].profiles[1].name = spec.name
            /\ spec.scoring[1].resources # <<>> =>
                 args.scoring[1].resources = ptr(spec.scoring[1].resources)
            /\ sdp[1] = DeploymentSettings(Deployment(Namespace), spec, scm[1], proc.tls)

\* The status tells what the scheduler reads: the ConfigMap decodes to one profile,
\* of the name in the status, which resyncs at the period in the status, and not at
\* all when rounding has made that zero (DecodeSchedulerProfilesFromData,
\* ensureBackwardCompatibility).
StatusMatchesConfig ==
    synced["sched"] =>
        LET params == DecodeSchedulerProfiles(scm[1])
        IN  /\ Len(params) = 1 /\ status.name = params[1].name
            /\ params[1].args.period = IF status.period > 0 THEN ptr(status.period) ELSE Nil

\* The objects grant what a role gives to the account of a workload.
Granted(objects, binding, role, account) ==
    /\ {binding, role} \subseteq DOMAIN objects
    /\ objects[binding].role = objects[role].name /\ objects[binding].subject = account

\* No workload is there without what it needs, at whichever object an earlier
\* reconciliation ended.  The account of an exporter exists, the bindings grant it
\* their roles, and the security context constraint its pods ask for admits it and
\* has the SELinux type of its containers; the network policy that denies everything
\* comes after the exceptions to it.  The account of the scheduler exists, with its
\* roles, and may use the lease its configuration names
\* (Render, TreeAgnostic, securityContextOptions, syncNUMASchedulerResources, State).
WorkloadsAuthorised ==
    /\ \A p \in Pools : ds[p] # Nil =>
         LET d == ds[p][1]
             sa == Account(d.sa, d.ns)
         IN  /\ "sa" \in DOMAIN objs.rte /\ objs.rte.sa = sa
             /\ Granted(objs.rte, "rolebinding", "role", sa) /\ objs.rte.role.ns = objs.rte.rolebinding.ns
             /\ Granted(objs.rte, "clusterrolebinding", "clusterrole", sa)
             /\ \E n \in {"scc", "sccv2"} \cap DOMAIN objs.rte :
                  LET scc == objs.rte[n][1]
                  IN  scc.name = d.scc /\ scc.selinux = d.selinux /\ sa \in scc.users
    /\ "default" \in DOMAIN objs.rte => {"apiserver", "metrics"} \subseteq DOMAIN objs.rte
    /\ sdp # Nil =>
         LET sa == Account(sdp[1].sa, sdp[1].ns)
         IN  /\ "sa" \in DOMAIN objs.sched /\ objs.sched.sa = sa
             /\ Granted(objs.sched, "rolebinding", "role", sa)
             /\ objs.sched.role.ns = objs.sched.rolebinding.ns
             /\ Granted(objs.sched, "clusterrolebinding", "clusterrole", sa)
             /\ scm # Nil /\ objs.sched.role.lease = scm[1].lead.resource

\* A change of the TLS profile reaches the exporters and the scheduler, whenever it
\* happens: also between reading the profile at start-up and starting the watcher
\* (main, SecurityProfileWatcher, DaemonSetArgs, DeploymentTLSSettings).
TLSReachesWorkloads ==
    <>[](LET tls == NewSettings(TLSConfig(cluster.tls))
             flags(args, prefix) ==
                [min |-> ValueOf(args, prefix \o "tls-min-version"),
                 ciphers |-> ValueOf(args, prefix \o "tls-cipher-suites"),
                 curves |-> ValueOf(args, prefix \o "tls-curve-preferences")]
         IN  /\ sdp # Nil /\ flags(sdp[1].args, "--") = tls
             /\ Acceptable(nro, proc.plat) =>
                  \A p \in PoolsOf(nro) : ds[p] # Nil /\ flags(ds[p][1].args, "--metrics-") = tls)
=============================================================================
