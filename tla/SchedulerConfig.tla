-------------------------- MODULE SchedulerConfig --------------------------
(***************************************************************************)
(* The configuration of the secondary scheduler and its Deployment: the    *)
(* parameters a specification asks for, rendering them into the            *)
(* configuration document and decoding it                                  *)
(* (pkg/numaresourcesscheduler), and the settings of the Deployment        *)
(* (pkg/objectupdate/sched).                                               *)
(*                                                                         *)
(* A document is [lead, profiles]; a profile is [name, plugins], a plugin  *)
(* [name, args], and its arguments [period, cache, scoring, preemption],   *)
(* each of them optional, as the fields of cache and scoring are.          *)
(***************************************************************************)
EXTENDS ExporterManifests

CONSTANTS
    Nodes           \* nodes the replicas of the scheduler can go to

PluginName == "NodeResourceTopologyMatch"
ResourceName == "numa-scheduler-leader"

\* The ConfigMap manifest.
ConfigManifest ==
    [lead |-> [elect |-> FALSE, resource |-> ""],
     profiles |-> <<[name |-> "topo-aware-scheduler",
                     plugins |-> <<[name |-> PluginName,
                                    args |-> [period |-> Nil, cache |-> Nil, preemption |-> Nil,
                                              scoring |-> ptr([type |-> ptr("LeastAllocated"),
                                                               resources |-> Nil])]]>>]>>]

-----------------------------------------------------------------------------
(* From the specification to the parameters.                               *)

\* platformNormalize: only a cluster whose kubelet lists the active pods alone can
\* share the informer by default.
platformNormalize(spec, listActivePods) ==
    IF spec.informer = Nil /\ listActivePods THEN [spec EXCEPT !.informer = ptr("Shared")] ELSE spec

\* unpackAPIResyncPeriod: to the nearest second, halves away from zero.
unpackAPIResyncPeriod(tenths) ==
    IF tenths >= 0 THEN (tenths + 5) \div 10 ELSE -((5 - tenths) \div 10)

\* computeSchedulerReplicas, when it is no error.
SchedulerReplicas(spec) == Or(spec.replicas, IF Nodes < 3 THEN 1 ELSE 3)

\* configParamsFromSchedSpec, of a normalised specification.
ConfigParams(spec) ==
    [name |-> spec.name,
     lead |-> [elect |-> SchedulerReplicas(spec) > 1, resource |-> ResourceName],
     period |-> ptr(unpackAPIResyncPeriod(spec.period[1])),
     cache |-> [method |-> ptr("Autodetect"),
                foreign |-> ptr(IF spec.detection[1] = "Relaxed" THEN "OnlyExclusiveResources" ELSE "All"),
                informer |-> ptr(IF spec.informer[1] = "Dedicated" THEN "Dedicated" ELSE "Shared")],
     scoring |-> [type |-> IF spec.scoring[1].type \in {"BalancedAllocation", "MostAllocated"}
                           THEN spec.scoring[1].type ELSE "LeastAllocated",
                  resources |-> spec.scoring[1].resources],
     preemption |-> IF spec.preemption = ptr("Enabled") THEN ptr("Enabled") ELSE Nil]

-----------------------------------------------------------------------------
(* Rendering.                                                              *)

\* ensureBackwardCompatibility: a period that does not resync is not written, and,
\* for comparison, is.
CompatiblePeriodAny(period) == period

CompatiblePeriod(period) == IF period # Nil /\ period[1] <= 0 THEN Nil ELSE period

\* A field that is set, and one that is left as it is.
Set(old, new) == IF new = Nil THEN old ELSE new

NoCache == [method |-> Nil, foreign |-> Nil, informer |-> Nil]
NoScoring == [type |-> Nil, resources |-> Nil]

updateCacheArgs(cache, params) == [f \in DOMAIN cache |-> Set(cache[f], params.cache[f])]

\* updateScoringStrategyArgs: an empty list of resources leaves the one that is there.
updateScoringStrategyArgs(scoring, params) ==
    [type |-> ptr(params.scoring.type),
     resources |-> Set(scoring.resources,
                       IF params.scoring.resources = <<>> THEN Nil ELSE ptr(params.scoring.resources))]

\* updatePreemptionArgs: no mode removes the one that is there, and, for comparison,
\* leaves it.
updatePreemptionKept(mode, params) == Set(mode, params.preemption)

updatePreemptionArgs(mode, params) == params.preemption

updateArgs(args, params) ==
    [period |-> CompatiblePeriod(Set(args.period, params.period)),
     cache |-> ptr(updateCacheArgs(Or(args.cache, NoCache), params)),
     scoring |-> ptr(updateScoringStrategyArgs(Or(args.scoring, NoScoring), params)),
     preemption |-> updatePreemptionArgs(args.preemption, params)]

\* RenderConfig: the profiles of that name; an empty name leaves them theirs.
RenderConfig(doc, schedulerName, params) ==
    LET plugin(p) == IF p.name # PluginName THEN p ELSE [p EXCEPT !.args = updateArgs(@, params)]
        profile(p) ==
            IF p.name # schedulerName THEN p
            ELSE [name |-> IF params.name = "" THEN p.name ELSE params.name,
                  plugins |-> [i \in DOMAIN p.plugins |-> plugin(p.plugins[i])]]
    IN  IF schedulerName = "" THEN doc
        ELSE [lead |-> params.lead,
              profiles |-> [i \in DOMAIN doc.profiles |-> profile(doc.profiles[i])]]

-----------------------------------------------------------------------------
(* Decoding.                                                               *)

\* ValidateCacheResyncMethod, ValidateForeignPodsDetectMode, ValidateCacheInformerMode.
CacheValues ==
    [method |-> {"Autodetect", "All", "OnlyExclusiveResources"},
     foreign |-> {"None", "All", "OnlyExclusiveResources"}, informer |-> {"Shared", "Dedicated"}]

\* ValidateScoringStrategyType and ValidatePreemptionMode.
ScoringTypes == {"LeastAllocated", "BalancedAllocation", "MostAllocated"}
PreemptionModes == {"Enabled", "Disabled"}

\* extractParams: no error.
ValidArgs(args) ==
    LET cache == Or(args.cache, NoCache)
    IN  /\ \A f \in DOMAIN cache : cache[f] \in Optional(CacheValues[f])
        /\ Or(args.scoring, NoScoring).type \in Optional(ScoringTypes)
        /\ args.preemption \in Optional(PreemptionModes)

\* DecodeSchedulerProfilesFromData: one entry for each plugin of the name whose
\* arguments are acceptable.
DecodeSchedulerProfiles(doc) ==
    LET ours(p) == SelectSeq(p.plugins, LAMBDA pl : pl.name = PluginName /\ ValidArgs(pl.args))
        params(p) == [i \in DOMAIN ours(p) |->
                        [name |-> p.name, lead |-> doc.lead, args |-> ours(p)[i].args]]
    IN  FoldLeft(LAMBDA acc, p : acc \o params(p), <<>>, doc.profiles)

\* SchedulerNameFromObject: the name of the first, when there is one.
HasSchedulerName(doc) == DecodeSchedulerProfiles(doc) # <<>>

SchedulerName(doc) == DecodeSchedulerProfiles(doc)[1].name

-----------------------------------------------------------------------------
(* The Deployment.                                                         *)

\* Deployment of the manifests package.
Deployment(ns) ==
    Namespaced([ns |-> "openshift-numaresources", sa |-> SchedulerAccount, replicas |-> 1,
                resources |-> "manifest", image |-> "", hash |-> ConfigManifest,
                args |-> <<Flag("--config", "/etc/kubernetes/config.yaml")>>, env |-> {}, spread |-> FALSE],
               ns)

\* DeploymentTLSSettings.
TLSArgs(args, tls) ==
    SetFlags(ParseArgvKeyValue(args),
             <<Flag("--tls-min-version", tls.min), Flag("--tls-cipher-suites", tls.ciphers),
               Flag("--tls-curve-preferences", tls.curves)>>)

\* SchedulerResourcesRequest.
SchedulerResources(qos) == IF qos = "guaranteed" THEN "600m/1200Mi, limited" ELSE "150m/500Mi"

\* The settings of the Deployment in syncNUMASchedulerResources.  The hash stands
\* for the configuration it is computed from.
DeploymentSettings(dp, spec, doc, tls) ==
    [dp EXCEPT !.replicas = SchedulerReplicas(spec),
               !.resources = SchedulerResources(spec.qos),
               !.image = spec.image,
               !.hash = doc,
               !.args = TLSArgs(UpdateLogLevel(@, spec.log), tls),
               !.env = IF spec.debug[1] = "DumpJSONFile" THEN SetForContainer(@, "PFP_STATUS_DUMP")
                       ELSE DeleteFromContainer(@, "PFP_STATUS_DUMP"),
               !.spread = TRUE]
=============================================================================
