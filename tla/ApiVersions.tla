---------------------------- MODULE ApiVersions ----------------------------
(***************************************************************************)
(* The two versions of the API (api/v1, api/v1alpha1): what a field that   *)
(* is not set stands for in each, and the conversion between them.  The    *)
(* API server stores v1; a client of v1alpha1 reads and writes through the *)
(* conversion webhook.                                                     *)
(*                                                                         *)
(* An optional field, a pointer in the code, is a sequence of at most one  *)
(* value.                                                                  *)
(***************************************************************************)
EXTENDS Sequences, SequencesExt, Integers

Nil == <<>>
ptr(v) == <<v>>
Or(p, default) == IF p = Nil THEN default ELSE p[1]

Optional(S) == {Nil} \cup {ptr(v) : v \in S}

LogLevels == {"Normal", "Debug", "Trace", "TraceAll"}

-----------------------------------------------------------------------------
(* Node groups, v1: [pool, by, custom, cfg] with by how the group names    *)
(* its pool ("selector", "name" or "none"), custom the annotation for the  *)
(* custom SELinux policy, and cfg an optional                              *)
(* [pfp, mode, period, pause, numa, tols], the first five optional.        *)

PodsFingerprintingModes == {"Disabled", "Enabled", "EnabledExclusiveResources"}
InfoRefreshPauseModes == {"Disabled", "Enabled"}
NUMAPlacementModes == {"container", "none"}
InfoRefreshModes == {"Periodic", "Events", "PeriodicAndEvents"}

\* What the schema of v1 lets through.
ValidConfig(cfg) ==
    /\ cfg.pfp \in Optional(PodsFingerprintingModes) /\ cfg.mode \in Optional(InfoRefreshModes)
    /\ cfg.pause \in Optional(InfoRefreshPauseModes) /\ cfg.numa \in Optional(NUMAPlacementModes)

ValidGroup(g) == g.by \in {"selector", "name", "none"} /\ (g.cfg = Nil \/ ValidConfig(g.cfg[1]))

ValidSpec(spec) ==
    spec.log \in LogLevels /\ \A i \in DOMAIN spec.groups : ValidGroup(spec.groups[i])

DefaultNodeGroupConfig ==
    [pfp |-> ptr("EnabledExclusiveResources"), mode |-> ptr("Periodic"), period |-> ptr("10s"),
     pause |-> ptr("Disabled"), numa |-> ptr("container"), tols |-> {}]

\* Merge: the fields that are set win; tolerations are not merged.
Merge(current, updated) ==
    [f \in DOMAIN current |-> IF f = "tols" \/ updated[f] = Nil THEN current[f] ELSE updated[f]]

\* NormalizeConfig of v1.
NormalizeConfig(cfg) ==
    IF cfg = Nil THEN DefaultNodeGroupConfig
    ELSE Merge([DefaultNodeGroupConfig EXCEPT !.tols = cfg[1].tols], cfg[1])

-----------------------------------------------------------------------------
(* Node groups, v1alpha1: [pool, by, disable, cfg] with disable the        *)
(* optional DisablePodsFingerprinting and cfg an optional                  *)
(* [pfp, mode, period].                                                    *)

AlphaFingerprintingModes == {"Disabled", "Enabled", "EnabledExclusiveResources"}
AlphaRefreshModes == {"Periodic", "Events", "PeriodicAndEvents"}

\* What the schema of v1alpha1 lets through.
ValidAlphaConfig(cfg) ==
    cfg.pfp \in Optional(AlphaFingerprintingModes) /\ cfg.mode \in Optional(AlphaRefreshModes)

ValidAlphaGroup(g) == g.disable \in Optional(BOOLEAN) /\ (g.cfg = Nil \/ ValidAlphaConfig(g.cfg[1]))

ValidAlphaSpec(spec) ==
    spec.log \in LogLevels /\ \A i \in DOMAIN spec.groups : ValidAlphaGroup(spec.groups[i])

DefaultAlphaConfig ==
    [pfp |-> ptr("Enabled"), mode |-> ptr("PeriodicAndEvents"), period |-> ptr("10s")]

\* ResetFromNodeGroup.
ResetFromNodeGroup(cfg, disable) ==
    [cfg EXCEPT !.pfp = ptr(IF disable THEN "Disabled" ELSE "Enabled")]

\* NormalizeConfig of v1alpha1, without and with its defaults.
NormalizeAlphaNothing(group) == Or(group.cfg, [f \in DOMAIN DefaultAlphaConfig |-> Nil])

NormalizeAlpha(group) ==
    LET conf == IF group.disable = Nil THEN DefaultAlphaConfig
                ELSE ResetFromNodeGroup(DefaultAlphaConfig, group.disable[1])
    IN  IF group.cfg = Nil THEN conf ELSE Merge(conf, group.cfg[1])

-----------------------------------------------------------------------------
(* The resource: [image, log, groups].                                     *)

\* convertNodeGroupConfigV1Alpha1ToV1: one of the modes of v1alpha1 is not converted,
\* but left to the default of v1.
ConvertConfigTo(cfg) ==
    [pfp |-> IF cfg.pfp \in {ptr("Enabled"), ptr("Disabled")} THEN cfg.pfp ELSE Nil,
     mode |-> cfg.mode, period |-> cfg.period, pause |-> Nil, numa |-> Nil, tols |-> {}]

\* convertNodeGroupConfigV1ToV1Alpha1.
ConvertConfigFrom(cfg) ==
    [pfp |-> IF cfg.pfp = ptr("EnabledExclusiveResources") THEN ptr("Enabled") ELSE cfg.pfp,
     mode |-> cfg.mode, period |-> cfg.period]

\* Only the selector of the pools is in both versions.
Selector(by) == IF by = "selector" THEN by ELSE "none"

\* ConvertTo, from v1alpha1 to v1.
ConvertTo(src) ==
    [image |-> src.image, log |-> src.log,
     groups |-> [i \in DOMAIN src.groups |->
        LET g == src.groups[i]
        IN  [pool |-> g.pool, by |-> Selector(g.by), custom |-> FALSE,
             cfg |-> ptr(ConvertConfigTo(NormalizeAlpha(g)))]]]

\* ConvertFrom dereferences the configuration of each group: the conversion, and
\* with it the request of the client, fails when there is none.
ConvertibleFrom(src) == \A i \in DOMAIN src.groups : src.groups[i].cfg # Nil

ConvertFrom(src) ==
    [image |-> src.image, log |-> src.log,
     groups |-> [i \in DOMAIN src.groups |->
        LET g == src.groups[i]
        IN  [pool |-> g.pool, by |-> Selector(g.by), disable |-> Nil,
             cfg |-> ptr(ConvertConfigFrom(g.cfg[1]))]]]

-----------------------------------------------------------------------------
(* The scheduler resource, v1: [image, name, log, period, replicas, debug, *)
(* informer, detection, scoring, preemption, qos]; v1alpha1 has the first  *)
(* four.  qos is an annotation.                                            *)

CacheResyncDebugModes == {"Disabled", "DumpJSONFile"}
SchedulerInformerModes == {"Shared", "Dedicated"}
SchedulerPreemptionModes == {"Enabled", "Disabled"}
ScoringStrategyTypes == {"MostAllocated", "BalancedAllocation", "LeastAllocated"}
CacheResyncDetectionModes == {"Relaxed", "Aggressive"}

\* What the schema lets through; the type of the scoring may be left out.
ValidScoring(scoring) == scoring.type \in ScoringStrategyTypes \cup {""}

ValidSchedulerSpec(spec) ==
    /\ spec.log \in LogLevels /\ spec.debug \in Optional(CacheResyncDebugModes)
    /\ spec.informer \in Optional(SchedulerInformerModes)
    /\ spec.detection \in Optional(CacheResyncDetectionModes)
    /\ spec.preemption \in Optional(SchedulerPreemptionModes)
    /\ spec.scoring = Nil \/ ValidScoring(spec.scoring[1])

\* ConvertFrom followed by ConvertTo.
ThroughAlpha(spec) ==
    [spec EXCEPT !.replicas = Nil, !.debug = Nil, !.informer = Nil, !.detection = Nil,
                 !.scoring = Nil, !.preemption = Nil]

\* Normalize; a period is in tenths of a second.
DefaultSchedulerSpec(spec) ==
    [spec EXCEPT !.period = ptr(Or(@, 50)),
                 !.debug = ptr(Or(@, "DumpJSONFile")),
                 !.informer = ptr(Or(@, "Dedicated")),
                 !.detection = ptr(Or(@, "Relaxed")),
                 !.scoring = ptr(Or(@, [type |-> "LeastAllocated", resources |-> <<>>]))]
=============================================================================
