------------------------- MODULE ExporterManifests -------------------------
(***************************************************************************)
(* The DaemonSet of the exporter: the built-in manifest, what the operator *)
(* makes of it when it starts (Render, renderRTEManifests), what a         *)
(* reconciliation changes in that shared copy                              *)
(* (setupTreeAgnosticManifests), and what it sets for one pool             *)
(* (FindState, daemonsetUpdater).                                          *)
(*                                                                         *)
(* settings are the parts of the template that only ever get one value.    *)
(***************************************************************************)
EXTENDS Flagcodec, OperandManifests, FiniteSets

BuiltinImage == "builtin"
NullPolicy == ""
NoPool == "no pool"

\* Settings of TLS: [min, ciphers, curves], "" when not set.

\* DaemonSet of the manifests package.
DaemonSet(ns) ==
    [pool |-> NoPool, ns |-> ns, sa |-> "rte", image |-> "manifest", policy |-> NullPolicy,
     helper |-> [image |-> "manifest", policy |-> NullPolicy],
     args |-> <<Flag("--sleep-interval", "10s"), Flag("--sysfs", "/host-sys"),
                Flag("--podresources-socket", "/host-podresources")>>,
     mounts |-> <<"host-sys", "host-podresources">>, env |-> {}, tols |-> {},
     settings |-> {}, selinux |-> "", scc |-> "", hash |-> ""]

\* SetForContainer and DeleteFromContainer.
SetForContainer(env, name) == env \cup {name}
DeleteFromContainer(env, name) == env \ {name}

DaemonSetAll(ds, setting) == [ds EXCEPT !.settings = @ \cup {setting}]

\* securityContextForContainer.
SecurityContext(ds, opts) == [ds EXCEPT !.selinux = opts.selinux, !.scc = opts.scc]

\* Two volumes of a name make the template invalid: each mount stands for the
\* volume it mounts as well.
AddMounts(ds, mounts) == [ds EXCEPT !.mounts = @ \o mounts]

\* daemonSetContainerConfig, as main asks for it.
daemonSetContainerConfig(ds) ==
    [AddMounts(ds, <<"host-run-rte">>) EXCEPT
        !.env = SetForContainer(@, "METRICS_PORT"), !.image = BuiltinImage, !.policy = "Always",
        !.args = SetFlags(ParseArgvKeyValue(@),
                          <<Flag("-v", "2"), Flag("--sleep-interval", "10s"),
                            Flag("--notify-file", "/host-run-rte/notify"),
                            Flag("--pods-fingerprint", "false")>>)]

\* Render of the DaemonSet: main leaves the version of the security context
\* constraint open.
Render(ds, mf) ==
    LET configured == daemonSetContainerConfig([ds EXCEPT !.sa = mf.sa.name])
    IN  IF mf.plat \in OpenShiftLike
        THEN SecurityContext(configured, [selinux |-> ContextType, scc |-> mf.scc[1].name])
        ELSE configured

-----------------------------------------------------------------------------
(* Images: [user, self], "" when not known.                                *)

Discovered(imgs) == IF imgs.user # "" THEN imgs.user ELSE imgs.self

PreferredDiscovered(imgs) == Discovered(imgs)

Preferred(imgs) == IF Discovered(imgs) # "" THEN Discovered(imgs) ELSE BuiltinImage

\* DaemonSetUserImageSettings if it only acted when the user gave an image.
DaemonSetUserImageIfSet(ds, user, builtin, policy) ==
    DaemonSetAll(IF user # "" THEN [ds EXCEPT !.image = user] ELSE ds, "security")

\* DaemonSetUserImageSettings: an image of the user keeps the policy that is there.
DaemonSetUserImageSettings(ds, user, builtin, policy) ==
    DaemonSetAll(IF user # "" THEN [ds EXCEPT !.image = user]
                 ELSE [ds EXCEPT !.image = builtin, !.policy = policy],
                 "security")

\* DaemonSetPauseContainerSettings.
DaemonSetPauseContainerSettings(ds) ==
    [ds EXCEPT !.helper = [image |-> ds.image, policy |-> ds.policy]]

\* renderRTEManifests.
renderRTEManifests(mf, ns, imgs) ==
    DaemonSetPauseContainerSettings(
        DaemonSetUserImageSettings(Render(DaemonSet(ns), mf), Discovered(imgs), BuiltinImage, NullPolicy))

-----------------------------------------------------------------------------
(* One reconciliation.                                                     *)

\* ToKlog.
ToKlog(level) ==
    CASE level = "Debug" -> "4" [] level = "Trace" -> "6" [] level = "TraceAll" -> "8" [] OTHER -> "2"

\* UpdatePodSpec of pkg/loglevel, on the arguments.
UpdateLogLevel(args, level) == SetFlags(ParseArgvKeyValue(args), <<Flag("-v", ToKlog(level))>>)

\* setupTreeAgnosticManifests, with the rollout and affinity settings.
setupTreeAgnosticManifests(core, spec, imgs, policy) ==
    LET rolled == DaemonSetAll(DaemonSetAll(core, "rollout"), "affinity")
        image == DaemonSetUserImageSettings(rolled, spec.image, Preferred(imgs), policy)
        paused == DaemonSetPauseContainerSettings(image)
    IN  [paused EXCEPT !.args = UpdateLogLevel(@, spec.log)]

isPodFingerprintEnabled(conf) == conf.pfp[1] \in {"Enabled", "EnabledExclusiveResources"}

podFingerprintMethod(conf) ==
    IF conf.pfp[1] = "EnabledExclusiveResources" THEN "with-exclusive-resources" ELSE "all"

isNotifyFileEnabled(conf) == conf.mode[1] # "Periodic"

isPeriodicUpdateRequired(conf) == conf.mode[1] # "Events"

\* The flags DaemonSetArgs sets and deletes, for a normalised configuration: the
\* interval is left alone when only events count, and the fingerprint when it is off.
ExporterFlags(conf, tls) ==
    <<Flag("--metrics-mode", "httptls"),
      Flag("--metrics-tls-min-version", tls.min),
      Flag("--metrics-tls-cipher-suites", tls.ciphers),
      Flag("--metrics-tls-curve-preferences", tls.curves),
      Flag("--no-publish", IF conf.pause[1] = "Enabled" THEN Toggle ELSE ""),
      Flag("--refresh-node-resources", Toggle),
      Flag("--notify-file", IF isNotifyFileEnabled(conf) THEN "/run/rte/notify" ELSE "")>>
    \o (IF isPeriodicUpdateRequired(conf) THEN <<Flag("--sleep-interval", conf.period[1])>> ELSE <<>>)
    \o (IF isPodFingerprintEnabled(conf)
        THEN <<Flag("--pods-fingerprint", Toggle),
               Flag("--pods-fingerprint-method", podFingerprintMethod(conf))>>
        ELSE <<>>)
    \o <<Flag("--add-nrt-owner", "false"), Flag("--numa-placement", conf.numa[1])>>

\* DaemonSetArgs: the status of the fingerprint needs a volume and a variable.
DaemonSetArgs(ds, conf, tls) ==
    LET on == isPodFingerprintEnabled(conf)
        mounted == IF on THEN AddMounts(ds, <<"run-pfpstatus", "rte-metrics-service-cert">>) ELSE ds
    IN  [mounted EXCEPT
            !.args = SetFlags(ParseArgvKeyValue(@), ExporterFlags(conf, tls)),
            !.env = IF on THEN SetForContainer(@, "PFP_STATUS_DUMP")
                    ELSE DeleteFromContainer(@, "PFP_STATUS_DUMP")]

\* DaemonSetTolerations: none leaves what is there.
DaemonSetTolerations(ds, tols) == IF tols = {} THEN ds ELSE [ds EXCEPT !.tols = tols]

\* securityContextOptions.
securityContextOptions(mf, legacyMode) ==
    IF legacyMode THEN [selinux |-> ContextTypeLegacy, scc |-> mf.scc[1].name]
    ELSE [selinux |-> ContextType, scc |-> mf.sccv2[1].name]

\* daemonsetUpdater: only on OpenShift is there the ConfigMap of the kubelet.
daemonsetUpdater(ds, mf, group, conf, tls, hash) ==
    LET tolerant == DaemonSetTolerations(DaemonSetAll(ds, "termination"), conf.tols)
        configured == DaemonSetArgs(tolerant, conf, tls)
        secured == IF mf.plat \in OpenShiftLike
                   THEN SecurityContext(AddMounts(configured, <<"rte-config">>),
                                        securityContextOptions(mf, group.custom))
                   ELSE configured
    IN  [secured EXCEPT !.hash = hash]

\* FindState: the DaemonSet of the pool of a group, built on the core manifest.
FindState(core, mf, group, tls, hash) ==
    Once(NormalizeConfig(group.cfg),
         LAMBDA conf : daemonsetUpdater([core EXCEPT !.pool = group.pool], mf, group, conf, tls, hash))

\* What building ds leaves of the core manifest: nothing changes, as it is built on
\* a deep copy, and, for comparison, ds itself if it were not a copy.
CoreAliased(core, ds) == ds

CoreAfter(core, ds) == core
=============================================================================
