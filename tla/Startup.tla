------------------------------ MODULE Startup ------------------------------
(***************************************************************************)
(* The operator process from its start to its end (cmd/main.go): it        *)
(* detects the cluster, reads the TLS profile of the API server, discovers *)
(* its own image, renders the manifests and runs the controllers, until it *)
(* exits.  An exit, wanted or not, has the kubelet start it again.         *)
(*                                                                         *)
(* What it learns while it starts it keeps for its lifetime, while the     *)
(* cluster goes on changing; only for the TLS profile there is a watcher,  *)
(* which ends the process.                                                 *)
(***************************************************************************)
EXTENDS SchedulerConfig

CONSTANTS
    Profiles,       \* TLS profiles an administrator may choose, [min, ciphers, groups]
    Supported,      \* the ciphers and groups the build knows
    Topologies,     \* of the control plane of the cluster; "none" when it is no OpenShift
    Versions,       \* of the cluster, [ocp, kube], in the order of upgrades, each of them
                    \* [minor, lane, build] with build the place within the lane
    SupportSince,   \* for each lane the first build that lists active pods alone
    UserPlatform,   \* the platform given on the command line, "" when none is
    UserVersion,    \* the version given on the command line, if one is
    EnvNamespace,   \* the namespace of the environment, if it has one
    UserImage,      \* the exporter image given on the command line, "" when none is
    SelfImage,      \* the image the operator runs
    Disturbances,   \* kinds of external events and failures of this instance
    Budget          \* bound on their number

VARIABLES
    cluster,        \* what the process learns about: [tls, topology, version]
    proc,           \* the process
    budget          \* disturbances left

Disturb(kind) == kind \in Disturbances /\ budget > 0 /\ budget' = budget - 1

NoSettings == [min |-> "", ciphers |-> "", curves |-> ""]
NoProfile == [min |-> "", ciphers |-> <<>>, groups |-> <<>>]

MissingVersion == [minor |-> 0, lane |-> "", build |-> 0]
NoManifests == [plat |-> "Unknown"]

\* The namespace the operator installs into.
Namespace == Or(EnvNamespace, "numaresources-operator")

\* The process that is not running.  The fields are what main computes: the platform
\* and the version it found, the settings of TLS and the profile the watcher
\* compares with, the images with the pull policy, and the manifests the reconcilers
\* own, of the exporter (rte, core) and of the scheduler (smf, doc, dp).
Down ==
    [pc |-> "down", plat |-> "Unknown", version |-> MissingVersion,
     tls |-> NoSettings, initial |-> NoProfile,
     imgs |-> [user |-> "", self |-> ""], policy |-> NullPolicy,
     rte |-> NoManifests, core |-> DaemonSet(Namespace),
     smf |-> GetSchedulerManifests(Namespace), doc |-> ConfigManifest, dp |-> Deployment(Namespace)]

StartupInit ==
    /\ cluster \in [tls : Profiles, topology : Topologies, version : {1}]
    /\ proc = Down /\ budget = Budget

Running == proc.pc = "running"

-----------------------------------------------------------------------------
(* The steps of main.                                                      *)

\* exitWithCancel, on an error.
Exit == Disturb("exit") /\ proc' = Down

\* ParsePlatform; the names are not sensitive to case.
ParsePlatform(name) ==
    LET known == [kubernetes |-> "Kubernetes", openshift |-> "OpenShift", hypershift |-> "HyperShift"]
    IN  IF name \in DOMAIN known THEN known[name] ELSE "Unknown"

\* PlatformFromEnv: only OpenShift has a version of the cluster, and only hosted
\* clusters have their control plane elsewhere.
PlatformFromEnv ==
    CASE cluster.topology = "none" -> "Kubernetes"
      [] cluster.topology = "External" -> "HyperShift"
      [] OTHER -> "OpenShift"

\* FindPlatform: the platform given by the user goes first.
FindPlatform ==
    IF ParsePlatform(UserPlatform) # "Unknown" THEN ParsePlatform(UserPlatform) ELSE PlatformFromEnv

\* VersionFromEnv: the version of the API server of OpenShift, or of Kubernetes.
VersionFromEnv(plat) ==
    LET v == Versions[cluster.version] IN IF plat \in OpenShiftLike THEN v.ocp ELSE v.kube

\* FindVersion: the version given by the user goes first.
FindVersion(plat) == Or(UserVersion, VersionFromEnv(plat))

\* Minimize: what is left of a version without its lane and its build is that of the
\* release.
Minimize(ver) == [ver EXCEPT !.lane = "stable", !.build = 0]

\* DiscoverCluster and loading the manifests of the exporter: the process keeps the
\* long version, the manifests depend on the short one.
DiscoverCluster ==
    /\ proc.pc = "down"
    /\ \/ \E plat \in {FindPlatform} : \E ver \in {FindVersion(plat)} :
             /\ proc' = [proc EXCEPT !.pc = "discovered", !.plat = plat, !.version = ver,
                                     !.rte = GetManifests(plat, Minimize(ver), Namespace)]
             /\ UNCHANGED budget
       \/ Exit
    /\ UNCHANGED cluster

\* NewTLSConfigFromProfile, of the library: what is not supported is ignored.
TLSConfig(profile) ==
    LET known(ids) == SelectSeq(ids, LAMBDA id : id \in Supported)
    IN  [min |-> profile.min, ciphers |-> known(profile.ciphers), curves |-> known(profile.groups)]

\* NewSettings: the lists become the values of flags, an empty one an empty value.
Join(ids) == IF ids = <<>> THEN "" ELSE ToString(ids)

NewSettings(cfg) ==
    [min |-> cfg.min, ciphers |-> Join(cfg.ciphers), curves |-> Join(cfg.curves)]

\* Read the TLS profile of the API server: there is none but on OpenShift.
FetchTLSProfile ==
    /\ proc.pc = "discovered"
    /\ \/ /\ cluster.topology # "none"
          /\ proc' = [proc EXCEPT !.pc = "profiled", !.initial = cluster.tls,
                                !.tls = NewSettings(TLSConfig(cluster.tls))]
          /\ UNCHANGED budget
       \/ Exit
    /\ UNCHANGED cluster

\* The profile the watcher starts from: the one read before, and, for comparison,
\* one it would read itself.
InitialProfileRead(fetched) == cluster.tls

InitialProfile(fetched) == fetched

\* GetCurrentImage: the image and the pull policy of the operator's own pod.
GetCurrentImage(found) ==
    IF found THEN [image |-> SelfImage, policy |-> "IfNotPresent"]
    ELSE [image |-> "", policy |-> NullPolicy]

\* Discover of the images package: without its own image it goes on.
DiscoverImages(found) ==
    [imgs |-> [user |-> UserImage, self |-> GetCurrentImage(found).image],
     policy |-> GetCurrentImage(found).policy]

\* Create the manager with the watcher, find the images, render the manifests and
\* set up the controllers.
StartManager ==
    /\ proc.pc = "profiled"
    /\ \/ \E found \in BOOLEAN :
            LET d == DiscoverImages(found)
            IN  /\ proc' = [proc EXCEPT !.pc = "running", !.initial = InitialProfile(proc.initial),
                                        !.imgs = d.imgs, !.policy = d.policy,
                                        !.rte = RenderObjects(proc.rte, Namespace),
                                        !.core = renderRTEManifests(proc.rte, Namespace, d.imgs)]
                /\ IF found THEN UNCHANGED budget ELSE Disturb("noimage")
       \/ Exit
    /\ UNCHANGED cluster

\* The watcher of the TLS profile cancels the context of the manager.
OnProfileChange ==
    /\ Running /\ cluster.tls # proc.initial
    /\ proc' = Down
    /\ UNCHANGED <<cluster, budget>>

\* isVersionEnoughForPodresourcesListFilterActivePods: builds are compared within
\* their lane; a lane that is not known has none that is enough.
ListActivePods(plat, ver) ==
    plat \in OpenShiftLike /\ ver.lane \in DOMAIN SupportSince /\ ver.build >= SupportSince[ver.lane]

-----------------------------------------------------------------------------
(* The world around it.                                                    *)

Crash == proc.pc # "down" /\ Disturb("crash") /\ proc' = Down /\ UNCHANGED cluster

ChangeProfile(profile) ==
    /\ profile # cluster.tls /\ Disturb("profile")
    /\ cluster' = [cluster EXCEPT !.tls = profile]
    /\ UNCHANGED proc

Upgrade ==
    /\ cluster.version < Len(Versions) /\ Disturb("upgrade")
    /\ cluster' = [cluster EXCEPT !.version = @ + 1]
    /\ UNCHANGED proc

Main == DiscoverCluster \/ FetchTLSProfile \/ StartManager \/ OnProfileChange

World == Crash \/ (\E profile \in Profiles : ChangeProfile(profile)) \/ Upgrade
=============================================================================
