CONSTANTS
    Nodes = 3
    Profiles <- MCProfiles
    Supported = {"aes", "x25519"}
    Versions <- MCVersions
    SupportSince <- MCSupportSince
    Topologies = {"HighlyAvailable", "External"}
    UserPlatform = ""
    UserVersion <- MCUserVersion
    EnvNamespace <- MCEnvNamespace
    UserImage = ""
    SelfImage = "self"
    Disturbances = {"exit", "noimage", "crash", "profile", "upgrade", "fault", "edit", "legacy", "schededit", "schedlegacy", "kubelet"}
    Budget = 2
    Pools = {"p1", "p2"}
    NROSpecs <- MCNROSpecs
    AlphaSpecs <- MCAlphaSpecs
    SchedSpecs <- MCSchedSpecs
    InitNRO <- MCInitNRO
    InitSched <- MCInitSched
    Overridable = TRUE
SPECIFICATION FairSpec
INVARIANTS TypeOK DaemonSetsFollowSpec TemplatesValid LegacyConfigHonoured SchedulerFollowsSpec StatusMatchesConfig WorkloadsAuthorised
PROPERTIES TLSReachesWorkloads
CHECK_DEADLOCK FALSE
