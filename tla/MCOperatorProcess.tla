------------------------- MODULE MCOperatorProcess -------------------------
(* A small instance of OperatorProcess.                                    *)
EXTENDS OperatorProcess

MCProfiles ==
    {[min |-> "1.2", ciphers |-> <<"aes", "unknown">>, groups |-> <<"x25519">>],
     [min |-> "1.3", ciphers |-> <<>>, groups |-> <<>>]}

Version(minor, lane, build) == [minor |-> minor, lane |-> lane, build |-> build]

MCVersions ==
    <<[ocp |-> Version(17, "nightly", 3), kube |-> Version(30, "stable", 1)],
      [ocp |-> Version(20, "stable", 2), kube |-> Version(33, "stable", 1)]>>

MCUserVersion == Nil
MCEnvNamespace == ptr("openshift-numaresources")

MCSupportSince == [nightly |-> 4, ci |-> 2, ec |-> 6, rc |-> 0, stable |-> 1]

Cfg(pfp, mode, period, pause, numa, tols) ==
    ptr([pfp |-> pfp, mode |-> mode, period |-> period, pause |-> pause, numa |-> numa, tols |-> tols])

Group(pool, by, custom, cfg) == [pool |-> pool, by |-> by, custom |-> custom, cfg |-> cfg]

NRO(image, groups) == [image |-> image, log |-> "Normal", groups |-> groups]

Everything == Cfg(ptr("Enabled"), ptr("Events"), ptr("20s"), ptr("Enabled"), ptr("none"), {"taint"})
Quiet == Cfg(ptr("Disabled"), ptr("PeriodicAndEvents"), Nil, Nil, Nil, {})

MCInitNRO == NRO("", <<Group("p1", "selector", FALSE, Nil)>>)

MCNROSpecs ==
    {MCInitNRO,
     NRO("", <<Group("p1", "selector", TRUE, Everything), Group("p2", "selector", FALSE, Nil)>>),
     NRO("user", <<Group("p2", "name", FALSE, Quiet), Group("p1", "name", FALSE, Everything)>>)}

Alpha(disable, cfg) ==
    [image |-> "", log |-> "Debug",
     groups |-> <<[pool |-> "p1", by |-> "selector", disable |-> disable, cfg |-> cfg]>>]

MCAlphaSpecs ==
    {Alpha(Nil, Nil), Alpha(ptr(TRUE), Nil),
     Alpha(Nil, ptr([pfp |-> ptr("EnabledExclusiveResources"), mode |-> Nil, period |-> Nil])),
     Alpha(ptr(TRUE), ptr([pfp |-> ptr("Enabled"), mode |-> ptr("Periodic"), period |-> ptr("20s")]))}

Sched(name, period, replicas, debug, informer, detection, scoring, preemption, qos) ==
    [image |-> "scheduler", name |-> name, log |-> "Normal", period |-> period, replicas |-> replicas,
     debug |-> debug, informer |-> informer, detection |-> detection, scoring |-> scoring,
     preemption |-> preemption, qos |-> qos]

MCInitSched == Sched("", Nil, Nil, Nil, Nil, Nil, Nil, Nil, "")

MCSchedSpecs ==
    {MCInitSched,
     Sched("mine", ptr(4), ptr(1), ptr("Disabled"), ptr("Dedicated"), ptr("Aggressive"),
           ptr([type |-> "MostAllocated", resources |-> <<"cpu">>]), ptr("Enabled"), "guaranteed"),
     Sched("", ptr(25), ptr(0), Nil, ptr("Shared"), Nil,
           ptr([type |-> "", resources |-> <<>>]), ptr("Disabled"), "")}
=============================================================================
