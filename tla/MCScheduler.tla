---------------------------- MODULE MCScheduler ----------------------------
(***************************************************************************)
(* A small instance of the NUMAResourcesScheduler controller.              *)
(***************************************************************************)
EXTENDS SchedulerController

\* No node to four nodes: below, at and above the cap of three replicas; the name,
\* the resources and the informer given and left out; a bad image; a pause.
Plain == [replicas |-> AutoReplicas, name |-> NoName, resources |-> NoResources,
          informer |-> NoInformer, args |-> "a1", image |-> "good", pause |-> FALSE]
Named == [Plain EXCEPT !.name = "n1", !.resources = "r1", !.informer = "Shared",
                        !.replicas = 2, !.args = "a2"]
Bad == [Plain EXCEPT !.image = "bad"]
Paused == [Named EXCEPT !.pause = TRUE]

MCSpecs == {Plain, Named, Bad, Paused}
=============================================================================
