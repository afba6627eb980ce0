-------------------------- MODULE MCKubeletConfig --------------------------
(***************************************************************************)
(* Two KubeletConfigs k1, k2 for the pools p1, p2.                         *)
(***************************************************************************)
EXTENDS KubeletConfigController

MCGroups == {{}, {"p1"}, {"p1", "p2"}}
\* p3 is named by a node group, but has no MachineConfigPool.
MCGroupsMissing == {{"p1"}, {"p1", "p2"}, {"p1", "p3"}}

KC(pools, payload) == [pools |-> pools, payload |-> payload]

\* Each KubeletConfig has its own pool: no two compete for a ConfigMap.
PoolsOf(k) == IF k = "k1" THEN {"p1"} ELSE {"p2"}
MCInitKC == [k \in KCs |-> Written(KC(PoolsOf(k), "x"), Budget)]
MCChoices == [k \in KCs |-> {KC(PoolsOf(k), d) : d \in {"x", "y", "nil", "bad"}}]

\* Without payloads that can never be decoded, which are retried for ever.
MCChoicesGood == [k \in KCs |-> {KC(PoolsOf(k), d) : d \in {"x", "y", "nil"}}]

\* On HyperShift a KubeletConfig that is deleted is not created again: the entry of
\* the earlier one in garbageCollectionFor would have the ConfigMap of the new one
\* deleted, with no later request to write it.  Nor is a ConfigMap deleted by hand:
\* it has no owner there, so that no request follows.
MCDisturbances ==
    LET both == {"edit", "delete", "spec", "crash", "fault", "toggle"}
    IN  [OpenShift |-> both \cup {"create", "cmdelete"}, HyperShift |-> both]
MCDeletions == [OpenShift |-> {"delete"}]
=============================================================================
