---------------------------- MODULE MCHyperShift ----------------------------
(***************************************************************************)
(* One pool p1 with its KubeletConfig k1. A node group names the pool, and *)
(* may be taken away and come back.                                        *)
(***************************************************************************)
EXTENDS HyperShift

G(pool, cfg) ==
    [pool |-> pool, sel |-> NoSelector, custom |-> FALSE, cfg |-> cfg, annots |-> 0]
S(gs) == [groups |-> gs, multi |-> FALSE, pause |-> FALSE, image |-> FALSE]

MCInitSpec == S(<<G("p1", "c1")>>)
MCSpecs == {MCInitSpec, S(<<>>)}
MCSelects == [s \in Selectors |-> {}]
MCInitMCP == [p \in Pools |-> [exists |-> TRUE, label |-> "a",
                               paused |-> FALSE, src |-> FALSE, upd |-> TRUE]]

MCDatas == [data: Payloads \X Excludes, owner: {NoOwner}]

KC(payload) == [pools |-> {"p1"}, payload |-> payload]
MCInitKC == [k \in KCs |-> [pools |-> {"p1"}, payload |-> "x", uid |-> Budget]]
MCChoices == [k \in KCs |-> {KC(d) : d \in {"x", "y"}}]
=============================================================================
