-------------------------- MODULE MCNROController --------------------------
(***************************************************************************)
(* Small instances of the NUMAResourcesOperator controller: two pools      *)
(* p1 (label a) and p2 (label b), and the specifications below.            *)
(***************************************************************************)
EXTENDS NROController

G(pool, sel, custom, cfg) ==
    [pool |-> pool, sel |-> sel, custom |-> custom, cfg |-> cfg, annots |-> 0]

S(gs) == [groups |-> gs, multi |-> FALSE, pause |-> FALSE, image |-> FALSE]

MCSelects == [s \in Selectors |-> IF s = "sA" THEN {"a"} ELSE {"a", "b"}]

ByName(custom, cfg) == S(<<G("p1", NoSelector, custom, cfg), G("p2", NoSelector, FALSE, "c1")>>)

\* Both pools by name, with the default and with the custom policy on p1;
\* the second group removed.
TwoTrees == ByName(FALSE, "c1")
TwoTreesCustom == ByName(TRUE, "c1")
OneTree == S(<<G("p1", NoSelector, FALSE, "c2")>>)
\* Pools selected by label; one or two match.
Selected == S(<<G(NoPool, "sA", FALSE, "c1")>>)
SelectedAll == [S(<<G(NoPool, "sAB", FALSE, "c1")>>) EXCEPT !.multi = TRUE]
SelectedAllTolerated == S(<<G(NoPool, "sAB", TRUE, "c1")>>)
\* Rejected by validation, and rejected once pool labels make p1 match twice.
Duplicate == S(<<G("p1", NoSelector, FALSE, "c1"), G("p1", NoSelector, FALSE, "c1")>>)
Overlapping == S(<<G("p1", NoSelector, FALSE, "c1"), G(NoPool, "sA", FALSE, "c1")>>)
Image == [OneTree EXCEPT !.image = TRUE]
Paused == [OneTree EXCEPT !.pause = TRUE]

OneCustom == S(<<G("p1", NoSelector, TRUE, "c1")>>)

MCSpecsOnePool == {OneTree, OneCustom, Paused}
MCSpecsTwo == {TwoTrees, OneTree, SelectedAll, Overlapping}
MCSpecsAll == MCSpecsOnePool \cup MCSpecsTwo
                \cup {TwoTreesCustom, Selected, SelectedAllTolerated, Duplicate, Image}

MCInitMCP == [p \in Pools |-> [exists |-> TRUE, label |-> IF p = "p1" THEN "a" ELSE "b",
                               paused |-> FALSE, src |-> FALSE, upd |-> TRUE]]
=============================================================================
