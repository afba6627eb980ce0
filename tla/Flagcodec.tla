----------------------------- MODULE Flagcodec -----------------------------
(***************************************************************************)
(* The command line of a container as a list of flags                      *)
(* (pkg/numaresourcesoperator/flagcodec).  A flag is a name with a value;  *)
(* a toggle, which has none, has the value Toggle.  A name occurs once and *)
(* keeps the place where it first occurred.                                *)
(***************************************************************************)
EXTENDS Sequences, Integers

\* Op(v), with v evaluated once.
Once(v, Op(_)) == CHOOSE r \in {Op(x) : x \in {v}} : TRUE

Toggle == "toggle"

Flag(name, val) == [name |-> name, val |-> val]

\* normalizeFlagName: the names of one letter have one dash.
normalizeFlagName(name) == IF name = "--v" THEN "-v" ELSE name

HasFlag(args, name) == \E i \in DOMAIN args : args[i].name = name

\* A run of SetOption, SetToggle and Delete on different flags: one that is there
\* keeps its place, a new one goes to the end, and an empty value stands for Delete.
SetAll(args, edits) ==
    LET val(a) == LET of == SelectSeq(edits, LAMBDA e : e.name = a.name)
                  IN  IF of = <<>> THEN a.val ELSE of[1].val
        set == [i \in DOMAIN args |-> Flag(args[i].name, val(args[i]))]
        new == SelectSeq(edits, LAMBDA e : ~HasFlag(args, e.name))
    IN  SelectSeq(set \o new, LAMBDA a : a.val # "")

SetFlags(args, edits) == Once(args, LAMBDA a : Once(edits, LAMBDA e : SetAll(a, e)))

\* ParseArgvKeyValue: a name given twice keeps its first place and its last value.
Parsed(argv) ==
    LET name(i) == normalizeFlagName(argv[i].name)
        last(i) == CHOOSE j \in DOMAIN argv : name(j) = name(i) /\ \A k \in j + 1 .. Len(argv) : name(k) # name(i)
        first(i) == \A j \in 1 .. i - 1 : name(j) # name(i)
    IN  Once(SelectSeq([i \in DOMAIN argv |-> i], first),
             LAMBDA kept : [k \in DOMAIN kept |-> Flag(name(kept[k]), argv[last(kept[k])].val)])

ParseArgvKeyValue(args) == Once(args, Parsed)
=============================================================================
