----------------------------- MODULE ObjectStore -----------------------------
(***************************************************************************)
(* What applying an object promises: seen from the API server, the         *)
(* operator only ever creates a missing object, brings the object as it is *)
(* AT THAT MOMENT to its desired form, or removes one it no longer wants.  *)
(* Bringing it to its desired form leaves alone what belongs to others:    *)
(* their labels and annotations, the fields the cluster fills in, the      *)
(* status.  Everything else in the store is done by others.                *)
(***************************************************************************)
CONSTANTS
    Names,              \* the objects
    Wanted,             \* those that should exist
    FilledByServer,     \* those the cluster completes after their creation
    Absent              \* no such object

VARIABLE objs           \* the objects in the API server

\* body: the specification; mark: the label or annotation the operator sets;
\* others: labels and annotations set by others; filled: the pull secrets of a
\* ServiceAccount, the addresses of a Service; status: written by controllers.
Object == [body: {"desired", "other"}, mark: {"own", "other", "none"},
           others: BOOLEAN, filled: BOOLEAN, status: {"old", "new"}]

Fresh == [body |-> "desired", mark |-> "own", others |-> FALSE,
          filled |-> FALSE, status |-> "old"]

Init == objs \in [Names -> {Absent}]

Put(n, o) == objs' = [objs EXCEPT ![n] = o]

\* The operator.
Create(n) == n \in Wanted /\ objs[n] = Absent /\ Put(n, Fresh)
Enforce(n) ==
    /\ n \in Wanted /\ objs[n] # Absent
    /\ Put(n, [objs[n] EXCEPT !.body = "desired", !.mark = "own"])
Remove(n) == n \notin Wanted /\ objs[n] # Absent /\ Put(n, Absent)

\* Everybody else: users, the controllers that fill fields in, deletions, and
\* for an object that is no longer wanted whoever created it earlier.
Edit(n) ==
    /\ objs[n] # Absent
    /\ \/ Put(n, [objs[n] EXCEPT !.body = "other"])
       \/ \E m \in {"other", "none"} : Put(n, [objs[n] EXCEPT !.mark = m])
       \/ Put(n, [objs[n] EXCEPT !.others = TRUE])
       \/ \E s \in {"old", "new"} : Put(n, [objs[n] EXCEPT !.status = s])
Fill(n) == n \in FilledByServer /\ objs[n] # Absent /\ Put(n, [objs[n] EXCEPT !.filled = TRUE])
Delete(n) == objs[n] # Absent /\ Put(n, Absent)
Leftover(n) == n \notin Wanted /\ objs[n] = Absent /\ Put(n, Fresh)

Next == \E n \in Names :
            \/ Create(n) \/ Enforce(n) \/ Remove(n)
            \/ Edit(n) \/ Fill(n) \/ Delete(n) \/ Leftover(n)

Spec == Init /\ [][Next]_objs
=============================================================================
