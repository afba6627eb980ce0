------------------------- MODULE ObjectApplyProofs -------------------------
(***************************************************************************)
(* Proofs about applying objects, for every platform, every choice of      *)
(* objects and of those that are wanted, and any number of disturbances:   *)
(* ObjectApply is typed and implements ObjectStore.                        *)
(***************************************************************************)
EXTENDS ObjectApply, WellFoundedInduction, TLAPS

-----------------------------------------------------------------------------
(* The list of objects.                                                    *)

ObjectNames ==
    {"rte-sa", "rte-role", "rte-rolebinding", "rte-clusterrole", "rte-clusterrolebinding",
     "rte-np-api", "rte-np-metrics", "rte-np-default", "rte-scc", "rte-sccv2", "rte-service",
     "crd", "machineconfig", "daemonset", "kubelet-cm",
     "sched-sa", "sched-cm", "sched-clusterrole", "sched-clusterrolebinding", "sched-role",
     "sched-rolebinding", "sched-deployment", "sched-np-default", "sched-np-api"}

Kinds ==
    {"ServiceAccount", "Role", "RoleBinding", "ClusterRole", "ClusterRoleBinding",
     "NetworkPolicy", "SecurityContextConstraints", "Service", "CustomResourceDefinition",
     "MachineConfig", "DaemonSet", "ConfigMap", "Deployment"}

Merges ==
    {"MetadataForUpdate", "ObjectForUpdate", "ServiceAccountForUpdate", "ServiceForUpdate"}

Entry == [name: ObjectNames, kind: Kinds, merge: Merges]

\* The merge that belongs to a kind: what the cluster fills in is kept.
KeepsFilled(o) ==
    o.kind \in {"ServiceAccount", "Service"} =>
        o.merge \notin {"MetadataForUpdate", "ObjectForUpdate"}

Table == {o \in Entry : KeepsFilled(o)}

LEMMA ObjInTable ==
    ASSUME NEW n \in ObjectNames, NEW k \in Kinds, NEW m \in Merges,
           k \in {"ServiceAccount", "Service"} => m \notin {"MetadataForUpdate", "ObjectForUpdate"}
    PROVE  Obj(n, k, m) \in Table
BY DEF Obj, Table, Entry, KeepsFilled

LEMMA ObjectsTable == Objects \in Seq(Table)
<1>1. TreeAgnostic \in Seq(Table)
  <2>1. << Obj("rte-sa", "ServiceAccount", "ServiceAccountForUpdate"),
           Obj("rte-role", "Role", "ObjectForUpdate"),
           Obj("rte-rolebinding", "RoleBinding", "ObjectForUpdate"),
           Obj("rte-clusterrole", "ClusterRole", "ObjectForUpdate"),
           Obj("rte-clusterrolebinding", "ClusterRoleBinding", "ObjectForUpdate"),
           Obj("rte-np-api", "NetworkPolicy", "MetadataForUpdate"),
           Obj("rte-np-metrics", "NetworkPolicy", "MetadataForUpdate"),
           Obj("rte-np-default", "NetworkPolicy", "MetadataForUpdate") >> \in Seq(Table)
    BY ObjInTable DEF ObjectNames, Kinds, Merges
  <2>2. << Obj("rte-scc", "SecurityContextConstraints", "ObjectForUpdate"),
           Obj("rte-sccv2", "SecurityContextConstraints", "ObjectForUpdate") >> \in Seq(Table)
    BY ObjInTable DEF ObjectNames, Kinds, Merges
  <2>3. << Obj("rte-service", "Service", "ServiceForUpdate") >> \in Seq(Table)
    BY ObjInTable DEF ObjectNames, Kinds, Merges
  <2>4. <<>> \in Seq(Table)
    OBVIOUS
  <2> QED
    BY <2>1, <2>2, <2>3, <2>4 DEF TreeAgnostic
<1>2. SingleObjects \in Seq(Table)
  BY ObjInTable DEF ObjectNames, Kinds, Merges, SingleObjects
<1>3. SchedulerState \in Seq(Table)
  BY ObjInTable DEF ObjectNames, Kinds, Merges, SchedulerState
<1> QED
  BY <1>1, <1>2, <1>3 DEF Objects

\* A set of numbers that is not empty has a least one.
LEMMA MinProperty ==
    ASSUME NEW S \in SUBSET Nat, S # {}
    PROVE  Min(S) \in S
<1>1. \E x \in S : \A y \in S : <<y, x>> \notin OpToRel(<, Nat)
  BY WFMin, NatLessThanWellFounded, Zenon
<1>2. \A x, y \in S : <<y, x>> \notin OpToRel(<, Nat) => x <= y
  BY DEF OpToRel
<1>3. \E x \in S : \A y \in S : x <= y
  BY <1>1, <1>2, Zenon
<1> QED
  BY <1>3 DEF Min

LEMMA PlacesFacts ==
    /\ Places \in SUBSET Nat /\ 0 \notin Places
    /\ Min(Places) \in Places
    /\ \A i \in Places : Objects[i].name \in Names
    /\ Later # {} => Min(Later) \in Places
<1>1. \A i \in DOMAIN Objects : i \in Nat /\ i # 0
  BY ObjectsTable
<1>2. Places \in SUBSET Nat /\ 0 \notin Places
  BY <1>1 DEF Places
<1>3. Min(Places) \in Places
  BY <1>2, MinProperty, ApplyAssumption
<1>4. Later # {} => Min(Later) \in Places
  BY <1>2, MinProperty DEF Later
<1> QED
  BY <1>2, <1>3, <1>4 DEF Names

\* Only kinds whose merge keeps it have anything filled in by the cluster.
LEMMA FilledMerge ==
    ASSUME NEW n \in Filled
    PROVE  MergeOf(n) # "MetadataForUpdate" /\ MergeOf(n) # "ObjectForUpdate"
<1>1. n \in Names /\ Kind(n) \in {"ServiceAccount", "Service"}
  BY DEF Filled
<1>2. Place(n) \in Places
  BY <1>1 DEF Names, Place
<1>3. Objects[Place(n)] \in Table
  BY <1>2, ObjectsTable DEF Places
<1> QED
  BY <1>1, <1>3 DEF Table, KeepsFilled, Kind, MergeOf

-----------------------------------------------------------------------------
(* Types.                                                                  *)

Copy == Store!Object \cup {Absent}

LEMMA DesiredTyped == Desired \in Store!Object
BY DEF Desired, Store!Object

LEMMA MergeTyped ==
    ASSUME NEW n, NEW cur \in Store!Object
    PROVE  Merge(n, cur, Desired) \in Store!Object
BY DesiredTyped DEF Merge, MetadataForUpdate, ObjectForUpdate, StatusForUpdate, PreserveFilled,
   Store!Object

LEMMA CurrentTyped ==
    ASSUME TypeOK, ~Idle
    PROVE  Current \in Names
BY PlacesFacts DEF TypeOK, Idle, Current

LEMMA AdvanceTyped ==
    ASSUME TypeOK, NEW c \in [Names -> BOOLEAN], Advance(c)
    PROVE  /\ existing' \in [Names -> Copy] /\ fresh' \in [Names -> BOOLEAN]
           /\ failed' \in SUBSET Names /\ pc' \in {0} \cup Places
BY PlacesFacts DEF TypeOK, Advance, ResetReader, Copy

LEMMA StoredTyped ==
    ASSUME TypeOK, NEW n \in Names, NEW o, Stored(n, o)
    PROVE  pending' \in SUBSET Names /\ unseen' \in SUBSET Names
BY DEF TypeOK, Stored

LEMMA WriteTyped ==
    ASSUME TypeOK, ~Idle, NEW o \in Copy, Write(o)
    PROVE  TypeOK'
<1>1. Current \in Names
  BY CurrentTyped
<1>2. [fresh EXCEPT ![Current] = FALSE] \in [Names -> BOOLEAN]
  BY <1>1 DEF TypeOK
<1>3. /\ existing' \in [Names -> Copy] /\ fresh' \in [Names -> BOOLEAN]
      /\ failed' \in SUBSET Names /\ pc' \in {0} \cup Places
  BY <1>2, AdvanceTyped DEF Write
<1>4. pending' \in SUBSET Names /\ unseen' \in SUBSET Names
  BY <1>1, StoredTyped DEF Write
<1> QED
  BY <1>1, <1>3, <1>4 DEF TypeOK, Write, Stored, Copy

LEMMA SkipTyped ==
    ASSUME TypeOK, Skip
    PROVE  TypeOK'
<1>1. /\ existing' \in [Names -> Copy] /\ fresh' \in [Names -> BOOLEAN]
      /\ failed' \in SUBSET Names /\ pc' \in {0} \cup Places
  BY AdvanceTyped DEF Skip, TypeOK
<1> QED
  BY <1>1 DEF TypeOK, Skip, Copy, watch

LEMMA AbortTyped ==
    ASSUME TypeOK, Abort
    PROVE  TypeOK'
BY DEF TypeOK, Abort, ResetReader, watch

LEMMA ForeignTyped ==
    ASSUME TypeOK, NEW n \in Names, NEW o \in Copy, Foreign(n, o), budget' \in 0..Budget
    PROVE  TypeOK'
<1>1. pending' \in SUBSET Names /\ unseen' \in SUBSET Names
  BY StoredTyped DEF Foreign
<1> QED
  BY <1>1 DEF TypeOK, Foreign, Stored, Copy

\* What an action of the apply step writes.
LEMMA ApplyWrites ==
    ASSUME TypeOK, ApplyNext
    PROVE  /\ ~Idle
           /\ Skip \/ Abort \/ \E o \in Copy : Write(o)
<1>1. CASE LoadFailed
  BY <1>1 DEF LoadFailed
<1>2. CASE DeleteUnwanted
  BY <1>2 DEF DeleteUnwanted, Copy
<1>3. CASE CreateMissing
  BY <1>3, DesiredTyped DEF CreateMissing, Copy
<1>4. CASE MergeExisting
  <2> DEFINE merged == Merge(Current, existing[Current], Desired)
             o == [merged EXCEPT !.status = objs[Current].status]
  <2>1. ~Idle /\ Current \in Names /\ existing[Current] \in Store!Object
    BY <1>4, CurrentTyped DEF MergeExisting, TypeOK
  <2>2. merged \in Store!Object
    BY <2>1, MergeTyped
  <2>3. Accepted(Current) => o \in Store!Object
    BY <2>1, <2>2 DEF Accepted, TypeOK, Store!Object
  <2>4. Skip \/ Abort \/ (Accepted(Current) /\ Write(o))
    BY <1>4 DEF MergeExisting
  <2> QED
    BY <2>1, <2>3, <2>4 DEF Copy
<1> QED
  BY <1>1, <1>2, <1>3, <1>4 DEF ApplyNext

LEMMA TypeStep ==
    ASSUME TypeOK, [Next]_vars
    PROVE  TypeOK'
<1>1. CASE Read
  <2>1. failed' \in SUBSET Names
    BY <1>1 DEF Read
  <2>2. budget' \in 0..Budget
    BY <1>1, ApplyAssumption DEF Read, TypeOK, Disturb
  <2>3. pc' \in {0} \cup Places
    BY <1>1, PlacesFacts DEF Read
  <2> QED
    BY <1>1, <2>1, <2>2, <2>3 DEF Read, TypeOK
<1>2. CASE ApplyNext
  BY <1>2, ApplyWrites, SkipTyped, AbortTyped, WriteTyped
<1>3. CASE Others
  <2> PICK n \in Names : EditObject(n) \/ DeleteObject(n) \/ LeaveOver(n) \/ FillIn(n) \/ CacheSync(n)
    BY <1>3 DEF Others
  <2>0. Disturb => budget' \in 0..Budget
    BY ApplyAssumption DEF Disturb, TypeOK
  <2>1. CASE EditObject(n)
    <3>1. objs[n] \in Store!Object
      BY <2>1 DEF EditObject, TypeOK
    <3>2. \E o \in Copy : Foreign(n, o)
      BY <2>1, <3>1 DEF EditObject, Copy, Store!Object
    <3> QED
      BY <2>0, <2>1, <3>2, ForeignTyped DEF EditObject
  <2>2. CASE DeleteObject(n)
    BY <2>0, <2>2, ForeignTyped DEF DeleteObject, Copy
  <2>3. CASE LeaveOver(n)
    BY <2>0, <2>3, ForeignTyped, DesiredTyped DEF LeaveOver, Copy
  <2>4. CASE FillIn(n)
    <3>1. objs[n] \in Store!Object
      BY <2>4 DEF FillIn, TypeOK
    <3>2. [objs[n] EXCEPT !.filled = TRUE] \in Copy
      BY <3>1 DEF Copy, Store!Object
    <3> QED
      BY <2>4, <3>2, ForeignTyped DEF FillIn, TypeOK
  <2>5. CASE CacheSync(n)
    BY <2>5 DEF CacheSync, TypeOK, reader
  <2> QED
    BY <2>1, <2>2, <2>3, <2>4, <2>5
<1>4. CASE UNCHANGED vars
  BY <1>4 DEF vars, reader, watch, TypeOK
<1> QED
  BY <1>1, <1>2, <1>3, <1>4 DEF Next

LEMMA TypeInit ==
    ASSUME Init
    PROVE  TypeOK
BY ApplyAssumption DEF Init, TypeOK

\* Every variable keeps its type: whatever others do meanwhile, a pass stays
\* within its list, with the copies it read (pkg/apply, pkg/objectstate).
THEOREM ApplyTypeCorrect == Spec => []TypeOK
<1> QED
  BY TypeInit, TypeStep, PTL DEF Spec

-----------------------------------------------------------------------------
(* The copies the operator acts on.                                        *)

\* A copy that counts as the current version is equal to the object in the API
\* server, and only the kinds the cluster completes have anything filled in.
CopiesAreCurrent ==
    \A n \in Names :
        /\ synced[n] => cache[n] = objs[n]
        /\ fresh[n] => existing[n] = objs[n]
        /\ objs[n] # Absent /\ objs[n].filled => n \in Filled

StoreInv == TypeOK /\ CopiesAreCurrent

LEMMA StoreInvInit ==
    ASSUME Init
    PROVE  StoreInv
<1>1. TypeOK
  BY TypeInit
<1> QED
  BY <1>1 DEF Init, StoreInv, CopiesAreCurrent

LEMMA AdvanceCopies ==
    ASSUME StoreInv, NEW c \in [Names -> BOOLEAN], Advance(c)
    PROVE  \A n \in Names : fresh'[n] => c[n] /\ existing'[n] = existing[n]
BY DEF Advance, ResetReader

LEMMA WriteCopies ==
    ASSUME StoreInv, ~Idle, NEW o \in Copy, Write(o), o # Absent /\ o.filled => Current \in Filled
    PROVE  CopiesAreCurrent'
<1>1. Current \in Names
  BY CurrentTyped DEF StoreInv
<1> DEFINE c == [fresh EXCEPT ![Current] = FALSE]
<1>2. c \in [Names -> BOOLEAN]
  BY <1>1 DEF StoreInv, TypeOK
<1>3. \A n \in Names : fresh'[n] => c[n] /\ existing'[n] = existing[n]
  BY <1>2, AdvanceCopies DEF Write
<1>4. \A n \in Names : c[n] => n # Current /\ fresh[n]
  BY <1>1 DEF StoreInv, TypeOK
<1>5. \A n \in Names : objs'[n] = IF n = Current THEN o ELSE objs[n]
  BY <1>1 DEF Write, Stored, StoreInv, TypeOK
<1>6. \A n \in Names : synced'[n] => n # Current /\ synced[n]
  BY <1>1 DEF Write, Stored, StoreInv, TypeOK
<1>7. cache' = cache
  BY DEF Write
<1> HIDE DEF c
<1> QED
  BY <1>3, <1>4, <1>5, <1>6, <1>7 DEF StoreInv, CopiesAreCurrent

LEMMA ForeignCopies ==
    ASSUME StoreInv, NEW n \in Names, NEW o \in Copy, Foreign(n, o), o # Absent /\ o.filled => n \in Filled
    PROVE  CopiesAreCurrent'
<1>1. \A m \in Names : objs'[m] = IF m = n THEN o ELSE objs[m]
  BY DEF Foreign, Stored, StoreInv, TypeOK
<1>2. \A m \in Names : synced'[m] => m # n /\ synced[m]
  BY DEF Foreign, Stored, StoreInv, TypeOK
<1>3. \A m \in Names : fresh'[m] => m # n /\ fresh[m]
  BY DEF Foreign, StoreInv, TypeOK
<1>4. cache' = cache /\ existing' = existing
  BY DEF Foreign
<1> QED
  BY <1>1, <1>2, <1>3, <1>4 DEF StoreInv, CopiesAreCurrent

LEMMA ObjectEqual ==
    ASSUME NEW x \in Store!Object, NEW y \in Store!Object,
           x.body = y.body, x.mark = y.mark, x.others = y.others, x.filled = y.filled,
           x.status = y.status
    PROVE  x = y
BY DEF Store!Object

\* A merge gives the desired specification and mark, keeps what others set and
\* keeps what was filled in where the kind has its own merge.
LEMMA MergeFields ==
    ASSUME NEW n, NEW cur \in Store!Object
    PROVE  LET merged == Merge(n, cur, Desired)
           IN  /\ merged.body = "desired" /\ merged.mark = "own" /\ merged.others = cur.others
               /\ MergeOf(n) \in {"MetadataForUpdate", "ObjectForUpdate"} => merged.filled = FALSE
               /\ MergeOf(n) \notin {"MetadataForUpdate", "ObjectForUpdate"} => merged.filled = cur.filled
<1>1. /\ Desired.body = "desired" /\ Desired.mark = "own" /\ Desired.filled = FALSE
  BY DEF Desired
<1>2. /\ PreserveFilled(cur, Desired) \in Store!Object
      /\ PreserveFilled(cur, Desired).body = "desired" /\ PreserveFilled(cur, Desired).mark = "own"
      /\ PreserveFilled(cur, Desired).filled = cur.filled
  BY <1>1, DesiredTyped DEF PreserveFilled, Store!Object
<1>3. ASSUME NEW upd \in Store!Object, NEW k, upd.body = "desired", upd.mark = "own"
      PROVE  /\ MetadataForUpdate(cur, upd).body = "desired" /\ MetadataForUpdate(cur, upd).mark = "own"
             /\ MetadataForUpdate(cur, upd).others = cur.others
             /\ MetadataForUpdate(cur, upd).filled = upd.filled
             /\ ObjectForUpdate(cur, upd, k).body = "desired" /\ ObjectForUpdate(cur, upd, k).mark = "own"
             /\ ObjectForUpdate(cur, upd, k).others = cur.others
             /\ ObjectForUpdate(cur, upd, k).filled = upd.filled
  BY <1>3 DEF MetadataForUpdate, ObjectForUpdate, StatusForUpdate, Store!Object
<1> QED
  BY <1>1, <1>2, <1>3, DesiredTyped DEF Merge

\* What is written over an object that was found is the object as it is at that
\* moment, with the desired specification and the operator's own mark.
LEMMA MergeEnforces ==
    ASSUME StoreInv, MergeExisting, Accepted(Current)
    PROVE  [Merge(Current, existing[Current], Desired) EXCEPT !.status = objs[Current].status]
             = [objs[Current] EXCEPT !.body = "desired", !.mark = "own"]
<1>1. Current \in Names /\ existing[Current] = objs[Current]
  BY CurrentTyped DEF StoreInv, CopiesAreCurrent, MergeExisting, Accepted
<1>2. objs[Current] \in Store!Object
  BY <1>1 DEF StoreInv, TypeOK, Accepted
<1>3. MergeOf(Current) \in {"MetadataForUpdate", "ObjectForUpdate"} => objs[Current].filled = FALSE
  BY <1>1, <1>2, FilledMerge DEF StoreInv, CopiesAreCurrent, Accepted, Store!Object
<1> DEFINE merged == Merge(Current, existing[Current], Desired)
           o == [merged EXCEPT !.status = objs[Current].status]
           e == [objs[Current] EXCEPT !.body = "desired", !.mark = "own"]
<1>4. merged \in Store!Object
  BY <1>1, <1>2, MergeTyped
<1>5. /\ merged.body = "desired" /\ merged.mark = "own" /\ merged.others = objs[Current].others
      /\ merged.filled = objs[Current].filled
  BY <1>1, <1>2, <1>3, MergeFields
<1>6. /\ e \in Store!Object /\ e.body = "desired" /\ e.mark = "own" /\ e.others = objs[Current].others
      /\ e.filled = objs[Current].filled /\ e.status = objs[Current].status
  BY <1>2 DEF Store!Object
<1> HIDE DEF merged, e
<1>7. /\ o \in Store!Object /\ o.body = merged.body /\ o.mark = merged.mark /\ o.others = merged.others
      /\ o.filled = merged.filled /\ o.status = objs[Current].status
  BY <1>2, <1>4 DEF Store!Object
<1> HIDE DEF o
<1>8. o = e
  BY <1>5, <1>6, <1>7, ObjectEqual
<1> QED
  BY <1>8 DEF o, e, merged

EnforcedOn(n) == [objs[n] EXCEPT !.body = "desired", !.mark = "own"]

\* A step of the apply loop writes nothing, or writes one of three things over
\* the object as it is at that moment.
LEMMA ApplyActs ==
    ASSUME StoreInv, ApplyNext
    PROVE  \/ Skip \/ Abort
           \/ Write(Absent) /\ Current \notin Wanted /\ objs[Current] # Absent
           \/ Write(Desired) /\ Current \in Wanted /\ objs[Current] = Absent
           \/ Write(EnforcedOn(Current)) /\ Current \in Wanted /\ objs[Current] # Absent
<1>1. CASE LoadFailed
  BY <1>1 DEF LoadFailed
<1>2. CASE DeleteUnwanted
  BY <1>2 DEF DeleteUnwanted
<1>3. CASE CreateMissing
  BY <1>3 DEF CreateMissing
<1>4. CASE MergeExisting
  <2> DEFINE o == [Merge(Current, existing[Current], Desired) EXCEPT !.status = objs[Current].status]
  <2>1. Skip \/ Abort \/ (Accepted(Current) /\ Write(o))
    BY <1>4 DEF MergeExisting
  <2>2. Accepted(Current) => o = EnforcedOn(Current)
    BY <1>4, MergeEnforces DEF EnforcedOn
  <2>3. Accepted(Current) => objs[Current] # Absent
    BY DEF Accepted
  <2>4. Current \in Wanted
    BY <1>4 DEF MergeExisting
  <2> HIDE DEF o
  <2> QED
    BY <2>1, <2>2, <2>3, <2>4
<1> QED
  BY <1>1, <1>2, <1>3, <1>4 DEF ApplyNext

LEMMA EnforcedTyped ==
    ASSUME TypeOK, NEW n \in Names, objs[n] # Absent
    PROVE  /\ objs[n] \in Store!Object /\ EnforcedOn(n) \in Store!Object
           /\ EnforcedOn(n).filled = objs[n].filled
<1>1. objs[n] \in Store!Object
  BY DEF TypeOK
<1> QED
  BY <1>1 DEF EnforcedOn, Store!Object

\* Skipping or giving up keeps every copy current.
LEMMA QuietCopies ==
    ASSUME StoreInv, Skip \/ Abort
    PROVE  CopiesAreCurrent'
<1>1. objs' = objs /\ cache' = cache /\ synced' = synced
  BY DEF Skip, Abort
<1>2. \A n \in Names : fresh'[n] => fresh[n] /\ existing'[n] = existing[n]
  BY AdvanceCopies DEF Skip, Abort, ResetReader, StoreInv, TypeOK
<1> QED
  BY <1>1, <1>2 DEF StoreInv, CopiesAreCurrent

\* What others store in place of an object, and that the abstract store lets them.
LEMMA ForeignActs ==
    ASSUME StoreInv, NEW n \in Names, EditObject(n) \/ DeleteObject(n) \/ LeaveOver(n) \/ FillIn(n)
    PROVE  /\ Store!Edit(n) \/ Store!Delete(n) \/ Store!Leftover(n) \/ Store!Fill(n)
           /\ \E o \in Copy : Foreign(n, o) /\ (o # Absent /\ o.filled => n \in Filled)
<1>0. objs[n] # Absent => objs[n] \in Store!Object /\ (objs[n].filled => n \in Filled)
  BY DEF StoreInv, TypeOK, CopiesAreCurrent
<1>1. CASE EditObject(n)
  <2>1. \A x \in Store!Object :
          /\ [x EXCEPT !.body = "other"] \in Store!Object
          /\ [x EXCEPT !.body = "other"].filled = x.filled
          /\ \A m \in {"other", "none"} : /\ [x EXCEPT !.mark = m] \in Store!Object
                                          /\ [x EXCEPT !.mark = m].filled = x.filled
          /\ [x EXCEPT !.others = TRUE] \in Store!Object
          /\ [x EXCEPT !.others = TRUE].filled = x.filled
          /\ \A s \in {"old", "new"} : /\ [x EXCEPT !.status = s] \in Store!Object
                                       /\ [x EXCEPT !.status = s].filled = x.filled
    BY DEF Store!Object
  <2>2. Store!Edit(n)
    BY <1>1 DEF EditObject, Foreign, Stored, Store!Edit, Store!Put
  <2>3. objs[n] \in Store!Object
    BY <1>0, <1>1 DEF EditObject
  <2>4. \E o \in Store!Object : Foreign(n, o) /\ o.filled = objs[n].filled
    BY <1>1, <2>1, <2>3, Zenon DEF EditObject
  <2>5. objs[n] # Absent
    BY <1>1, Zenon DEF EditObject
  <2>6. \E o \in Copy : Foreign(n, o) /\ (o # Absent /\ o.filled => n \in Filled)
    BY <1>0, <2>4, <2>5, Zenon DEF Copy
  <2> QED
    BY <2>2, <2>6
<1>2. CASE DeleteObject(n)
  BY <1>2 DEF DeleteObject, Foreign, Stored, Store!Delete, Store!Put, Copy
<1>3. CASE LeaveOver(n)
  <2>1. Desired = Store!Fresh /\ Desired.filled = FALSE
    BY DEF Desired, Store!Fresh
  <2> QED
    BY <1>3, <2>1, DesiredTyped DEF LeaveOver, Foreign, Stored, Store!Leftover, Store!Put, Copy
<1>4. CASE FillIn(n)
  <2>1. [objs[n] EXCEPT !.filled = TRUE] \in Copy
    BY <1>0, <1>4 DEF FillIn, Copy, Store!Object
  <2> QED
    BY <1>4, <2>1 DEF FillIn, Foreign, Stored, Store!Fill, Store!Put
<1> QED
  BY <1>1, <1>2, <1>3, <1>4

LEMMA StoreInvStep ==
    ASSUME StoreInv, [Next]_vars
    PROVE  StoreInv'
<1>0. TypeOK'
  BY TypeStep DEF StoreInv
<1>1. CASE Read
  BY <1>0, <1>1 DEF Read, StoreInv, CopiesAreCurrent
<1>2. CASE ApplyNext
  <2>1. ~Idle /\ Current \in Names
    BY <1>2, ApplyWrites, CurrentTyped DEF StoreInv
  <2>2. CASE Skip \/ Abort
    BY <1>0, <2>2, QuietCopies DEF StoreInv
  <2>3. CASE Write(Absent)
    BY <1>0, <2>1, <2>3, WriteCopies DEF StoreInv, Copy
  <2>4. CASE Write(Desired)
    <3>1. Desired.filled = FALSE
      BY DEF Desired
    <3> QED
      BY <1>0, <2>1, <2>4, <3>1, WriteCopies, DesiredTyped DEF StoreInv, Copy
  <2>5. CASE Write(EnforcedOn(Current)) /\ objs[Current] # Absent
    <3>1. EnforcedOn(Current) \in Copy /\ (EnforcedOn(Current).filled => Current \in Filled)
      BY <2>1, <2>5, EnforcedTyped DEF StoreInv, CopiesAreCurrent, Copy
    <3> QED
      BY <1>0, <2>1, <2>5, <3>1, WriteCopies DEF StoreInv
  <2> QED
    BY <1>2, <2>2, <2>3, <2>4, <2>5, ApplyActs
<1>3. CASE Others
  <2> PICK n \in Names : EditObject(n) \/ DeleteObject(n) \/ LeaveOver(n) \/ FillIn(n) \/ CacheSync(n)
    BY <1>3 DEF Others
  <2>1. CASE CacheSync(n)
    <3>1. objs' = objs /\ existing' = existing /\ fresh' = fresh
      BY <2>1 DEF CacheSync, reader
    <3>2. \A m \in Names : synced'[m] => cache'[m] = objs[m]
      BY <2>1 DEF CacheSync, StoreInv, TypeOK, CopiesAreCurrent
    <3> QED
      BY <1>0, <3>1, <3>2 DEF StoreInv, CopiesAreCurrent
  <2>2. CASE EditObject(n) \/ DeleteObject(n) \/ LeaveOver(n) \/ FillIn(n)
    BY <1>0, <2>2, ForeignActs, ForeignCopies DEF StoreInv
  <2> QED
    BY <2>1, <2>2
<1>4. CASE UNCHANGED vars
  BY <1>0, <1>4 DEF vars, reader, StoreInv, CopiesAreCurrent
<1> QED
  BY <1>1, <1>2, <1>3, <1>4 DEF Next

-----------------------------------------------------------------------------
(* The refinement.                                                         *)

LEMMA StoreInit ==
    ASSUME Init
    PROVE  Store!Init
BY DEF Init, Store!Init

LEMMA StoreStep ==
    ASSUME StoreInv, [Next]_vars
    PROVE  [Store!Next]_objs
<1>1. CASE Read
  BY <1>1 DEF Read
<1>2. CASE ApplyNext
  <2>1. Current \in Names
    BY <1>2, ApplyWrites, CurrentTyped DEF StoreInv
  <2>2. CASE Skip \/ Abort
    BY <2>2 DEF Skip, Abort
  <2>3. CASE Write(Absent) /\ Current \notin Wanted /\ objs[Current] # Absent
    <3>1. Store!Remove(Current)
      BY <2>3 DEF Write, Stored, Store!Remove, Store!Put
    <3> QED
      BY <2>1, <3>1 DEF Store!Next
  <2>4. CASE Write(Desired) /\ Current \in Wanted /\ objs[Current] = Absent
    <3>1. Desired = Store!Fresh
      BY DEF Desired, Store!Fresh
    <3>2. Store!Create(Current)
      BY <2>4, <3>1 DEF Write, Stored, Store!Create, Store!Put
    <3> QED
      BY <2>1, <3>2 DEF Store!Next
  <2>5. CASE Write(EnforcedOn(Current)) /\ Current \in Wanted /\ objs[Current] # Absent
    <3>1. Store!Enforce(Current)
      BY <2>5 DEF Write, Stored, EnforcedOn, Store!Enforce, Store!Put
    <3> QED
      BY <2>1, <3>1 DEF Store!Next
  <2> QED
    BY <1>2, <2>2, <2>3, <2>4, <2>5, ApplyActs
<1>3. CASE Others
  <2> PICK n \in Names : EditObject(n) \/ DeleteObject(n) \/ LeaveOver(n) \/ FillIn(n) \/ CacheSync(n)
    BY <1>3 DEF Others
  <2>1. CASE CacheSync(n)
    BY <2>1 DEF CacheSync
  <2>2. CASE EditObject(n) \/ DeleteObject(n) \/ LeaveOver(n) \/ FillIn(n)
    <3>1. Store!Edit(n) \/ Store!Delete(n) \/ Store!Leftover(n) \/ Store!Fill(n)
      BY <2>2, ForeignActs
    <3> QED
      BY <3>1 DEF Store!Next
  <2> QED
    BY <2>1, <2>2
<1>4. CASE UNCHANGED vars
  BY <1>4 DEF vars
<1> QED
  BY <1>1, <1>2, <1>3, <1>4 DEF Next

\* Applying objects implements the abstract store: with stale reads, failed
\* lookups, restarts of the pass and any changes by others, each request of the
\* operator that the API server accepts creates a missing object, enforces the
\* desired form on the object as it is at that moment, or removes one that is
\* not wanted (apply.go ApplyObject, merge.go).
THEOREM ApplyImplementsStore == Spec => ActsOnCurrentObject
<1>1. Init => StoreInv /\ Store!Init
  BY StoreInvInit, StoreInit
<1>2. StoreInv /\ [Next]_vars => StoreInv' /\ [Store!Next]_objs
  BY StoreInvStep, StoreStep
<1> QED
  BY <1>1, <1>2, PTL DEF Spec, ActsOnCurrentObject, Store!Spec
=============================================================================
