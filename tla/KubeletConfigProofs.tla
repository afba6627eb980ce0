------------------------ MODULE KubeletConfigProofs ------------------------
(***************************************************************************)
(* Proofs about the KubeletConfig controller for every set of              *)
(* KubeletConfigs, pools, payloads and node groups, on both platforms, and *)
(* for any number of disturbances.                                         *)
(***************************************************************************)
EXTENDS KubeletConfigController, SequenceTheorems, WellFoundedInduction, TLAPS

-----------------------------------------------------------------------------
(* The types of the operators the actions are built from.                  *)

Entry == [kc: KCs, pool: Pools]
Data == Payloads \X Excludes
WriteType == [stage: {"write"}, kc: KCs, uid: 0 .. Budget, pool: Pools, data: Data]
DeleteType == [stage: {"delete"}, kc: KCs, pool: Pools]
ForgetType == [stage: {"forget"}, kc: KCs, list: Seq(Entry)]

\* What the stage says about the running Reconcile.
LEMMA WorkFacts ==
    ASSUME TypeOK
    PROVE  /\ work.stage \in {"idle", "write", "delete", "forget"}
           /\ work.stage = "idle" <=> work = Idle
           /\ work.stage = "write" => work \in WriteType
           /\ work.stage = "delete" => work \in DeleteType
           /\ work.stage = "forget" => work \in ForgetType
BY DEF TypeOK, Idle, WriteType, DeleteType, ForgetType, Data, Entry

\* A set of numbers that is not empty has a least one.
LEMMA MinProperty ==
    ASSUME NEW S \in SUBSET Nat, S # {}
    PROVE  Min(S) \in S
<1>1. \E x \in S : \A y \in S : <<y, x>> \notin OpToRel(<, Nat)
  BY WFMin, NatLessThanWellFounded, Zenon
<1>2. \A x, y \in S : <<y, x>> \notin OpToRel(<, Nat) => x <= y
  BY DEF OpToRel
<1>3. \E x \in S : \A y \in S : x <= y
  BY <1>1, <1>2, Zenon
<1> QED
  BY <1>3 DEF Min

\* The list without the first entry of a KubeletConfig is made of its entries.
LEMMA RemoveFacts ==
    ASSUME NEW list \in Seq(Entry), NEW k
    PROVE  /\ removeDeletedOwner(k, list) \in Seq(Entry)
           /\ \A i \in DOMAIN removeDeletedOwner(k, list) :
                \E j \in DOMAIN list : removeDeletedOwner(k, list)[i] = list[j]
<1> DEFINE hits == {i \in DOMAIN list : list[i].kc = k}
           m == Min(hits)
           a == SubSeq(list, 1, m - 1)
           b == SubSeq(list, m + 1, Len(list))
<1>1. CASE hits = {}
  BY <1>1 DEF removeDeletedOwner
<1>2. CASE hits # {}
  <2>1. m \in 1 .. Len(list) /\ Len(list) \in Nat
    <3>1. Len(list) \in Nat /\ DOMAIN list = 1 .. Len(list)
      BY LenProperties
    <3>2. hits \in SUBSET Nat
      BY <3>1
    <3>3. m \in hits
      BY <1>2, <3>2, MinProperty
    <3> QED
      BY <3>1, <3>3
  <2>2. removeDeletedOwner(k, list) = a \o b
    BY <1>2 DEF removeDeletedOwner
  <2> HIDE DEF m
  <2>3. a \in Seq(Entry) /\ Len(a) = m - 1 /\ \A i \in 1 .. (m - 1) : a[i] = list[i]
    BY <2>1
  <2>4. b \in Seq(Entry) /\ Len(b) = Len(list) - m
        /\ \A i \in 1 .. (Len(list) - m) : b[i] = list[m + i]
    BY <2>1
  <2> HIDE DEF a, b
  <2>a. /\ a \o b \in Seq(Entry) /\ Len(a \o b) = Len(a) + Len(b)
        /\ \A i \in 1 .. Len(a) + Len(b) : (a \o b)[i] = IF i <= Len(a) THEN a[i] ELSE b[i - Len(a)]
    BY <2>3, <2>4, ConcatProperties
  <2>5. a \o b \in Seq(Entry) /\ Len(a \o b) = Len(list) - 1
    BY <2>1, <2>3, <2>4, <2>a
  <2>6. ASSUME NEW i \in DOMAIN (a \o b) PROVE \E j \in DOMAIN list : (a \o b)[i] = list[j]
    <3>1. i \in 1 .. (Len(list) - 1) /\ DOMAIN list = 1 .. Len(list)
      BY <2>5, LenProperties
    <3>2. CASE i < m
      <4>1. (a \o b)[i] = a[i] /\ a[i] = list[i] /\ i \in 1 .. Len(list)
        BY <2>1, <2>3, <2>4, <2>a, <3>1, <3>2
      <4> QED
        BY <3>1, <4>1
    <3>3. CASE i >= m
      <4> DEFINE n == i - (m - 1)
      <4>1. (a \o b)[i] = b[n]
        BY <2>1, <2>3, <2>4, <2>a, <3>1, <3>3
      <4>2. n \in 1 .. (Len(list) - m) /\ m + n = i + 1 /\ i + 1 \in 1 .. Len(list)
        BY <2>1, <3>1, <3>3
      <4> HIDE DEF n
      <4>3. b[n] = list[i + 1]
        BY <2>4, <4>2
      <4> QED
        BY <3>1, <4>1, <4>2, <4>3
    <3> QED
      BY <2>1, <3>1, <3>2, <3>3
  <2> QED
    BY <2>2, <2>5, <2>6
<1> QED
  BY <1>1, <1>2

\* Owners are KubeletConfigs.
LEMMA OwnersType ==
    ASSUME NEW c \in CMType \cup {NoCM}, NEW d \in CMType \cup {NoCM}
    PROVE  Owners(c, d) \subseteq KCs
BY DEF Owners, CMType, Owner

\* What a user writes is a KubeletConfig.
LEMMA WrittenType ==
    ASSUME NEW k \in KCs, NEW new \in KCChoices[k], NEW uid \in 0 .. Budget
    PROVE  Written(new, uid) \in KCType
<1>1. new \in Content
  BY KCAssumption
<1> QED
  BY <1>1 DEF Written, Content, KCType

-----------------------------------------------------------------------------
(* Type correctness, one variable after the other.                         *)

LEMMA BudgetType ==
    ASSUME TypeOK, Next
    PROVE  /\ budget' \in 0 .. Budget /\ touch' \in BOOLEAN
           /\ platform' \in Platforms /\ platform' = platform
<1>1. budget' = budget \/ (budget > 0 /\ budget' = budget - 1)
  BY Zenon DEF Next, Reconcile, Start, WriteConfigMap, DeleteConfigMap, ForgetDeleted, Crash,
     PatchNROStatus, ToggleNRO, TimerFires, DeleteKC, SetKC, GarbageCollect, DeleteCM, EditNRO, Disturb
<1>2. budget' \in 0 .. Budget
  BY <1>1, KCAssumption DEF TypeOK
<1>3. platform' = platform
  BY Zenon DEF Next, Reconcile, Start, WriteConfigMap, DeleteConfigMap, ForgetDeleted, Crash,
     PatchNROStatus, ToggleNRO, TimerFires, DeleteKC, SetKC, GarbageCollect, DeleteCM, RemoveCM, EditNRO,
     cluster
<1>5. ToggleNRO => touch' \in BOOLEAN
  BY DEF ToggleNRO, TypeOK
<1>6. ~ToggleNRO => touch' = touch \/ touch' = TRUE \/ touch' = FALSE
  BY Zenon DEF Next, Reconcile, Start, WriteConfigMap, DeleteConfigMap, ForgetDeleted, Crash,
     PatchNROStatus, TimerFires, DeleteKC, SetKC, GarbageCollect, DeleteCM, RemoveCM, EditNRO
<1> QED
  BY <1>2, <1>3, <1>5, <1>6 DEF TypeOK

LEMMA KCKept ==
    ASSUME Next
    PROVE  \/ kc' = kc
           \/ \E k \in KCs : DeleteKC(k) \/ \E new \in KCChoices[k] : SetKC(k, new)
BY Zenon DEF Next, Reconcile, Start, WriteConfigMap, DeleteConfigMap, ForgetDeleted, Crash,
   PatchNROStatus, ToggleNRO, TimerFires, GarbageCollect, DeleteCM, RemoveCM, EditNRO, cluster

\* Only users write KubeletConfigs, and only what they may write.
LEMMA SetFacts ==
    ASSUME TypeOK, budget' \in 0 .. Budget, NEW k \in KCs, NEW new \in KCChoices[k], SetKC(k, new)
    PROVE  \E uid \in 0 .. Budget : kc' = [kc EXCEPT ![k] = Written(new, uid)]
<1>1. CASE kc[k] = NoKC
  BY <1>1, Zenon DEF SetKC
<1>2. CASE kc[k] # NoKC
  <2>1. kc[k] \in KCType
    BY <1>2 DEF TypeOK
  <2>2. kc[k].uid \in 0 .. Budget
    BY <2>1 DEF KCType
  <2> QED
    BY <1>2, <2>2, Zenon DEF SetKC
<1> QED
  BY <1>1, <1>2

LEMMA KCTypeStep ==
    ASSUME TypeOK, Next, budget' \in 0 .. Budget
    PROVE  kc' \in [KCs -> KCType \cup {NoKC}]
<1>1. CASE kc' = kc
  BY <1>1 DEF TypeOK
<1>2. ASSUME NEW k \in KCs, DeleteKC(k) PROVE kc' \in [KCs -> KCType \cup {NoKC}]
  BY <1>2 DEF DeleteKC, TypeOK
<1>3. ASSUME NEW k \in KCs, NEW new \in KCChoices[k], SetKC(k, new)
      PROVE  kc' \in [KCs -> KCType \cup {NoKC}]
  <2>1. PICK uid \in 0 .. Budget : kc' = [kc EXCEPT ![k] = Written(new, uid)]
    BY <1>3, SetFacts
  <2>2. Written(new, uid) \in KCType
    BY WrittenType
  <2> QED
    BY <2>1, <2>2 DEF TypeOK
<1> QED
  BY <1>1, <1>2, <1>3, KCKept

LEMMA NROKept ==
    ASSUME Next
    PROVE  nro' = nro \/ ToggleNRO \/ \E g \in GroupChoices, e \in Excludes : EditNRO(g, e)
BY Zenon DEF Next, Reconcile, Start, WriteConfigMap, DeleteConfigMap, ForgetDeleted, Crash,
   PatchNROStatus, TimerFires, DeleteKC, SetKC, GarbageCollect, DeleteCM, RemoveCM, cluster

LEMMA NROTypeStep ==
    ASSUME TypeOK, Next
    PROVE  nro' \in [exists: BOOLEAN, groups: SUBSET Pools, excludes: Excludes]
<1>1. CASE nro' = nro
  BY <1>1 DEF TypeOK
<1>2. CASE ToggleNRO
  BY <1>2 DEF ToggleNRO, TypeOK
<1>3. ASSUME NEW g \in GroupChoices, NEW e \in Excludes, EditNRO(g, e)
      PROVE  nro' \in [exists: BOOLEAN, groups: SUBSET Pools, excludes: Excludes]
  <2>1. g \in SUBSET Pools
    BY KCAssumption
  <2> QED
    BY <1>3, <2>1 DEF EditNRO, TypeOK
<1> QED
  BY <1>1, <1>2, <1>3, NROKept

\* The ConfigMap syncConfigMap writes.
Made(w) ==
    [data |-> w.data, owner |-> IF platform = "OpenShift" THEN [kc |-> w.kc, uid |-> w.uid] ELSE NoOwner]

LEMMA MadeType ==
    ASSUME NEW w \in WriteType
    PROVE  Made(w) \in CMType
BY DEF Made, WriteType, CMType, Owner, Data

LEMMA CMKept ==
    ASSUME Next
    PROVE  \/ cm' = cm
           \/ work.stage = "write" /\ cm' = [cm EXCEPT ![work.pool] = Made(work)]
           \/ work.stage = "delete" /\ cm' = [cm EXCEPT ![work.pool] = NoCM]
           \/ \E p \in Pools : RemoveCM(p)
BY Zenon DEF Next, Reconcile, Start, WriteConfigMap, DeleteConfigMap, ForgetDeleted, Crash, Made,
   PatchNROStatus, ToggleNRO, TimerFires, DeleteKC, SetKC, GarbageCollect, DeleteCM, EditNRO, cluster

LEMMA CMTypeStep ==
    ASSUME TypeOK, Next
    PROVE  cm' \in [Pools -> CMType \cup {NoCM}]
<1>1. CASE cm' = cm
  BY <1>1 DEF TypeOK
<1>2. CASE work.stage = "write" /\ cm' = [cm EXCEPT ![work.pool] = Made(work)]
  <2>1. work \in WriteType
    BY <1>2, WorkFacts
  <2>2. Made(work) \in CMType
    BY <2>1, MadeType
  <2> QED
    BY <1>2, <2>2 DEF TypeOK
<1>3. CASE work.stage = "delete" /\ cm' = [cm EXCEPT ![work.pool] = NoCM]
  BY <1>3 DEF TypeOK
<1>4. ASSUME NEW p \in Pools, RemoveCM(p) PROVE cm' \in [Pools -> CMType \cup {NoCM}]
  BY <1>4 DEF RemoveCM, TypeOK
<1> QED
  BY <1>1, <1>2, <1>3, <1>4, CMKept

\* On HyperShift a KubeletConfig has its pool.
HasPool == platform = "HyperShift" => \A k \in KCs : kc[k] # NoKC => kc[k].pools # {}

LEMMA HasPoolStep ==
    ASSUME TypeOK, HasPool, Next, budget' \in 0 .. Budget, platform' = platform
    PROVE  HasPool'
<1> SUFFICES ASSUME platform = "HyperShift", NEW j \in KCs, kc'[j] # NoKC
             PROVE  kc'[j].pools # {}
  BY DEF HasPool
<1>1. CASE kc' = kc
  BY <1>1 DEF HasPool
<1>2. ASSUME NEW k \in KCs, DeleteKC(k) PROVE kc'[j].pools # {}
  BY <1>2 DEF DeleteKC, TypeOK, HasPool
<1>3. ASSUME NEW k \in KCs, NEW new \in KCChoices[k], SetKC(k, new) PROVE kc'[j].pools # {}
  <2>1. PICK uid \in 0 .. Budget : kc' = [kc EXCEPT ![k] = Written(new, uid)]
    BY <1>3, SetFacts
  <2>2. Written(new, uid).pools # {}
    BY KCAssumption DEF Written, TypeOK
  <2> QED
    BY <2>1, <2>2 DEF TypeOK, HasPool
<1> QED
  BY <1>1, <1>2, <1>3, KCKept

LEMMA GCKept ==
    ASSUME Next
    PROVE  gc' = gc \/ gc' = <<>> \/ ForgetDeleted \/ \E k \in KCs : DeleteKC(k)
BY Zenon DEF Next, Reconcile, Start, WriteConfigMap, DeleteConfigMap, Crash,
   PatchNROStatus, ToggleNRO, TimerFires, SetKC, GarbageCollect, DeleteCM, RemoveCM, EditNRO

\* What the deletion of a KubeletConfig notes on HyperShift.
Note(k) == [kc |-> k, pool |-> CHOOSE p \in kc[k].pools : TRUE]

LEMMA NoteType ==
    ASSUME TypeOK, HasPool, platform = "HyperShift", NEW k \in KCs, kc[k] # NoKC
    PROVE  Note(k) \in Entry /\ Note(k).kc = k /\ Note(k).pool \in kc[k].pools
<1>1. kc[k].pools # {} /\ kc[k].pools \subseteq Pools
  BY DEF TypeOK, HasPool, KCType
<1>2. (CHOOSE p \in kc[k].pools : TRUE) \in kc[k].pools
  BY <1>1
<1> QED
  BY <1>1, <1>2 DEF Note, Entry

LEMMA GCTypeStep ==
    ASSUME TypeOK, HasPool, Next
    PROVE  gc' \in Seq(Entry)
<1>0. gc \in Seq(Entry)
  BY DEF TypeOK, Entry
<1>1. CASE gc' = gc \/ gc' = <<>>
  BY <1>0, <1>1, EmptySeq
<1>2. CASE ForgetDeleted
  <2>1. work \in ForgetType
    BY <1>2, WorkFacts DEF ForgetDeleted
  <2>2. work.list \in Seq(Entry)
    BY <2>1 DEF ForgetType
  <2> QED
    BY <1>2, <2>2, RemoveFacts DEF ForgetDeleted
<1>3. ASSUME NEW k \in KCs, DeleteKC(k) PROVE gc' \in Seq(Entry)
  <2>1. CASE platform = "HyperShift"
    <3>1. kc[k] # NoKC /\ gc' = Append(gc, Note(k))
      BY <1>3, <2>1 DEF DeleteKC, Note
    <3>2. Note(k) \in Entry
      BY <2>1, <3>1, NoteType
    <3> QED
      BY <1>0, <3>1, <3>2
  <2>2. CASE platform # "HyperShift"
    BY <1>0, <1>3, <2>2 DEF DeleteKC
  <2> QED
    BY <2>1, <2>2
<1> QED
  BY <1>1, <1>2, <1>3, GCKept

\* Requests are for KubeletConfigs.
LEMMA QueueTypeStep ==
    ASSUME TypeOK, Next
    PROVE  queue' \subseteq KCs /\ timers' \subseteq KCs
<1> DEFINE Goal == queue' \subseteq KCs /\ timers' \subseteq KCs
<1>a. \A p, q \in Pools : Owners(cm[p], cm[q]) \subseteq KCs
  <2>1. \A p \in Pools : cm[p] \in CMType \cup {NoCM}
    BY DEF TypeOK
  <2> QED
    BY <2>1, OwnersType
<1>b. \A p \in Pools : Owners(cm[p], NoCM) \subseteq KCs
  <2>1. \A p \in Pools : cm[p] \in CMType \cup {NoCM}
    BY DEF TypeOK
  <2> QED
    BY <2>1, OwnersType
<1>1. ASSUME NEW k \in KCs, Start(k) PROVE Goal
  <2>1. queue' = queue \ {k} /\ (timers' = timers \/ timers' = timers \cup {k})
    BY <1>1, Zenon DEF Start
  <2> QED
    BY <2>1 DEF TypeOK
<1>2. CASE WriteConfigMap
  <2>1. work \in WriteType
    BY <1>2, WorkFacts DEF WriteConfigMap
  <2>2. work.kc \in KCs /\ work.pool \in Pools /\ Made(work) \in CMType
    BY <2>1, MadeType DEF WriteType
  <2>3. cm[work.pool] \in CMType \cup {NoCM}
    BY <2>2 DEF TypeOK
  <2>4. Owners(cm[work.pool], Made(work)) \subseteq KCs
    BY <2>2, <2>3, OwnersType
  <2>5. /\ queue' = queue \/ queue' = queue \cup Owners(cm[work.pool], Made(work))
        /\ timers' = timers \/ timers' = timers \cup {work.kc}
    BY <1>2, Zenon DEF WriteConfigMap, Made
  <2> QED
    BY <2>2, <2>4, <2>5 DEF TypeOK
<1>3. CASE DeleteConfigMap
  <2>1. work \in DeleteType
    BY <1>3, WorkFacts DEF DeleteConfigMap
  <2>2. work.kc \in KCs
    BY <2>1 DEF DeleteType
  <2>3. queue' = queue /\ (timers' = timers \/ timers' = timers \cup {work.kc})
    BY <1>3, Zenon DEF DeleteConfigMap
  <2> QED
    BY <2>2, <2>3 DEF TypeOK
<1>4. CASE ForgetDeleted
  BY <1>4 DEF ForgetDeleted, TypeOK
<1>5. CASE Crash
  BY <1>5, <1>a DEF Crash, TypeOK
<1>6. CASE PatchNROStatus \/ ToggleNRO
  BY <1>6 DEF PatchNROStatus, ToggleNRO, AllKubeletConfigs, TypeOK
<1>7. ASSUME NEW k \in KCs, TimerFires(k) PROVE Goal
  BY <1>7 DEF TimerFires, TypeOK
<1>8. ASSUME NEW k \in KCs, DeleteKC(k) PROVE Goal
  BY <1>8 DEF DeleteKC, TypeOK
<1>9. ASSUME NEW k \in KCs, NEW new \in KCChoices[k], SetKC(k, new) PROVE Goal
  BY <1>9 DEF SetKC, TypeOK
<1>10. ASSUME NEW p \in Pools, RemoveCM(p) PROVE Goal
  BY <1>10, <1>b DEF RemoveCM, TypeOK
<1>11. ASSUME NEW g \in GroupChoices, NEW e \in Excludes, EditNRO(g, e) PROVE Goal
  BY <1>11 DEF EditNRO, AllKubeletConfigs, TypeOK
<1>12. ASSUME NEW p \in Pools, GarbageCollect(p) \/ DeleteCM(p) PROVE Goal
  <2>1. RemoveCM(p)
    BY <1>12, Zenon DEF GarbageCollect, DeleteCM
  <2> QED
    BY <1>10, <2>1
<1>13. (\E k \in KCs : Start(k)) => Goal
  BY <1>1
<1>14. ASSUME NEW k \in KCs, TimerFires(k) \/ DeleteKC(k) \/ \E new \in KCChoices[k] : SetKC(k, new)
       PROVE  Goal
  BY <1>7, <1>8, <1>9, <1>14
<1> QED
  BY <1>2, <1>3, <1>4, <1>5, <1>6, <1>11, <1>12, <1>13, <1>14, Zenon DEF Next, Reconcile

\* A Reconcile has a stage, and what that stage needs.
WorkType == {Idle} \cup WriteType \cup DeleteType \cup ForgetType

LEMMA WorkKept ==
    ASSUME Next
    PROVE  work' = work \/ work' = Idle \/ DeleteConfigMap \/ \E k \in KCs : Start(k)
BY Zenon DEF Next, Reconcile, WriteConfigMap, ForgetDeleted, Crash, Finish,
   PatchNROStatus, ToggleNRO, TimerFires, DeleteKC, SetKC, GarbageCollect, DeleteCM, RemoveCM, EditNRO

\* What the property asks for is asked of the KubeletConfig.
Usable(k) ==
    kc[k] # NoKC /\ ~HandlerFails(k) /\ ~HandlerIgnores(k) /\ kc[k].payload # "bad"

\* What Start leaves to do.
LEMMA StartFacts ==
    ASSUME TypeOK, NEW k \in KCs, Start(k)
    PROVE  \/ work' = Idle
           \/ \E i \in DOMAIN gc :
                gc[i].kc = k /\ work' = [stage |-> "delete", kc |-> k, pool |-> gc[i].pool]
           \/ /\ nro.exists /\ Usable(k)
              /\ \E p \in HandledPools(k) :
                   work' = [stage |-> "write", kc |-> k, uid |-> kc[k].uid, pool |-> p,
                            data |-> Render(kc[k].payload, nro.excludes)]
<1> DEFINE deleted == getDeletedOwner(k)
<1>1. CASE work' = [stage |-> "delete", kc |-> k, pool |-> gc[Min(deleted)].pool] /\ deleted # {}
  <2>1. deleted \in SUBSET Nat
    <3>1. DOMAIN gc = 1 .. Len(gc) /\ Len(gc) \in Nat
      BY LenProperties DEF TypeOK
    <3> QED
      BY <3>1 DEF getDeletedOwner
  <2>2. Min(deleted) \in deleted
    BY <1>1, <2>1, MinProperty
  <2> QED
    BY <1>1, <2>2 DEF getDeletedOwner
<1>2. CASE ~(work' = [stage |-> "delete", kc |-> k, pool |-> gc[Min(deleted)].pool] /\ deleted # {})
  BY <1>2, Zenon DEF Start, Finish, Usable, HandlerFails
<1> QED
  BY <1>1, <1>2

LEMMA WorkTypeStep ==
    ASSUME TypeOK, Next
    PROVE  work' \in WorkType
<1>1. CASE work' = work
  BY <1>1 DEF TypeOK, WorkType, WriteType, DeleteType, ForgetType, Data, Entry
<1>2. CASE work' = Idle
  BY <1>2 DEF WorkType
<1>3. CASE DeleteConfigMap
  <2>1. work \in DeleteType
    BY <1>3, WorkFacts DEF DeleteConfigMap
  <2>2. work' = Idle \/ work' = [stage |-> "forget", kc |-> work.kc, list |-> gc]
    BY <1>3, Zenon DEF DeleteConfigMap, Finish
  <2> QED
    BY <2>1, <2>2 DEF WorkType, DeleteType, ForgetType, TypeOK, Entry
<1>4. ASSUME NEW k \in KCs, Start(k) PROVE work' \in WorkType
  <2>1. CASE work' = Idle
    BY <2>1 DEF WorkType
  <2>2. ASSUME NEW i \in DOMAIN gc, work' = [stage |-> "delete", kc |-> k, pool |-> gc[i].pool]
        PROVE  work' \in WorkType
    <3>0. gc \in Seq(Entry)
      BY DEF TypeOK, Entry
    <3>1. gc[i] \in Entry
      BY <3>0
    <3> QED
      BY <2>2, <3>1 DEF WorkType, DeleteType, Entry
  <2>3. ASSUME Usable(k), NEW p \in HandledPools(k),
               work' = [stage |-> "write", kc |-> k, uid |-> kc[k].uid, pool |-> p,
                        data |-> Render(kc[k].payload, nro.excludes)]
        PROVE  work' \in WorkType
    <3>1. kc[k] \in KCType
      BY <2>3 DEF Usable, TypeOK
    <3>2. kc[k].payload # "nil" /\ kc[k].payload # "bad"
      BY <2>3 DEF Usable, HandlerIgnores
    <3>3. kc[k].payload \in Payloads /\ kc[k].uid \in 0 .. Budget /\ kc[k].pools \subseteq Pools
      BY <3>1, <3>2 DEF KCType
    <3>4. p \in Pools
      BY <3>3 DEF HandledPools
    <3>5. Render(kc[k].payload, nro.excludes) \in Data
      BY <3>3 DEF Render, Data, TypeOK
    <3>6. work' \in WriteType
      BY <2>3, <3>3, <3>4, <3>5 DEF WriteType
    <3> QED
      BY <3>6 DEF WorkType
  <2> QED
    BY <1>4, <2>1, <2>2, <2>3, StartFacts
<1> QED
  BY <1>1, <1>2, <1>3, <1>4, WorkKept

\* TypeOK needs, to be inductive, that on HyperShift a KubeletConfig has its pool.
TypeInv == TypeOK /\ HasPool

LEMMA TypeInvInit ==
    ASSUME Init
    PROVE  TypeInv
<1>1. kc \in [KCs -> KCType \cup {NoKC}] /\ platform \in Platforms
  BY KCAssumption DEF Init
<1>2. nro \in [exists: BOOLEAN, groups: SUBSET Pools, excludes: Excludes]
  BY KCAssumption DEF Init
<1>3. gc \in Seq([kc: KCs, pool: Pools])
  BY EmptySeq DEF Init
<1>4. budget \in 0 .. Budget
  BY KCAssumption DEF Init
<1>5. HasPool
  BY KCAssumption DEF Init, HasPool
<1> QED
  BY <1>1, <1>2, <1>3, <1>4, <1>5 DEF Init, TypeInv, TypeOK

LEMMA TypeInvStep ==
    ASSUME TypeInv, [Next]_vars
    PROVE  TypeInv'
<1> USE DEF TypeInv
<1>1. CASE Next
  <2>1. budget' \in 0 .. Budget /\ touch' \in BOOLEAN /\ platform' \in Platforms /\ platform' = platform
    BY <1>1, BudgetType
  <2>2. work' \in WorkType /\ gc' \in Seq(Entry)
    BY <1>1, WorkTypeStep, GCTypeStep
  <2>3. kc' \in [KCs -> KCType \cup {NoKC}] /\ cm' \in [Pools -> CMType \cup {NoCM}]
    BY <1>1, <2>1, KCTypeStep, CMTypeStep
  <2>4. HasPool'
    BY <1>1, <2>1, HasPoolStep
  <2>5. TypeOK'
    BY <1>1, <2>1, <2>2, <2>3, NROTypeStep, QueueTypeStep
       DEF TypeOK, WorkType, WriteType, DeleteType, ForgetType, Data, Entry
  <2> QED
    BY <2>4, <2>5
<1>2. CASE UNCHANGED vars
  BY <1>2 DEF vars, cluster, TypeOK, HasPool
<1> QED
  BY <1>1, <1>2

\* TypeOK for every set of KubeletConfigs, pools, payloads and exclusions: what
\* Reconcile carries from one step to the next always has the parts the next
\* step reads, the pool noted for a deleted KubeletConfig included.
THEOREM KCTypeCorrect == Spec => []TypeOK
<1>1. Init => TypeInv
  BY TypeInvInit
<1>2. TypeInv /\ [Next]_vars => TypeInv'
  BY TypeInvStep
<1>3. TypeInv => TypeOK
  BY DEF TypeInv
<1> QED
  BY <1>1, <1>2, <1>3, PTL DEF Spec

-----------------------------------------------------------------------------
(* Whose ConfigMaps are whose.                                             *)

\* The pools a KubeletConfig may ever be for.
PoolsOfKC(k) ==
    {p \in Pools : \/ \E c \in KCChoices[k] : p \in c.pools
                   \/ InitKC[k] # NoKC /\ p \in InitKC[k].pools}

\* On HyperShift every pool has one KubeletConfig, which is not created again once
\* it is deleted, and nobody else deletes ConfigMaps: there they have no owner, so
\* that no request follows such a change.
Orderly ==
    "HyperShift" \in Platforms =>
        /\ {"create", "cmdelete"} \cap Disturbances["HyperShift"] = {}
        /\ \A j, k \in KCs : j # k => PoolsOfKC(j) \cap PoolsOfKC(k) = {}

\* The KubeletConfigs noted as deleted stay deleted.
Gone(e) == kc[e.kc] = NoKC /\ e.pool \in PoolsOfKC(e.kc)

\* The ConfigMaps and the notes on HyperShift.
NotesInv ==
    /\ \A p \in Pools : cm[p] # NoCM => cm[p].owner = NoOwner
    /\ \A i \in DOMAIN gc : Gone(gc[i])
    /\ work.stage \in {"write", "delete"} => work.pool \in PoolsOfKC(work.kc)
    /\ work.stage = "delete" => kc[work.kc] = NoKC
    /\ work.stage = "forget" => \A i \in DOMAIN work.list : Gone(work.list[i])

OwnPools == \A k \in KCs : kc[k] # NoKC => kc[k].pools \subseteq PoolsOfKC(k)

\* On OpenShift nothing is noted, and Reconcile deletes nothing.
NoNotes == gc = <<>> /\ work.stage \in {"idle", "write"}

OwnerInv ==
    /\ OwnPools
    /\ platform = "OpenShift" => NoNotes
    /\ platform = "HyperShift" => NotesInv

LEMMA OwnPoolsStep ==
    ASSUME TypeOK, OwnPools, Next, budget' \in 0 .. Budget
    PROVE  OwnPools'
<1> SUFFICES ASSUME NEW j \in KCs, kc'[j] # NoKC
             PROVE  kc'[j].pools \subseteq PoolsOfKC(j)
  BY DEF OwnPools, PoolsOfKC
<1>1. CASE kc' = kc
  BY <1>1 DEF OwnPools
<1>2. ASSUME NEW k \in KCs, DeleteKC(k) PROVE kc'[j].pools \subseteq PoolsOfKC(j)
  BY <1>2 DEF DeleteKC, TypeOK, OwnPools
<1>3. ASSUME NEW k \in KCs, NEW new \in KCChoices[k], SetKC(k, new)
      PROVE  kc'[j].pools \subseteq PoolsOfKC(j)
  <2>1. PICK uid \in 0 .. Budget : kc' = [kc EXCEPT ![k] = Written(new, uid)]
    BY <1>3, SetFacts
  <2>2. Written(new, uid).pools \subseteq PoolsOfKC(k)
    BY KCAssumption DEF Written, PoolsOfKC, Content
  <2> QED
    BY <2>1, <2>2 DEF TypeOK, OwnPools
<1> QED
  BY <1>1, <1>2, <1>3, KCKept

LEMMA NoNotesStep ==
    ASSUME TypeOK, NoNotes, Next, platform = "OpenShift"
    PROVE  NoNotes'
<1>0. work.stage \in {"idle", "write"} /\ gc = <<>>
  BY DEF NoNotes
<1>1. gc' = <<>>
  <2>1. ~ForgetDeleted
    BY <1>0 DEF ForgetDeleted
  <2>2. ASSUME NEW k \in KCs, DeleteKC(k) PROVE gc' = gc
    BY <2>2 DEF DeleteKC
  <2> QED
    BY <1>0, <2>1, <2>2, GCKept
<1>2. work'.stage \in {"idle", "write"}
  <2>1. ~DeleteConfigMap
    BY <1>0 DEF DeleteConfigMap
  <2>2. ASSUME NEW k \in KCs, Start(k) PROVE work'.stage \in {"idle", "write"}
    <3>1. DOMAIN gc = {}
      BY <1>0
    <3>2. work' = Idle \/ \E p \in HandledPools(k) :
                   work' = [stage |-> "write", kc |-> k, uid |-> kc[k].uid, pool |-> p,
                            data |-> Render(kc[k].payload, nro.excludes)]
      BY <2>2, <3>1, StartFacts
    <3> QED
      BY <3>2 DEF Idle
  <2>3. work' = Idle => work'.stage = "idle"
    BY DEF Idle
  <2> QED
    BY <1>0, <2>1, <2>2, <2>3, WorkKept
<1> QED
  BY <1>1, <1>2 DEF NoNotes

\* A deleted KubeletConfig is not created again on HyperShift.
LEMMA StaysGone ==
    ASSUME TypeOK, Orderly, Next, platform = "HyperShift", NEW j \in KCs, kc[j] = NoKC
    PROVE  kc'[j] = NoKC
<1>1. CASE kc' = kc
  BY <1>1
<1>2. ASSUME NEW k \in KCs, DeleteKC(k) PROVE kc'[j] = NoKC
  BY <1>2 DEF DeleteKC, TypeOK
<1>3. ASSUME NEW k \in KCs, NEW new \in KCChoices[k], SetKC(k, new) PROVE kc'[j] = NoKC
  <2>1. "create" \notin Disturbances[platform]
    BY DEF Orderly, TypeOK
  <2>2. kc[k] # NoKC /\ kc' = [kc EXCEPT ![k] = Written(new, kc[k].uid)]
    BY <1>3, <2>1, Zenon DEF SetKC, Disturb
  <2> QED
    BY <2>2 DEF TypeOK
<1> QED
  BY <1>1, <1>2, <1>3, KCKept

LEMMA StaysNoted ==
    ASSUME TypeOK, Orderly, Next, platform = "HyperShift", NEW e \in Entry, Gone(e)
    PROVE  kc'[e.kc] = NoKC /\ e.pool \in PoolsOfKC(e.kc)
BY StaysGone DEF Gone, Entry

LEMMA NotesStep ==
    ASSUME TypeOK, HasPool, OwnPools, NotesInv, Orderly, Next,
           platform = "HyperShift", platform' = platform
    PROVE  NotesInv'
<1> DEFINE After(e) == kc'[e.kc] = NoKC /\ e.pool \in PoolsOfKC(e.kc)
<1>0. gc \in Seq(Entry) /\ DOMAIN gc = 1 .. Len(gc)
  BY LenProperties DEF TypeOK, Entry
<1>1. \A p \in Pools : cm'[p] # NoCM => cm'[p].owner = NoOwner
  <2>1. Made(work).owner = NoOwner
    BY DEF Made
  <2>2. ASSUME NEW p \in Pools, RemoveCM(p) PROVE cm' = [cm EXCEPT ![p] = NoCM]
    BY <2>2 DEF RemoveCM
  <2> QED
    BY <2>1, <2>2, CMKept DEF TypeOK, NotesInv
<1>2. \A i \in DOMAIN gc : After(gc[i])
  <2>1. \A i \in DOMAIN gc : gc[i] \in Entry /\ Gone(gc[i])
    BY <1>0 DEF NotesInv
  <2> QED
    BY <2>1, StaysNoted
<1>3. work.stage = "forget" =>
        work.list \in Seq(Entry) /\ \A i \in DOMAIN work.list : After(work.list[i])
  <2> SUFFICES ASSUME work.stage = "forget"
               PROVE  work.list \in Seq(Entry) /\ \A i \in DOMAIN work.list : After(work.list[i])
    OBVIOUS
  <2>1. work.list \in Seq(Entry)
    BY WorkFacts DEF ForgetType
  <2>2. \A i \in DOMAIN work.list : work.list[i] \in Entry /\ Gone(work.list[i])
    BY <2>1 DEF NotesInv
  <2> QED
    BY <2>1, <2>2, StaysNoted
<1>4. \A i \in DOMAIN gc' : After(gc'[i])
  <2>1. CASE gc' = gc
    BY <1>2, <2>1
  <2>2. CASE gc' = <<>>
    BY <2>2
  <2>3. CASE ForgetDeleted
    <3>1. work.list \in Seq(Entry) /\ \A i \in DOMAIN work.list : After(work.list[i])
      BY <1>3, <2>3 DEF ForgetDeleted
    <3>2. \A i \in DOMAIN gc' : \E j \in DOMAIN work.list : gc'[i] = work.list[j]
      BY <2>3, <3>1, RemoveFacts DEF ForgetDeleted
    <3> QED
      BY <3>1, <3>2
  <2>4. ASSUME NEW k \in KCs, DeleteKC(k) PROVE \A i \in DOMAIN gc' : After(gc'[i])
    <3>1. kc[k] # NoKC /\ gc' = Append(gc, Note(k)) /\ kc' = [kc EXCEPT ![k] = NoKC]
      BY <2>4 DEF DeleteKC, Note
    <3>2. Note(k) \in Entry /\ Note(k).kc = k /\ Note(k).pool \in PoolsOfKC(k)
      BY <3>1, NoteType DEF OwnPools
    <3>3. After(Note(k))
      BY <3>1, <3>2 DEF TypeOK
    <3>4. DOMAIN gc' = 1 .. Len(gc) + 1 /\ gc'[Len(gc) + 1] = Note(k)
          /\ \A i \in 1 .. Len(gc) : gc'[i] = gc[i]
      BY <1>0, <3>1, <3>2, AppendProperties, LenProperties
    <3>5. \A i \in DOMAIN gc' : i \in 1 .. Len(gc) \/ i = Len(gc) + 1
      BY <1>0, <3>4
    <3> HIDE DEF After
    <3> QED
      BY <1>0, <1>2, <3>3, <3>4, <3>5
  <2> QED
    BY <2>1, <2>2, <2>3, <2>4, GCKept
<1>5. /\ work'.stage \in {"write", "delete"} => work'.pool \in PoolsOfKC(work'.kc)
      /\ work'.stage = "delete" => kc'[work'.kc] = NoKC
      /\ work'.stage = "forget" => \A i \in DOMAIN work'.list : After(work'.list[i])
  <2>1. CASE work' = work
    <3>1. work.stage = "delete" => work.kc \in KCs
      BY WorkFacts DEF DeleteType
    <3>2. work.stage = "delete" => kc'[work.kc] = NoKC
      BY <3>1, StaysGone DEF NotesInv
    <3> QED
      BY <1>3, <2>1, <3>2 DEF NotesInv
  <2>2. CASE work' = Idle
    BY <2>2 DEF Idle
  <2>3. CASE DeleteConfigMap
    <3>1. work' = Idle \/ work' = [stage |-> "forget", kc |-> work.kc, list |-> gc]
      BY <2>3, Zenon DEF DeleteConfigMap, Finish
    <3> QED
      BY <1>2, <2>2, <3>1
  <2>4. ASSUME NEW k \in KCs, Start(k)
        PROVE  /\ work'.stage \in {"write", "delete"} => work'.pool \in PoolsOfKC(work'.kc)
               /\ work'.stage = "delete" => kc'[work'.kc] = NoKC
               /\ work'.stage = "forget" => \A i \in DOMAIN work'.list : After(work'.list[i])
    <3>1. ASSUME NEW i \in DOMAIN gc, gc[i].kc = k,
                 work' = [stage |-> "delete", kc |-> k, pool |-> gc[i].pool]
          PROVE  work'.pool \in PoolsOfKC(work'.kc) /\ kc'[work'.kc] = NoKC /\ work'.stage = "delete"
      BY <1>2, <3>1
    <3>2. ASSUME Usable(k), NEW p \in HandledPools(k),
                 work' = [stage |-> "write", kc |-> k, uid |-> kc[k].uid, pool |-> p,
                          data |-> Render(kc[k].payload, nro.excludes)]
          PROVE  work'.pool \in PoolsOfKC(work'.kc) /\ work'.stage = "write"
      <4>1. p \in kc[k].pools /\ kc[k] # NoKC
        BY <3>2 DEF HandledPools, Usable
      <4> QED
        BY <3>2, <4>1 DEF OwnPools
    <3>3. work' = Idle => work'.stage = "idle"
      BY DEF Idle
    <3> QED
      BY <2>4, <3>1, <3>2, <3>3, StartFacts
  <2> QED
    BY <2>1, <2>2, <2>3, <2>4, WorkKept
<1> QED
  BY <1>1, <1>4, <1>5 DEF NotesInv, Gone, PoolsOfKC

-----------------------------------------------------------------------------
(* No KubeletConfig is forgotten.                                          *)

\* The ConfigMap of a pool is what its KubeletConfig asks for; on OpenShift it
\* also belongs to it.
Holds(k, p) ==
    /\ cm[p] # NoCM /\ cm[p].data = Render(kc[k].payload, nro.excludes)
    /\ platform = "OpenShift" => cm[p].owner # NoOwner /\ cm[p].owner.kc = k

\* The KubeletConfig as it is now has reached a pool it is handled for,
Reached(k) == \E p \in HandledPools(k) : Holds(k, p)

Writing(k) == work.stage = "write" /\ work.kc = k

\* or is about to.
Arriving(k) ==
    /\ Writing(k) /\ work.pool \in HandledPools(k)
    /\ work.data = Render(kc[k].payload, nro.excludes)

\* A KubeletConfig that can be used has reached its ConfigMap and nothing older is
\* about to replace it, or it is on its way, or a request for it is to come.
Served(k) == k \in queue \cup timers \/ Arriving(k) \/ (Reached(k) /\ ~Writing(k))

RequestInv == nro.exists /\ ~touch => \A k \in KCs : Usable(k) => Served(k)

ReachInv == TypeInv /\ OwnerInv /\ RequestInv

\* Nothing that concerns the KubeletConfig changes but the ConfigMaps and the work.
SameFor(k) == platform' = platform /\ nro' = nro /\ kc'[k] = kc[k]

LEMMA SameFacts ==
    ASSUME NEW k \in KCs, SameFor(k)
    PROVE  /\ Usable(k)' <=> Usable(k)
           /\ HandledPools(k)' = HandledPools(k)
           /\ cm' = cm => (Reached(k)' <=> Reached(k))
           /\ work' = work => (Arriving(k)' <=> Arriving(k)) /\ (Writing(k)' <=> Writing(k))
<1>1. HandledPools(k)' = HandledPools(k)
  BY DEF SameFor, HandledPools
<1>2. Usable(k)' <=> Usable(k)
  BY <1>1 DEF SameFor, Usable, HandlerFails, HandlerIgnores
<1>3. ASSUME cm' = cm PROVE Reached(k)' <=> Reached(k)
  BY <1>1, <1>3 DEF SameFor, Reached, Holds, Render
<1>4. ASSUME work' = work PROVE (Arriving(k)' <=> Arriving(k)) /\ (Writing(k)' <=> Writing(k))
  BY <1>1, <1>4 DEF SameFor, Arriving, Writing, Render
<1> QED
  BY <1>1, <1>2, <1>3, <1>4

\* Events that leave ConfigMaps and work alone lose no request.
LEMMA QuietStep ==
    ASSUME NEW k \in KCs, SameFor(k), cm' = cm, work' = work,
           queue \cup timers \subseteq queue' \cup timers', Served(k)
    PROVE  Served(k)'
BY SameFacts DEF Served

\* Start takes the request for a usable KubeletConfig and no other to a write.
LEMMA StartServes ==
    ASSUME TypeOK, OwnerInv, NEW j \in KCs, Start(j), NEW k \in KCs,
           nro.exists, Usable(k), Served(k)
    PROVE  Served(k)'
<1>1. SameFor(k) /\ cm' = cm /\ work = Idle /\ queue' = queue \ {j}
  BY DEF Start, SameFor, cluster
<1>2. timers \subseteq timers'
  <2>1. timers' = timers \/ timers' = timers \cup {j}
    BY Zenon DEF Start
  <2> QED
    BY <2>1
<1>3. ~Arriving(k) /\ ~Writing(k)
  BY <1>1 DEF Arriving, Writing, Idle
<1>4. CASE j = k
  <2>1. getDeletedOwner(k) = {}
    <3>1. CASE platform = "OpenShift"
      BY <3>1 DEF OwnerInv, NoNotes, getDeletedOwner
    <3>2. CASE platform = "HyperShift"
      BY <3>2 DEF OwnerInv, NotesInv, Gone, getDeletedOwner, Usable
    <3> QED
      BY <3>1, <3>2, KCAssumption DEF TypeOK
  <2>2. PICK p \in HandledPools(k) :
             work' = [stage |-> "write", kc |-> k, uid |-> kc[k].uid, pool |-> p,
                      data |-> Render(kc[k].payload, nro.excludes)]
    BY <1>4, <2>1, Zenon DEF Start, Usable
  <2>3. Arriving(k)'
    BY <1>1, <2>2, SameFacts DEF Arriving, Writing, SameFor, Render
  <2> QED
    BY <2>3 DEF Served
<1>5. CASE j # k
  <2>1. ~Writing(k)'
    <3>1. work' = Idle \/ work'.kc = j
      BY StartFacts
    <3> QED
      BY <1>5, <3>1 DEF Writing, Idle
  <2> QED
    BY <1>1, <1>2, <1>3, <1>5, <2>1, SameFacts DEF Served
<1> QED
  BY <1>4, <1>5

\* The owner of a ConfigMap is told when it changes.
LEMMA OwnerTold ==
    ASSUME NEW old, NEW new, old # NoCM, old.owner # NoOwner
    PROVE  old.owner.kc \in Owners(old, new)
BY DEF Owners

\* A ConfigMap is written over only for its KubeletConfig, or with its
\* KubeletConfig told (syncConfigMap, Owns in SetupWithManager).
LEMMA WriteServes ==
    ASSUME TypeOK, OwnerInv, Orderly, WriteConfigMap, NEW k \in KCs, Usable(k), Served(k)
    PROVE  Served(k)'
<1> DEFINE p == work.pool
           new == Made(work)
<1>1. SameFor(k) /\ work' = Idle /\ work.stage = "write"
  BY DEF WriteConfigMap, SameFor, Finish
<1>2. work \in WriteType /\ p \in Pools
  BY <1>1, WorkFacts DEF WriteType
<1>3. ~Writing(k)'
  BY <1>1 DEF Writing, Idle
<1>4. CASE timers' = timers \cup {work.kc} /\ cm' = cm /\ queue' = queue
  BY <1>1, <1>3, <1>4, SameFacts DEF Served, Arriving, Writing
<1>5. CASE /\ cm' = [cm EXCEPT ![p] = new] /\ timers' = timers
           /\ queue' = IF cm[p] = new THEN queue ELSE queue \cup Owners(cm[p], new)
  <2>1. cm'[p] = new /\ \A q \in Pools : q # p => cm'[q] = cm[q]
    BY <1>2, <1>5 DEF TypeOK
  <2>2. CASE k \in queue \cup timers
    BY <1>5, <2>2 DEF Served
  <2>3. CASE Arriving(k)
    <3>1. new \in CMType /\ new.data = Render(kc[k].payload, nro.excludes)
      BY <1>2, <2>3, MadeType DEF Arriving, Made
    <3>2. new # NoCM
      BY <3>1, KCAssumption
    <3>3. platform = "OpenShift" => new.owner # NoOwner /\ new.owner.kc = k
      <4> SUFFICES ASSUME platform = "OpenShift" PROVE new.owner # NoOwner /\ new.owner.kc = k
        OBVIOUS
      <4>1. new.owner = [kc |-> work.kc, uid |-> work.uid] /\ work.kc = k
        BY <2>3 DEF Made, Arriving, Writing
      <4>2. new.owner \in Owner
        BY <1>2, <4>1 DEF WriteType, Owner
      <4> QED
        BY <4>1, <4>2, KCAssumption
    <3>4. p \in HandledPools(k)'
      BY <1>1, <2>3, SameFacts DEF Arriving
    <3>5. Reached(k)'
      BY <1>1, <2>1, <3>1, <3>2, <3>3, <3>4 DEF Reached, Holds, SameFor, Render
    <3> QED
      BY <1>3, <3>5 DEF Served
  <2>4. CASE Reached(k) /\ ~Writing(k)
    <3>1. PICK q \in HandledPools(k) : Holds(k, q)
      BY <2>4 DEF Reached
    <3>2. q \in kc[k].pools /\ kc[k] # NoKC /\ q \in Pools
      BY <3>1 DEF HandledPools, Usable, TypeOK, KCType
    <3>3. CASE q # p \/ cm[p] = new
      <4>1. cm'[q] = cm[q]
        BY <2>1, <3>2, <3>3
      <4>2. Reached(k)'
        BY <1>1, <3>1, <4>1, SameFacts DEF Reached, Holds, SameFor, Render
      <4> QED
        BY <1>3, <4>2 DEF Served
    <3>4. CASE q = p /\ cm[p] # new
      <4>1. CASE platform = "OpenShift"
        <5>1. cm[p] # NoCM /\ cm[p].owner # NoOwner /\ cm[p].owner.kc = k
          BY <3>1, <3>4, <4>1 DEF Holds
        <5>2. k \in Owners(cm[p], new)
          BY <5>1, OwnerTold
        <5> QED
          BY <1>5, <3>4, <5>2 DEF Served
      <4>2. CASE platform = "HyperShift"
        <5>1. p \in PoolsOfKC(work.kc) /\ p \in PoolsOfKC(k) /\ work.kc \in KCs /\ work.kc # k
          BY <1>1, <1>2, <2>4, <3>2, <3>4, <4>2 DEF OwnerInv, NotesInv, OwnPools, WriteType, Writing
        <5> QED
          BY <4>2, <5>1 DEF Orderly, TypeOK
      <4> QED
        BY <4>1, <4>2, KCAssumption DEF TypeOK
    <3> QED
      BY <3>3, <3>4
  <2> QED
    BY <2>2, <2>3, <2>4 DEF Served
<1> QED
  BY <1>4, <1>5, Zenon DEF WriteConfigMap, Made

\* Reconcile deletes the ConfigMap of a KubeletConfig that is gone, not of another.
LEMMA DeleteServes ==
    ASSUME TypeOK, OwnerInv, Orderly, DeleteConfigMap, NEW k \in KCs, Usable(k), Served(k)
    PROVE  Served(k)'
<1>1. SameFor(k) /\ work.stage = "delete" /\ queue' = queue
  BY DEF DeleteConfigMap, SameFor
<1>2. /\ work' = Idle \/ work' = [stage |-> "forget", kc |-> work.kc, list |-> gc]
      /\ timers' = timers \/ timers' = timers \cup {work.kc}
      /\ cm' = cm \/ cm' = [cm EXCEPT ![work.pool] = NoCM]
  BY Zenon DEF DeleteConfigMap, Finish
<1>3. ~Arriving(k) /\ ~Writing(k)'
  BY <1>1, <1>2 DEF Arriving, Writing, Idle
<1>4. platform = "HyperShift"
  BY <1>1, KCAssumption DEF OwnerInv, NoNotes, TypeOK
<1>5. ASSUME Reached(k) PROVE Reached(k)'
  <2>1. PICK q \in HandledPools(k) : Holds(k, q)
    BY <1>5 DEF Reached
  <2>2. q \in kc[k].pools /\ kc[k] # NoKC /\ q \in Pools
    BY <2>1 DEF HandledPools, Usable, TypeOK, KCType
  <2>3. q # work.pool
    <3>1. work.pool \in PoolsOfKC(work.kc) /\ kc[work.kc] = NoKC /\ work.kc \in KCs
      BY <1>1, <1>4, WorkFacts DEF OwnerInv, NotesInv, DeleteType
    <3>2. work.kc # k /\ q \in PoolsOfKC(k)
      BY <2>2, <3>1 DEF OwnerInv, OwnPools
    <3> QED
      BY <1>4, <3>1, <3>2 DEF Orderly, TypeOK
  <2>4. cm'[q] = cm[q]
    BY <1>2, <2>2, <2>3 DEF TypeOK
  <2> QED
    BY <1>1, <2>1, <2>4, SameFacts DEF Reached, Holds, SameFor, Render
<1> QED
  BY <1>1, <1>2, <1>3, <1>5 DEF Served

\* Nobody else removes a ConfigMap without its KubeletConfig being told.
LEMMA RemoveServes ==
    ASSUME TypeOK, OwnerInv, Orderly, NEW p \in Pools, GarbageCollect(p) \/ DeleteCM(p),
           NEW k \in KCs, Usable(k), Served(k)
    PROVE  Served(k)'
<1>1. RemoveCM(p)
  BY Zenon DEF GarbageCollect, DeleteCM
<1>2. /\ SameFor(k) /\ work' = work /\ timers' = timers
      /\ cm[p] # NoCM /\ cm' = [cm EXCEPT ![p] = NoCM] /\ queue' = queue \cup Owners(cm[p], NoCM)
  BY <1>1 DEF RemoveCM, SameFor
<1>3. platform = "OpenShift"
  <2>1. CASE platform = "HyperShift"
    <3>1. cm[p].owner = NoOwner /\ "cmdelete" \notin Disturbances[platform]
      BY <1>2, <2>1 DEF OwnerInv, NotesInv, Orderly, TypeOK
    <3> QED
      BY <3>1, Zenon DEF GarbageCollect, DeleteCM, Disturb
  <2> QED
    BY <2>1, KCAssumption DEF TypeOK
<1>4. ASSUME Reached(k), k \notin Owners(cm[p], NoCM) PROVE Reached(k)'
  <2>1. PICK q \in HandledPools(k) : Holds(k, q)
    BY <1>4 DEF Reached
  <2>2. q # p
    BY <1>2, <1>3, <1>4, <2>1, OwnerTold DEF Holds
  <2>3. cm'[q] = cm[q]
    BY <1>2, <2>2 DEF TypeOK, HandledPools, KCType, Usable
  <2> QED
    BY <1>2, <2>1, <2>3, SameFacts DEF Reached, Holds, SameFor, Render
<1> QED
  BY <1>2, <1>4, SameFacts DEF Served

LEMMA RequestInvStep ==
    ASSUME TypeOK, OwnerInv, RequestInv, Orderly, Next
    PROVE  RequestInv'
<1> SUFFICES ASSUME nro'.exists, ~touch', NEW k \in KCs, Usable(k)'
             PROVE  Served(k)'
  BY DEF RequestInv
<1>k. kc'[k] # NoKC
  BY DEF Usable
<1>a. ASSUME SameFor(k), touch' = touch PROVE nro.exists /\ Usable(k) /\ Served(k)
  BY <1>a, SameFacts DEF SameFor, RequestInv
<1>1. ASSUME NEW j \in KCs, Start(j) PROVE Served(k)'
  BY <1>1, <1>a, StartServes DEF Start, SameFor, cluster
<1>2. CASE WriteConfigMap
  BY <1>2, <1>a, WriteServes DEF WriteConfigMap, SameFor
<1>3. CASE DeleteConfigMap
  BY <1>3, <1>a, DeleteServes DEF DeleteConfigMap, SameFor
<1>4. CASE ForgetDeleted
  <2>1. SameFor(k) /\ touch' = touch /\ cm' = cm /\ work.stage = "forget" /\ work' = Idle
        /\ queue' = queue /\ timers' = timers
    BY <1>4 DEF ForgetDeleted, SameFor, cluster, Finish
  <2>2. ~Arriving(k) /\ ~Writing(k)'
    BY <2>1 DEF Arriving, Writing, Idle
  <2> QED
    BY <1>a, <2>1, <2>2, SameFacts DEF Served
<1>5. CASE Crash
  BY <1>5, <1>k DEF Crash, Served, cluster
<1>6. CASE PatchNROStatus
  BY <1>6, <1>k DEF PatchNROStatus, nroPredicate, AllKubeletConfigs, Served, cluster
<1>7. CASE ToggleNRO
  BY <1>7 DEF ToggleNRO
<1>8. ASSUME NEW j \in KCs, TimerFires(j) PROVE Served(k)'
  <2>1. SameFor(k) /\ touch' = touch /\ cm' = cm /\ work' = work
        /\ queue \cup timers \subseteq queue' \cup timers'
    BY <1>8 DEF TimerFires, SameFor, cluster
  <2> QED
    BY <1>a, <2>1, QuietStep
<1>9. ASSUME NEW j \in KCs, DeleteKC(j) PROVE Served(k)'
  <2>1. j # k
    BY <1>9, <1>k DEF DeleteKC, TypeOK
  <2>2. SameFor(k) /\ touch' = touch /\ cm' = cm /\ work' = work /\ timers' = timers
    BY <1>9, <2>1 DEF DeleteKC, SameFor, TypeOK
  <2>3. queue \subseteq queue'
    BY <1>9 DEF DeleteKC
  <2> QED
    BY <1>a, <2>2, <2>3, QuietStep
<1>10. ASSUME NEW j \in KCs, NEW new \in KCChoices[j], SetKC(j, new) PROVE Served(k)'
  <2>1. CASE j = k
    BY <1>10, <2>1 DEF SetKC, Served
  <2>2. CASE j # k
    <3>1. kc'[k] = kc[k]
      BY <1>10, <2>2 DEF SetKC, TypeOK
    <3>2. SameFor(k) /\ touch' = touch /\ cm' = cm /\ work' = work
          /\ queue \cup timers \subseteq queue' \cup timers'
      BY <1>10, <3>1 DEF SetKC, SameFor
    <3> QED
      BY <1>a, <3>2, QuietStep
  <2> QED
    BY <2>1, <2>2
<1>11. ASSUME NEW p \in Pools, GarbageCollect(p) \/ DeleteCM(p) PROVE Served(k)'
  <2>1. SameFor(k) /\ touch' = touch
    BY <1>11 DEF GarbageCollect, DeleteCM, RemoveCM, SameFor
  <2> QED
    BY <1>11, <1>a, <2>1, RemoveServes
<1>12. ASSUME NEW g \in GroupChoices, NEW e \in Excludes, EditNRO(g, e) PROVE Served(k)'
  BY <1>12 DEF EditNRO
<1>13. ASSUME NEW j \in KCs, TimerFires(j) \/ DeleteKC(j) \/ \E new \in KCChoices[j] : SetKC(j, new)
       PROVE  Served(k)'
  BY <1>8, <1>9, <1>10, <1>13
<1> QED
  BY <1>1, <1>2, <1>3, <1>4, <1>5, <1>6, <1>7, <1>11, <1>12, <1>13, Zenon DEF Next, Reconcile

LEMMA ReachInvInit ==
    ASSUME Init
    PROVE  ReachInv
<1>1. TypeInv
  BY TypeInvInit
<1>2. RequestInv
  BY DEF Init, RequestInv
<1>3. OwnPools
  <2>1. kc = InitKC
    BY DEF Init
  <2>2. ASSUME NEW k \in KCs, InitKC[k] # NoKC PROVE InitKC[k].pools \subseteq PoolsOfKC(k)
    BY <2>2, KCAssumption DEF PoolsOfKC, KCType
  <2> QED
    BY <2>1, <2>2 DEF OwnPools
<1>4. NoNotes
  BY DEF Init, NoNotes, Idle
<1>5. NotesInv
  BY DEF Init, NotesInv, Idle
<1> QED
  BY <1>1, <1>2, <1>3, <1>4, <1>5 DEF ReachInv, OwnerInv

LEMMA ReachInvStep ==
    ASSUME Orderly, ReachInv, [Next]_vars
    PROVE  ReachInv'
<1>1. CASE Next
  <2>1. TypeInv' /\ TypeOK /\ HasPool
    BY TypeInvStep DEF ReachInv, TypeInv
  <2>2. budget' \in 0 .. Budget /\ platform' = platform
    BY <1>1, <2>1, BudgetType
  <2>3. OwnPools'
    BY <1>1, <2>1, <2>2, OwnPoolsStep DEF ReachInv, OwnerInv
  <2>4. platform' = "OpenShift" => NoNotes'
    BY <1>1, <2>1, <2>2, NoNotesStep DEF ReachInv, OwnerInv
  <2>5. platform' = "HyperShift" => NotesInv'
    BY <1>1, <2>1, <2>2, NotesStep DEF ReachInv, OwnerInv
  <2>6. RequestInv'
    BY <1>1, <2>1, RequestInvStep DEF ReachInv
  <2> QED
    BY <2>1, <2>3, <2>4, <2>5, <2>6 DEF ReachInv, OwnerInv
<1>2. CASE UNCHANGED vars
  <2>1. platform' = platform /\ kc' = kc /\ nro' = nro /\ cm' = cm /\ gc' = gc /\ queue' = queue
        /\ timers' = timers /\ touch' = touch /\ work' = work
    BY <1>2 DEF vars, cluster
  <2>2. TypeInv'
    BY TypeInvStep DEF ReachInv
  <2>3. OwnerInv'
    BY <2>1 DEF ReachInv, OwnerInv, OwnPools, NoNotes, NotesInv, Gone, PoolsOfKC
  <2>4. ASSUME NEW k \in KCs, Served(k) PROVE Served(k)'
    BY <2>1, <2>4, QuietStep DEF SameFor
  <2>5. ASSUME NEW k \in KCs PROVE Usable(k)' <=> Usable(k)
    BY <2>1, SameFacts DEF SameFor
  <2>6. RequestInv'
    BY <2>1, <2>4, <2>5 DEF ReachInv, RequestInv
  <2> QED
    BY <2>2, <2>3, <2>6 DEF ReachInv
<1> QED
  BY <1>1, <1>2

\* ConfigReachesPool for every set of KubeletConfigs and pools: once the
\* controller has nothing left to do, each KubeletConfig that can be used is in
\* the ConfigMap of a pool it is handled for.  On OpenShift several may compete
\* for one pool; on HyperShift the changes no request follows are left out.
THEOREM ConfigReachesTheorem == ASSUME Orderly PROVE Spec => []ConfigReachesPool
<1>1. Init => ReachInv
  BY ReachInvInit
<1>2. ReachInv /\ [Next]_vars => ReachInv'
  BY ReachInvStep
<1>3. ReachInv => ConfigReachesPool
  <2> SUFFICES ASSUME ReachInv, Asleep, nro.exists, NEW k \in KCs, Usable(k)
               PROVE  \E p \in HandledPools(k) :
                        cm[p] # NoCM /\ cm[p].data = Render(kc[k].payload, nro.excludes)
    BY DEF ConfigReachesPool, Usable
  <2>1. Served(k)
    BY DEF ReachInv, RequestInv, Asleep
  <2>2. Reached(k)
    BY <2>1 DEF Served, Asleep, Arriving, Writing, Idle
  <2> QED
    BY <2>2 DEF Reached, Holds
<1> QED
  BY <1>1, <1>2, <1>3, PTL DEF Spec
=============================================================================
