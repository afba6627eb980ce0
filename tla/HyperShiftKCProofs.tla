------------------------- MODULE HyperShiftKCProofs -------------------------
(***************************************************************************)
(* The KubeletConfig controller on HyperShift, next to the controller of   *)
(* the resource: what its work, its notes of deletions and its requests    *)
(* are in every reachable state.  HyperShiftProofs puts it together with   *)
(* the other controller.                                                   *)
(***************************************************************************)
EXTENDS HyperShift, TLAPS

Entry == [kc: KCs, pool: Pools]

\* The pools a KubeletConfig may ever be for.
PoolsOfKC(k) ==
    {p \in Pools : \/ \E c \in KCChoices[k] : p \in c.pools
                   \/ InitKC[k] # NoKC /\ p \in InitKC[k].pools}

\* A KubeletConfig stays with its pool.  The code does not look after the ConfigMap
\* of a pool that a KubeletConfig has left.
OnePool == \A k \in KCs : \A p, q \in PoolsOfKC(k) : p = q

\* A pool has one KubeletConfig, which is not created again once it is deleted: the
\* ConfigMaps have no owner, so that no request follows if another KubeletConfig, or
\* the deletion of an earlier one, takes them away.
Orderly ==
    /\ "create" \notin Disturbances
    /\ \A j, k \in KCs : j # k => PoolsOfKC(j) \cap PoolsOfKC(k) = {}

-----------------------------------------------------------------------------
(* What the proofs need of the types.                                      *)

\* The KubeletConfigs and the work of their controller.
ShapeInv ==
    /\ platform = "HyperShift" /\ kc \in [KCs -> K!KCType \cup {NoKC}]
    /\ \A k \in KCs : kc[k] # NoKC => kc[k].pools # {} /\ kc[k].pools \subseteq PoolsOfKC(k)
    /\ gc \in Seq(Entry)
    /\ work.stage \in {"write", "delete"} => work.pool \in Pools
    /\ work.stage \in {"write", "delete", "forget"} => work.kc \in KCs
    /\ work.stage = "write" => work.data \in Payloads \X Excludes
    /\ work.stage = "forget" => work.list \in Seq(Entry)

ExcludesOK == excludes \in [api: Excludes, view: Excludes]

ConfigMaps == [Pools -> Datas \cup {NoCM}]

\* Together with what the two controllers share.
SharedInv == ShapeInv /\ ExcludesOK /\ cm \in ConfigMaps /\ budget \in 0 .. Budget

\* A step of the other controller, of the DaemonSet controller, or of nobody.
NRORuns == [Reconcile \/ TimerFires \/ \E p \in Pools : DSRollout(p) \/ DSReady(p)]_vars

Elsewhere == NRORuns /\ UNCHANGED <<excludes, kcState, lost>>

\* Every step is one of the one controller or of the other, or of the users.
LEMMA Steps ==
    ASSUME [HSNext]_hsVars
    PROVE  \/ Elsewhere
           \/ CacheReceives
           \/ Restart
           \/ \E spec \in Specs, e \in Excludes : EditNRO(spec, e)
           \/ \E k \in KCs : KCStep(K!Start(k))
           \/ KCStep(K!WriteConfigMap)
           \/ KCStep(K!DeleteConfigMap)
           \/ KCStep(K!ForgetDeleted)
           \/ \E k \in KCs : KCStep(K!TimerFires(k))
           \/ \E k \in KCs : KCStep(K!DeleteKC(k))
           \/ \E k \in KCs : \E new \in KCChoices[k] : KCStep(K!SetKC(k, new))
<1>1. CASE NROWorker
  BY <1>1, Zenon DEF NROWorker, NROStep, Elsewhere, NRORuns
<1>2. CASE \E p \in Pools : Rollout(p)
  BY <1>2, Zenon DEF Rollout, NROStep, Elsewhere, NRORuns
<1>3. CASE KCWorker
  BY <1>3, Zenon DEF KCWorker, KCStep, K!Reconcile
<1>4. CASE UNCHANGED hsVars
  <2>1. UNCHANGED vars /\ UNCHANGED <<excludes, kcState, lost>>
    BY <1>4 DEF hsVars
  <2> QED
    BY <2>1, Zenon DEF Elsewhere, NRORuns
<1> QED
  BY <1>1, <1>2, <1>3, <1>4, Zenon DEF HSNext, Process

\* The other controller only reads the ConfigMaps.
LEMMA NRORunsFrame ==
    ASSUME NRORuns
    PROVE  cm' = cm /\ view' = view
<1>1. ASSUME Reconcile PROVE cm' = cm /\ view' = view
  BY <1>1, Zenon DEF Reconcile, SkipPaused, StartReconcile, SyncShared, Cleanup, SyncTree,
     ApplyDaemonSets, CheckDaemonSets, DegradeStatus, ReportFailure, UpdateStatus, PatchStatus, objects
<1>2. ASSUME TimerFires \/ \E p \in Pools : DSRollout(p) \/ DSReady(p) PROVE cm' = cm /\ view' = view
  BY <1>2, Zenon DEF TimerFires, DSRollout, DSReady, SetDS, objects
<1>3. ASSUME UNCHANGED vars PROVE cm' = cm /\ view' = view
  BY <1>3 DEF vars, objects
<1> QED
  BY <1>1, <1>2, <1>3, Zenon DEF NRORuns

\* A step takes at most one unit of the budget.
LEMMA KCBudget ==
    ASSUME budget \in 0 .. Budget,
           \/ K!Reconcile \/ \E k \in KCs : K!TimerFires(k) \/ K!DeleteKC(k)
           \/ \E k \in KCs : \E new \in KCChoices[k] : K!SetKC(k, new)
    PROVE  budget' \in 0 .. Budget
<1> DEFINE Spent == budget' = budget \/ (budget > 0 /\ budget' = budget - 1)
<1>1. ASSUME K!Reconcile PROVE Spent
  BY <1>1, Zenon DEF K!Reconcile, K!Start, K!WriteConfigMap, K!DeleteConfigMap, K!ForgetDeleted,
     K!Disturb
<1>2. ASSUME NEW k \in KCs, K!TimerFires(k) \/ K!DeleteKC(k) \/ \E new \in KCChoices[k] : K!SetKC(k, new)
      PROVE  Spent
  BY <1>2, Zenon DEF K!TimerFires, K!DeleteKC, K!SetKC, K!Disturb
<1>3. Spent
  BY <1>1, <1>2, Zenon
<1> QED
  BY <1>3, SpecsAssumption

\* What the KubeletConfig controller writes.
LEMMA ConfigMapsType ==
    ASSUME ShapeInv, cm \in ConfigMaps,
           \/ K!Reconcile \/ \E k \in KCs : K!TimerFires(k) \/ K!DeleteKC(k)
           \/ \E k \in KCs : \E new \in KCChoices[k] : K!SetKC(k, new)
    PROVE  cm' \in ConfigMaps
<1>1. CASE cm' = cm
  BY <1>1
<1>2. CASE K!DeleteConfigMap
  <2>1. cm' = cm \/ cm' = [cm EXCEPT ![work.pool] = NoCM]
    BY <1>2, Zenon DEF K!DeleteConfigMap
  <2> QED
    BY <2>1 DEF ConfigMaps
<1>3. CASE K!WriteConfigMap
  <2> DEFINE new == [data |-> work.data, owner |-> NoOwner]
  <2>1. platform # "OpenShift" /\ new \in Datas
    BY <1>3, HyperShiftAssumption DEF ShapeInv, K!WriteConfigMap
  <2>2. cm' = cm \/ cm' = [cm EXCEPT ![work.pool] = new]
    BY <1>3, <2>1, Zenon DEF K!WriteConfigMap
  <2> HIDE DEF new
  <2> QED
    BY <2>1, <2>2 DEF ConfigMaps
<1>4. ASSUME NEW k \in KCs, K!Start(k) \/ K!TimerFires(k) PROVE cm' = cm
  BY <1>4 DEF K!Start, K!TimerFires, K!cluster
<1>5. ASSUME NEW k \in KCs, K!DeleteKC(k) \/ \E new \in KCChoices[k] : K!SetKC(k, new) PROVE cm' = cm
  BY <1>5 DEF K!DeleteKC, K!SetKC
<1>6. K!ForgetDeleted => cm' = cm
  BY DEF K!ForgetDeleted, K!cluster
<1> QED
  BY <1>1, <1>2, <1>3, <1>4, <1>5, <1>6, Zenon DEF K!Reconcile

-----------------------------------------------------------------------------
(* The list of notes.                                                      *)

\* Every set of numbers that is not empty has a least one.  It takes an induction to
\* prove it: HyperShiftProofs does.
LeastExists == \A S \in SUBSET Nat : S # {} => \E x \in S : \A y \in S : x <= y

LEMMA MinProperty ==
    ASSUME LeastExists, NEW S \in SUBSET Nat, S # {}
    PROVE  K!Min(S) \in S
<1>1. \E x \in S : \A y \in S : x <= y
  BY DEF LeastExists
<1> QED
  BY <1>1, Zenon DEF K!Min

LEMMA Joined ==
    ASSUME NEW E, NEW a \in Seq(E), NEW b \in Seq(E)
    PROVE  /\ a \o b \in Seq(E) /\ Len(a \o b) = Len(a) + Len(b)
           /\ \A i \in 1 .. Len(a) + Len(b) : (a \o b)[i] = IF i <= Len(a) THEN a[i] ELSE b[i - Len(a)]
OBVIOUS

\* The list without the first entry of a KubeletConfig is made of its entries.
LEMMA RemoveFacts ==
    ASSUME LeastExists, NEW list \in Seq(Entry), NEW k
    PROVE  /\ K!removeDeletedOwner(k, list) \in Seq(Entry)
           /\ \A i \in DOMAIN K!removeDeletedOwner(k, list) :
                \E j \in DOMAIN list : K!removeDeletedOwner(k, list)[i] = list[j]
<1> DEFINE hits == {i \in DOMAIN list : list[i].kc = k}
           m == K!Min(hits)
           a == SubSeq(list, 1, m - 1)
           b == SubSeq(list, m + 1, Len(list))
<1>1. CASE hits = {}
  BY <1>1 DEF K!removeDeletedOwner
<1>2. CASE hits # {}
  <2>1. m \in 1 .. Len(list) /\ Len(list) \in Nat
    <3>1. Len(list) \in Nat /\ DOMAIN list = 1 .. Len(list)
      OBVIOUS
    <3>2. hits \in SUBSET Nat
      BY <3>1
    <3>3. m \in hits
      BY <1>2, <3>2, MinProperty
    <3> QED
      BY <3>1, <3>3
  <2>2. K!removeDeletedOwner(k, list) = a \o b
    BY <1>2, Zenon DEF K!removeDeletedOwner
  <2> HIDE DEF m
  <2>3. a \in Seq(Entry) /\ Len(a) = m - 1 /\ \A i \in 1 .. (m - 1) : a[i] = list[i]
    BY <2>1
  <2>4. b \in Seq(Entry) /\ Len(b) = Len(list) - m
        /\ \A i \in 1 .. (Len(list) - m) : b[i] = list[m + i]
    BY <2>1
  <2> HIDE DEF a, b
  <2>a. /\ a \o b \in Seq(Entry) /\ Len(a \o b) = Len(a) + Len(b)
        /\ \A i \in 1 .. Len(a) + Len(b) : (a \o b)[i] = IF i <= Len(a) THEN a[i] ELSE b[i - Len(a)]
    BY <2>3, <2>4, Joined, Zenon
  <2>5. a \o b \in Seq(Entry) /\ Len(a \o b) = Len(list) - 1
    BY <2>1, <2>3, <2>4, <2>a
  <2>6. ASSUME NEW i \in DOMAIN (a \o b) PROVE \E j \in DOMAIN list : (a \o b)[i] = list[j]
    <3>1. i \in 1 .. (Len(list) - 1) /\ DOMAIN list = 1 .. Len(list)
      BY <2>5
    <3>2. CASE i < m
      <4>1. (a \o b)[i] = a[i] /\ a[i] = list[i] /\ i \in 1 .. Len(list)
        BY <2>1, <2>3, <2>4, <2>a, <3>1, <3>2
      <4> QED
        BY <3>1, <4>1
    <3>3. CASE i >= m
      <4> DEFINE n == i - (m - 1)
      <4>1. (a \o b)[i] = b[n]
        BY <2>1, <2>3, <2>4, <2>a, <3>1, <3>3
      <4>2. n \in 1 .. (Len(list) - m) /\ m + n = i + 1 /\ i + 1 \in 1 .. Len(list)
        BY <2>1, <3>1, <3>3
      <4> HIDE DEF n
      <4>3. b[n] = list[i + 1]
        BY <2>4, <4>2
      <4> QED
        BY <3>1, <4>1, <4>2, <4>3
    <3> QED
      BY <2>1, <3>1, <3>2, <3>3
  <2> QED
    BY <2>2, <2>5, <2>6
<1> QED
  BY <1>1, <1>2

LEMMA ForgetFacts ==
    ASSUME LeastExists, ShapeInv, K!ForgetDeleted
    PROVE  gc' \in Seq(Entry) /\ Notes(gc') \subseteq Notes(work.list)
<1>1. work.list \in Seq(Entry) /\ gc' = K!removeDeletedOwner(work.kc, work.list)
  BY DEF ShapeInv, K!ForgetDeleted
<1> QED
  BY <1>1, RemoveFacts DEF Notes

\* A KubeletConfig that is deleted is noted with its pool.
LEMMA NoteFacts ==
    ASSUME ShapeInv, NEW k \in KCs, K!DeleteKC(k)
    PROVE  /\ gc' \in Seq(Entry)
           /\ \E e \in Entry : /\ Notes(gc') = Notes(gc) \cup {e}
                               /\ e.kc = k /\ e.pool \in kc[k].pools
<1> DEFINE e == [kc |-> k, pool |-> CHOOSE p \in kc[k].pools : TRUE]
<1>1. kc[k].pools # {} /\ kc[k].pools \subseteq PoolsOfKC(k) /\ gc' = Append(gc, e)
  BY DEF K!DeleteKC, ShapeInv
<1>2. e.pool \in kc[k].pools
  BY <1>1
<1>3. e \in Entry /\ e.kc = k
  BY <1>1, <1>2 DEF Entry, PoolsOfKC
<1>5. gc \in Seq(Entry) /\ Len(gc) \in Nat /\ DOMAIN gc = 1 .. Len(gc)
  BY DEF ShapeInv
<1> HIDE DEF e
<1>6. gc' \in Seq(Entry) /\ DOMAIN gc' = 1 .. Len(gc) + 1 /\ gc'[Len(gc) + 1] = e
      /\ \A i \in 1 .. Len(gc) : gc'[i] = gc[i]
  BY <1>1, <1>3, <1>5
<1>7. Notes(gc') = Notes(gc) \cup {e}
  <2>1. \A i \in 1 .. Len(gc) + 1 : i \in 1 .. Len(gc) \/ i = Len(gc) + 1
    BY <1>5
  <2>2. 1 .. Len(gc) \subseteq 1 .. Len(gc) + 1 /\ Len(gc) + 1 \in 1 .. Len(gc) + 1
    BY <1>5
  <2>3. Notes(gc') \subseteq Notes(gc) \cup {e}
    BY <1>5, <1>6, <2>1 DEF Notes
  <2>4. Notes(gc) \subseteq Notes(gc') /\ e \in Notes(gc')
    BY <1>5, <1>6, <2>2 DEF Notes
  <2> QED
    BY <2>3, <2>4
<1> QED
  BY <1>2, <1>3, <1>6, <1>7

\* What Start leaves to do: Reconcile follows a note, or writes for a KubeletConfig.
LEMMA StartFacts ==
    ASSUME LeastExists, ShapeInv, NEW k \in KCs, K!Start(k)
    PROVE  \/ work' = K!Idle
           \/ \E e \in Notes(gc) :
                e.kc = k /\ work' = [stage |-> "delete", kc |-> k, pool |-> e.pool]
           \/ /\ kc[k] # NoKC /\ kc[k].payload \notin {"nil", "bad"}
              /\ \E p \in kc[k].pools :
                   work' = [stage |-> "write", kc |-> k, uid |-> kc[k].uid, pool |-> p,
                            data |-> K!Render(kc[k].payload, excludes.view)]
<1> DEFINE deleted == K!getDeletedOwner(k)
<1>1. CASE work' = [stage |-> "delete", kc |-> k, pool |-> gc[K!Min(deleted)].pool] /\ deleted # {}
  <2>1. deleted \in SUBSET Nat
    <3>1. DOMAIN gc = 1 .. Len(gc) /\ Len(gc) \in Nat
      BY DEF ShapeInv
    <3> QED
      BY <3>1 DEF K!getDeletedOwner
  <2>2. K!Min(deleted) \in deleted
    BY <1>1, <2>1, MinProperty
  <2> QED
    BY <1>1, <2>2, Zenon DEF K!getDeletedOwner, Notes
<1>2. CASE ~(work' = [stage |-> "delete", kc |-> k, pool |-> gc[K!Min(deleted)].pool] /\ deleted # {})
  <2>1. K!HandledPools(k) = kc[k].pools
    BY DEF K!HandledPools, ShapeInv
  <2> QED
    BY <1>2, <2>1, Zenon DEF K!Start, K!Finish, K!HandlerFails, K!HandlerIgnores, ShapeInv
<1> QED
  BY <1>1, <1>2

LEMMA IdleStage ==
    ASSUME work' = K!Idle
    PROVE  work'.stage = "idle"
BY DEF K!Idle

\* Where a request goes.
LEMMA StartStages ==
    ASSUME LeastExists, ShapeInv, NEW k \in KCs, K!Start(k)
    PROVE  \/ work' = K!Idle /\ work'.stage = "idle"
           \/ /\ work'.stage = "delete" /\ work'.kc = k
              /\ \E e \in Notes(gc) : e.kc = k /\ work'.pool = e.pool
           \/ /\ work'.stage = "write" /\ work'.kc = k
              /\ kc[k] # NoKC /\ work'.pool \in kc[k].pools
<1>1. ASSUME NEW e \in Notes(gc), e.kc = k, work' = [stage |-> "delete", kc |-> k, pool |-> e.pool]
      PROVE  work'.stage = "delete" /\ work'.kc = k /\ work'.pool = e.pool
  BY <1>1
<1>2. ASSUME NEW p \in kc[k].pools, NEW d,
             work' = [stage |-> "write", kc |-> k, uid |-> kc[k].uid, pool |-> p, data |-> d]
      PROVE  work'.stage = "write" /\ work'.kc = k /\ work'.pool \in kc[k].pools
  BY <1>2
<1> QED
  BY <1>1, <1>2, StartFacts, IdleStage, Zenon
\* A KubeletConfig that is written is one, with a uid of its own.
LEMMA SetFacts ==
    ASSUME ShapeInv, budget \in 0 .. Budget, NEW k \in KCs, NEW new \in KCChoices[k], K!SetKC(k, new)
    PROVE  \E uid \in 0 .. Budget :
             /\ K!Written(new, uid) \in K!KCType /\ K!Written(new, uid) # NoKC
             /\ K!Written(new, uid).pools # {} /\ K!Written(new, uid).pools \subseteq PoolsOfKC(k)
             /\ kc' = [kc EXCEPT ![k] = K!Written(new, uid)]
             /\ \A j \in KCs : kc'[j] = IF j = k THEN K!Written(new, uid) ELSE kc[j]
<1>1. budget' \in 0 .. Budget
  BY KCBudget, Zenon
<1>2. kc[k] # NoKC => kc[k].uid \in 0 .. Budget
  BY DEF ShapeInv, K!KCType
<1>3. PICK uid \in 0 .. Budget : kc' = [kc EXCEPT ![k] = K!Written(new, uid)]
  BY <1>1, <1>2, Zenon DEF K!SetKC
<1>4. new \in K!Content /\ new.pools # {}
  BY HyperShiftAssumption
<1>5. /\ K!Written(new, uid) \in K!KCType /\ K!Written(new, uid).pools # {}
      /\ K!Written(new, uid).pools \subseteq PoolsOfKC(k)
  BY <1>4 DEF K!Written, K!Content, K!KCType, PoolsOfKC
<1>6. K!Written(new, uid) # NoKC
  BY <1>5, HyperShiftAssumption
<1>7. \A j \in KCs : kc'[j] = IF j = k THEN K!Written(new, uid) ELSE kc[j]
  BY <1>3 DEF ShapeInv
<1> QED
  BY <1>3, <1>5, <1>6, <1>7, Zenon

\* The types of the KubeletConfigs and of the work are kept.
LEMMA ShapeStep ==
    ASSUME LeastExists, ShapeInv, ExcludesOK, budget \in 0 .. Budget, [HSNext]_hsVars
    PROVE  ShapeInv'
<1> DEFINE Same == UNCHANGED <<platform, kc, gc, work>>
<1>a. Same => ShapeInv'
  BY DEF ShapeInv, PoolsOfKC, Entry
<1>b. ASSUME UNCHANGED <<platform, kc>>, gc' \in Seq(Entry), work' = K!Idle PROVE ShapeInv'
  <2>1. work'.stage = "idle"
    BY <1>b, IdleStage
  <2> QED
    BY <1>b, <2>1 DEF ShapeInv, PoolsOfKC, Entry
<1>1. CASE Elsewhere \/ CacheReceives \/ \E spec \in Specs, e \in Excludes : EditNRO(spec, e)
  <2>1. Same
    BY <1>1, Zenon DEF Elsewhere, CacheReceives, EditNRO, kcState
  <2> QED
    BY <1>a, <2>1
<1>2. CASE Restart
  <2>1. UNCHANGED <<platform, kc>> /\ gc' = <<>> /\ work' = K!Idle
    BY <1>2 DEF Restart, K!Crash, K!cluster
  <2> QED
    BY <1>b, <2>1
<1>3. ASSUME NEW k \in KCs, KCStep(K!Start(k)) PROVE ShapeInv'
  <2>1. UNCHANGED <<platform, kc, gc>> /\ K!Start(k)
    BY <1>3, Zenon DEF KCStep, K!Start, K!cluster
  <2>2. CASE work' = K!Idle
    BY <1>b, <2>1, <2>2 DEF ShapeInv
  <2>3. ASSUME NEW e \in Notes(gc), e.kc = k, work' = [stage |-> "delete", kc |-> k, pool |-> e.pool]
        PROVE  ShapeInv'
    <3>1. e \in Entry
      BY DEF ShapeInv, Notes
    <3> QED
      BY <2>1, <2>3, <3>1 DEF ShapeInv, PoolsOfKC, Entry
  <2>4. ASSUME kc[k] # NoKC, kc[k].payload \notin {"nil", "bad"}, NEW p \in kc[k].pools,
               work' = [stage |-> "write", kc |-> k, uid |-> kc[k].uid, pool |-> p,
                        data |-> K!Render(kc[k].payload, excludes.view)]
        PROVE  ShapeInv'
    <3>1. kc[k] \in K!KCType /\ excludes.view \in Excludes
      BY <2>4 DEF ShapeInv, ExcludesOK
    <3>2. p \in Pools /\ K!Render(kc[k].payload, excludes.view) \in Payloads \X Excludes
      BY <2>4, <3>1 DEF K!KCType, K!Render
    <3> QED
      BY <2>1, <2>4, <3>2 DEF ShapeInv, PoolsOfKC, Entry
  <2> QED
    BY <2>1, <2>2, <2>3, <2>4, StartFacts
<1>4. CASE KCStep(K!WriteConfigMap)
  <2>1. UNCHANGED <<platform, kc, gc>> /\ work' = K!Idle
    BY <1>4 DEF KCStep, K!WriteConfigMap, K!Finish
  <2> QED
    BY <1>b, <2>1 DEF ShapeInv
<1>5. CASE KCStep(K!DeleteConfigMap)
  <2>1. UNCHANGED <<platform, kc, gc>> /\ work.stage = "delete"
    BY <1>5 DEF KCStep, K!DeleteConfigMap
  <2>2. work' = K!Idle \/ work' = [stage |-> "forget", kc |-> work.kc, list |-> gc]
    BY <1>5, Zenon DEF KCStep, K!DeleteConfigMap, K!Finish
  <2>3. ASSUME work' = [stage |-> "forget", kc |-> work.kc, list |-> gc] PROVE ShapeInv'
    BY <2>1, <2>3 DEF ShapeInv, PoolsOfKC, Entry
  <2> QED
    BY <1>b, <2>1, <2>2, <2>3 DEF ShapeInv
<1>6. CASE KCStep(K!ForgetDeleted)
  <2>1. UNCHANGED <<platform, kc>> /\ work' = K!Idle /\ K!ForgetDeleted
    BY <1>6 DEF KCStep, K!ForgetDeleted, K!Finish, K!cluster
  <2> QED
    BY <1>b, <2>1, ForgetFacts
<1>7. ASSUME NEW k \in KCs, KCStep(K!TimerFires(k)) PROVE ShapeInv'
  BY <1>7, <1>a DEF KCStep, K!TimerFires, K!cluster
<1>8. ASSUME NEW k \in KCs, KCStep(K!DeleteKC(k)) PROVE ShapeInv'
  <2>1. platform' = platform /\ work' = work /\ kc' = [kc EXCEPT ![k] = NoKC] /\ K!DeleteKC(k)
    BY <1>8 DEF KCStep, K!DeleteKC
  <2>2. gc' \in Seq(Entry)
    BY <2>1, NoteFacts
  <2>3. /\ kc' \in [KCs -> K!KCType \cup {NoKC}]
        /\ \A j \in KCs : kc'[j] # NoKC => kc'[j] = kc[j]
    BY <2>1 DEF ShapeInv
  <2> QED
    BY <2>1, <2>2, <2>3, Zenon DEF ShapeInv, PoolsOfKC, Entry
<1>9. ASSUME NEW k \in KCs, NEW new \in KCChoices[k], KCStep(K!SetKC(k, new)) PROVE ShapeInv'
  <2>1. platform' = platform /\ work' = work /\ gc' = gc /\ K!SetKC(k, new)
    BY <1>9, Zenon DEF KCStep, K!SetKC
  <2>2. PICK w \in K!KCType : /\ w.pools # {} /\ w.pools \subseteq PoolsOfKC(k)
                             /\ kc' = [kc EXCEPT ![k] = w]
                             /\ \A j \in KCs : kc'[j] = IF j = k THEN w ELSE kc[j]
    BY <2>1, SetFacts, Zenon
  <2>3. kc' \in [KCs -> K!KCType \cup {NoKC}]
    BY <2>2 DEF ShapeInv
  <2>4. \A j \in KCs : kc'[j] # NoKC => kc'[j].pools # {} /\ kc'[j].pools \subseteq PoolsOfKC(j)
    BY <2>2 DEF ShapeInv
  <2> QED
    BY <2>1, <2>3, <2>4, Zenon DEF ShapeInv, PoolsOfKC, Entry
<1> QED
  BY <1>1, <1>2, <1>3, <1>4, <1>5, <1>6, <1>7, <1>8, <1>9, Steps, Zenon

\* The KubeletConfig a ConfigMap is made of at the start.
LEMMA InitConfig ==
    ASSUME NEW p \in Pools, InitConfigs(p) # {}
    PROVE  /\ \E k \in KCs : InitKC[k] # NoKC /\ p \in InitKC[k].pools
           /\ (CHOOSE c \in InitConfigs(p) : TRUE).payload \in Payloads
<1>1. PICK c : c \in InitConfigs(p) /\ c = CHOOSE d \in InitConfigs(p) : TRUE
  OBVIOUS
<1>2. PICK k \in KCs : c = InitKC[k] /\ c # NoKC /\ p \in c.pools /\ c.payload \notin {"nil", "bad"}
  BY <1>1 DEF InitConfigs
<1>3. c \in K!KCType
  BY <1>2, HyperShiftAssumption
<1>4. c.payload \in Payloads
  BY <1>2, <1>3 DEF K!KCType
<1> QED
  BY <1>1, <1>2, <1>4, Zenon

LEMMA InitShape ==
    ASSUME HSInit
    PROVE  ShapeInv /\ ExcludesOK
<1>1. /\ platform = "HyperShift" /\ kc = InitKC /\ gc = <<>> /\ work = K!Idle
      /\ excludes = [api |-> InitExcludes, view |-> InitExcludes]
  BY HyperShiftAssumption DEF HSInit
<1>2. work.stage = "idle" /\ gc \in Seq(Entry)
  BY <1>1 DEF K!Idle
<1>3. \A k \in KCs : InitKC[k] # NoKC => /\ InitKC[k].pools # {} /\ InitKC[k].pools \subseteq PoolsOfKC(k)
  BY HyperShiftAssumption DEF PoolsOfKC, K!KCType
<1> QED
  BY <1>1, <1>2, <1>3, HyperShiftAssumption DEF ShapeInv, ExcludesOK

LEMMA ExcludesStep ==
    ASSUME ExcludesOK, [HSNext]_hsVars
    PROVE  ExcludesOK'
<1>1. CASE excludes' = excludes
  BY <1>1 DEF ExcludesOK
<1>2. CASE CacheReceives \/ Restart
  BY <1>2 DEF CacheReceives, Restart, ExcludesOK
<1>3. ASSUME NEW spec \in Specs, NEW e \in Excludes, EditNRO(spec, e) PROVE ExcludesOK'
  BY <1>3 DEF EditNRO, ExcludesOK
<1> QED
  BY <1>1, <1>2, <1>3, Steps, Zenon DEF Elsewhere, KCStep

-----------------------------------------------------------------------------
(* No ConfigMap is forgotten.                                              *)

Alive(p) == \E k \in KCs : kc[k] # NoKC /\ p \in kc[k].pools
Noted(p) == \E e \in Notes(gc) : e.pool = p
Aimed(p) == work.stage = "write" /\ work.pool = p

\* Every ConfigMap, there or about to be written, has a KubeletConfig or a note, of
\* the pool of the KubeletConfig; and the ConfigMap is gone before the note is.
FollowInv ==
    /\ \A p \in Pools \ lost : cm[p] # NoCM \/ Aimed(p) => Alive(p) \/ Noted(p)
    /\ \A e \in Notes(gc) : e.pool \in PoolsOfKC(e.kc)
    /\ work.stage = "delete" => work.pool \in PoolsOfKC(work.kc)
    /\ work.stage = "forget" =>
         /\ \A p \in PoolsOfKC(work.kc) : cm[p] = NoCM
         /\ \A e \in Notes(work.list) : e.pool \in PoolsOfKC(e.kc)

\* Steps that touch neither the KubeletConfigs, the ConfigMaps nor the list.
LEMMA FollowKept ==
    ASSUME FollowInv, UNCHANGED <<kc, cm, gc, work>>, lost \subseteq lost'
    PROVE  FollowInv'
<1>1. kc' = kc /\ cm' = cm /\ gc' = gc /\ work' = work
  OBVIOUS
<1>2. \A p \in Pools : (Aimed(p)' <=> Aimed(p)) /\ (Alive(p)' <=> Alive(p)) /\ (Noted(p)' <=> Noted(p))
  BY <1>1 DEF Alive, Noted, Aimed, Notes, PoolsOfKC
<1>3. \A p \in Pools \ lost' : cm'[p] # NoCM \/ Aimed(p)' => Alive(p)' \/ Noted(p)'
  BY <1>1, <1>2 DEF FollowInv
<1>4. \A e \in Notes(gc)' : e.pool \in PoolsOfKC(e.kc)'
  BY <1>1 DEF FollowInv, Notes, PoolsOfKC
<1>5. work'.stage = "delete" => work'.pool \in PoolsOfKC(work.kc)'
  BY <1>1, Zenon DEF FollowInv, PoolsOfKC
<1>6. work'.stage = "forget" =>
        /\ \A p \in PoolsOfKC(work.kc)' : cm'[p] = NoCM
        /\ \A e \in Notes(work.list)' : e.pool \in PoolsOfKC(e.kc)'
  BY <1>1, Zenon DEF FollowInv, Notes, PoolsOfKC
<1> QED
  BY <1>3, <1>4, <1>5, <1>6 DEF FollowInv

LEMMA NoNotes == Notes(<<>>) = {}
<1>1. <<>> \in Seq({}) /\ Len(<<>>) = 0
  OBVIOUS
<1>2. DOMAIN <<>> = {}
  BY <1>1
<1> QED
  BY <1>2, Zenon DEF Notes

\* A restart forgets the notes.
LEMMA RestartFollows ==
    ASSUME FollowInv, Restart
    PROVE  FollowInv'
<1>1. /\ kc' = kc /\ cm' = cm /\ gc' = <<>> /\ work' = K!Idle
      /\ lost' = lost \cup {e.pool : e \in Notes(gc)}
  BY DEF Restart, K!Crash, K!cluster
<1>2. work'.stage = "idle" /\ Notes(gc') = {}
  BY <1>1, NoNotes, IdleStage, Zenon
<1>3. ASSUME NEW p \in Pools, p \notin lost', cm'[p] # NoCM PROVE Alive(p)'
  <2>1. p \notin lost /\ ~Noted(p)
    BY <1>1, <1>3 DEF Noted
  <2> QED
    BY <1>1, <1>3, <2>1 DEF FollowInv, Alive
<1> QED
  BY <1>2, <1>3 DEF FollowInv, Aimed

LEMMA StartFollows ==
    ASSUME LeastExists, ShapeInv, FollowInv, NEW k \in KCs, KCStep(K!Start(k))
    PROVE  FollowInv'
<1>1. kc' = kc /\ cm' = cm /\ gc' = gc /\ lost \subseteq lost' /\ K!Start(k)
  BY Zenon DEF KCStep, K!Start, K!cluster
<1>2. \/ work'.stage = "idle"
      \/ /\ work'.stage = "delete" /\ work'.kc = k
         /\ \E e \in Notes(gc) : e.kc = k /\ work'.pool = e.pool
      \/ /\ work'.stage = "write" /\ work'.kc = k
         /\ kc[k] # NoKC /\ work'.pool \in kc[k].pools
  BY <1>1, StartStages, Zenon
<1>3. ASSUME NEW p \in Pools, p \notin lost', cm'[p] # NoCM \/ Aimed(p)' PROVE Alive(p)' \/ Noted(p)'
  <2>1. CASE cm'[p] # NoCM
    <3>1. Alive(p) \/ Noted(p)
      BY <1>1, <1>3, <2>1 DEF FollowInv
    <3> QED
      BY <1>1, <3>1 DEF Alive, Noted, Notes
  <2>2. CASE Aimed(p)'
    BY <1>1, <1>2, <2>2, Zenon DEF Aimed, Alive
  <2> QED
    BY <1>3, <2>1, <2>2
<1>4. /\ \A e \in Notes(gc') : e.pool \in PoolsOfKC(e.kc)
      /\ work'.stage = "delete" => work'.pool \in PoolsOfKC(work'.kc)
      /\ work'.stage # "forget"
  BY <1>1, <1>2, Zenon DEF FollowInv
<1> QED
  BY <1>3, <1>4, Zenon DEF FollowInv, PoolsOfKC

LEMMA WriteFollows ==
    ASSUME cm \in ConfigMaps, FollowInv, KCStep(K!WriteConfigMap)
    PROVE  FollowInv'
<1>1. /\ kc' = kc /\ gc' = gc /\ work' = K!Idle /\ lost \subseteq lost' /\ work.stage = "write"
  BY Zenon DEF KCStep, K!WriteConfigMap, K!Finish
<1>2. cm' = cm \/ \E new : cm' = [cm EXCEPT ![work.pool] = new]
  BY Zenon DEF KCStep, K!WriteConfigMap
<1>3. work'.stage = "idle"
  BY <1>1, IdleStage
<1>4. \A p \in Pools : cm'[p] = cm[p] \/ Aimed(p)
  BY <1>1, <1>2 DEF ConfigMaps, Aimed
<1>5. ASSUME NEW p \in Pools, p \notin lost', cm'[p] # NoCM PROVE Alive(p)' \/ Noted(p)'
  <2>1. p \notin lost /\ (cm[p] # NoCM \/ Aimed(p))
    BY <1>1, <1>4, <1>5
  <2> QED
    BY <1>1, <2>1, Zenon DEF FollowInv, Alive, Noted, Notes
<1>6. \A p \in Pools \ lost' : cm'[p] # NoCM \/ Aimed(p)' => Alive(p)' \/ Noted(p)'
  BY <1>3, <1>5 DEF Aimed
<1>7. \A e \in Notes(gc)' : e.pool \in PoolsOfKC(e.kc)
  BY <1>1 DEF FollowInv, Notes
<1>8. work'.stage \notin {"delete", "forget"}
  BY <1>3
<1> QED
  BY <1>6, <1>7, <1>8, Zenon DEF FollowInv, Notes, PoolsOfKC

LEMMA DeleteFollows ==
    ASSUME ShapeInv, cm \in ConfigMaps, FollowInv, OnePool, KCStep(K!DeleteConfigMap)
    PROVE  FollowInv'
<1>1. kc' = kc /\ gc' = gc /\ lost \subseteq lost' /\ work.stage = "delete"
  BY Zenon DEF KCStep, K!DeleteConfigMap
<1>2. \/ cm' = cm /\ work' = K!Idle
      \/ /\ cm' = [cm EXCEPT ![work.pool] = NoCM]
         /\ work' = [stage |-> "forget", kc |-> work.kc, list |-> gc]
  BY Zenon DEF KCStep, K!DeleteConfigMap, K!Finish
<1>3. \/ cm' = cm /\ work'.stage = "idle"
      \/ /\ cm' = [cm EXCEPT ![work.pool] = NoCM]
         /\ work'.stage = "forget" /\ work'.kc = work.kc /\ work'.list = gc
  BY <1>2, IdleStage
<1>4. work.kc \in KCs /\ work.pool \in PoolsOfKC(work.kc) /\ work.pool \in Pools
  BY <1>1, Zenon DEF ShapeInv, FollowInv
<1>5. \A p \in Pools : cm'[p] = cm[p] \/ cm'[p] = NoCM
  BY <1>3 DEF ConfigMaps
<1>6. ASSUME NEW p \in Pools, p \notin lost', cm'[p] # NoCM PROVE Alive(p)' \/ Noted(p)'
  <2>1. p \notin lost /\ cm[p] # NoCM
    BY <1>1, <1>5, <1>6
  <2> QED
    BY <1>1, <2>1, Zenon DEF FollowInv, Alive, Noted, Notes
<1>7. work'.stage = "forget" => \A p \in PoolsOfKC(work'.kc) : cm'[p] = NoCM
  <2> SUFFICES ASSUME work'.stage = "forget", NEW p \in PoolsOfKC(work'.kc) PROVE cm'[p] = NoCM
    OBVIOUS
  <2>1. p = work.pool /\ cm' = [cm EXCEPT ![work.pool] = NoCM]
    BY <1>3, <1>4 DEF OnePool
  <2> QED
    BY <1>4, <2>1 DEF ConfigMaps
<1>8. \A p \in Pools \ lost' : cm'[p] # NoCM \/ Aimed(p)' => Alive(p)' \/ Noted(p)'
  BY <1>3, <1>6 DEF Aimed
<1>9. \A e \in Notes(gc)' : e.pool \in PoolsOfKC(e.kc)
  BY <1>1 DEF FollowInv, Notes
<1>10. work'.stage # "delete"
  BY <1>3
<1>11. work'.stage = "forget" => \A e \in Notes(work'.list) : e.pool \in PoolsOfKC(e.kc)
  BY <1>3 DEF FollowInv
<1> QED
  BY <1>7, <1>8, <1>9, <1>10, <1>11, Zenon DEF FollowInv, Notes, PoolsOfKC

\* The note that is taken off the list is of a ConfigMap that is gone; the others
\* that are not there any more were appended in between, and their pools are lost.
LEMMA ForgetFollows ==
    ASSUME LeastExists, ShapeInv, FollowInv, KCStep(K!ForgetDeleted)
    PROVE  FollowInv'
<1>1. /\ kc' = kc /\ cm' = cm /\ work' = K!Idle /\ work.stage = "forget"
      /\ lost' = lost \cup {e.pool : e \in {n \in Notes(gc) \ Notes(gc') : n.kc # work.kc}}
  BY Zenon DEF KCStep, K!ForgetDeleted, K!Finish, K!cluster
<1>2. work'.stage = "idle"
  BY <1>1, IdleStage, Zenon
<1>3. Notes(gc') \subseteq Notes(work.list)
  BY ForgetFacts, Zenon DEF KCStep
<1>4. ASSUME NEW p \in Pools, p \notin lost', cm'[p] # NoCM PROVE Alive(p)' \/ Noted(p)'
  <2>1. p \notin lost /\ cm[p] # NoCM
    BY <1>1, <1>4
  <2>2. CASE Alive(p)
    BY <1>1, <2>2 DEF Alive
  <2>3. CASE Noted(p)
    <3>1. PICK e \in Notes(gc) : e.pool = p
      BY <2>3 DEF Noted
    <3>2. e.kc # work.kc
      BY <1>1, <2>1, <3>1 DEF FollowInv
    <3>3. e \in Notes(gc')
      BY <1>1, <1>4, <3>1, <3>2
    <3> QED
      BY <3>1, <3>3 DEF Noted, Notes
  <2> QED
    BY <2>1, <2>2, <2>3, Zenon DEF FollowInv
<1>5. \A e \in Notes(gc') : e.pool \in PoolsOfKC(e.kc)
  BY <1>1, <1>3 DEF FollowInv
<1> QED
  BY <1>2, <1>4, <1>5, Zenon DEF FollowInv, Aimed, Notes, PoolsOfKC

\* The deletion of a KubeletConfig leaves a note of its pool.
LEMMA DeleteKCFollows ==
    ASSUME ShapeInv, FollowInv, OnePool, NEW k \in KCs, KCStep(K!DeleteKC(k))
    PROVE  FollowInv'
<1>1. /\ cm' = cm /\ work' = work /\ lost \subseteq lost'
      /\ kc' = [kc EXCEPT ![k] = NoKC] /\ kc[k] # NoKC
  BY Zenon DEF KCStep, K!DeleteKC
<1>a. K!DeleteKC(k)
  BY Zenon DEF KCStep
<1>2. PICK e \in Entry : /\ Notes(gc') = Notes(gc) \cup {e}
                         /\ e.kc = k /\ e.pool \in kc[k].pools
  BY <1>a, NoteFacts, Zenon
<1>b. kc[k].pools \subseteq PoolsOfKC(k)
  BY <1>1, Zenon DEF ShapeInv
<1>3. e.pool \in PoolsOfKC(k) /\ kc[k].pools = {e.pool}
  <2>1. e.pool \in PoolsOfKC(k)
    BY <1>2, <1>b, Zenon
  <2>2. \A p \in kc[k].pools : p = e.pool
    BY <1>b, <2>1, Zenon DEF OnePool
  <2> QED
    BY <1>2, <2>1, <2>2, Zenon
<1>4. \A j \in KCs : kc'[j] = IF j = k THEN NoKC ELSE kc[j]
  BY <1>1, Zenon DEF ShapeInv
<1>5. ASSUME NEW p \in Pools, p \notin lost', cm'[p] # NoCM \/ Aimed(p)' PROVE Alive(p)' \/ Noted(p)'
  <2>1. p \notin lost /\ (cm[p] # NoCM \/ Aimed(p))
    BY <1>1, <1>5, Zenon DEF Aimed
  <2>2. CASE Noted(p)
    BY <1>2, <2>2 DEF Noted, Notes
  <2>3. CASE Alive(p)
    <3>1. PICK j \in KCs : kc[j] # NoKC /\ p \in kc[j].pools
      BY <2>3 DEF Alive
    <3>2. CASE j = k
      BY <1>2, <1>3, <3>1, <3>2 DEF Noted, Notes
    <3>3. CASE j # k
      BY <1>4, <3>1, <3>3 DEF Alive
    <3> QED
      BY <3>2, <3>3
  <2> QED
    BY <2>1, <2>2, <2>3, Zenon DEF FollowInv
<1>6. \A n \in Notes(gc') : n.pool \in PoolsOfKC(n.kc)
  BY <1>2, <1>3, Zenon DEF FollowInv
<1> QED
  BY <1>1, <1>5, <1>6, Zenon DEF FollowInv, Notes, PoolsOfKC

\* A KubeletConfig is written without leaving its pool.
LEMMA SetKCFollows ==
    ASSUME ShapeInv, ShapeInv', budget \in 0 .. Budget, FollowInv, OnePool,
           NEW k \in KCs, NEW new \in KCChoices[k], KCStep(K!SetKC(k, new))
    PROVE  FollowInv'
<1>1. cm' = cm /\ work' = work /\ gc' = gc /\ lost \subseteq lost'
  BY Zenon DEF KCStep, K!SetKC
<1>2. /\ kc'[k] # NoKC
      /\ \A j \in KCs : j # k => kc'[j] = kc[j]
  BY SetFacts, Zenon DEF KCStep
<1>3. kc'[k].pools # {} /\ kc'[k].pools \subseteq PoolsOfKC(k)
  BY <1>2, Zenon DEF ShapeInv, PoolsOfKC
<1>4. ASSUME NEW p \in Pools, p \notin lost', cm'[p] # NoCM \/ Aimed(p)' PROVE Alive(p)' \/ Noted(p)'
  <2>1. p \notin lost /\ (cm[p] # NoCM \/ Aimed(p))
    BY <1>1, <1>4 DEF Aimed
  <2>2. CASE Noted(p)
    BY <1>1, <2>2 DEF Noted, Notes
  <2>3. CASE Alive(p)
    <3>1. PICK j \in KCs : kc[j] # NoKC /\ p \in kc[j].pools
      BY <2>3 DEF Alive
    <3>2. CASE j = k
      <4>1. p \in PoolsOfKC(k)
        BY <3>1, <3>2 DEF ShapeInv
      <4>2. PICK q \in kc'[k].pools : q \in PoolsOfKC(k)
        BY <1>3
      <4>3. p = q
        BY <4>1, <4>2 DEF OnePool
      <4> QED
        BY <1>2, <4>2, <4>3 DEF Alive
    <3>3. CASE j # k
      BY <1>2, <3>1, <3>3 DEF Alive
    <3> QED
      BY <3>2, <3>3
  <2> QED
    BY <2>1, <2>2, <2>3, Zenon DEF FollowInv
<1> QED
  BY <1>1, <1>4, Zenon DEF FollowInv, Notes, PoolsOfKC

LEMMA FollowInit ==
    ASSUME HSInit
    PROVE  FollowInv
<1>1. kc = InitKC /\ gc = <<>> /\ work = K!Idle
  BY DEF HSInit
<1>2. \A p \in Pools : cm[p] # NoCM => InitConfigs(p) # {}
  BY DEF HSInit
<1>3. \A p \in Pools : cm[p] # NoCM => Alive(p)
  BY <1>1, <1>2, InitConfig DEF Alive
<1>4. work.stage = "idle" /\ Notes(gc) = {}
  BY <1>1 DEF K!Idle, Notes
<1> QED
  BY <1>3, <1>4 DEF FollowInv, Aimed

LEMMA FollowStep ==
    ASSUME LeastExists, OnePool, SharedInv, FollowInv, [HSNext]_hsVars
    PROVE  FollowInv'
<1>0. ShapeInv /\ budget \in 0 .. Budget /\ cm \in ConfigMaps /\ ShapeInv'
  BY ShapeStep DEF SharedInv
<1>1. CASE Elsewhere
  <2>1. UNCHANGED <<kc, gc, work, lost>> /\ cm' = cm
    BY <1>1, NRORunsFrame DEF Elsewhere, kcState
  <2> QED
    BY <2>1, FollowKept
<1>2. CASE CacheReceives \/ \E spec \in Specs, e \in Excludes : EditNRO(spec, e)
  <2>1. UNCHANGED <<kc, gc, work, lost>> /\ cm' = cm
    BY <1>2, Zenon DEF CacheReceives, WatchDeliver, EditNRO, kcState, objects
  <2> QED
    BY <2>1, FollowKept
<1>3. ASSUME NEW k \in KCs, KCStep(K!TimerFires(k)) PROVE FollowInv'
  <2>1. UNCHANGED <<kc, cm, gc, work>> /\ lost \subseteq lost'
    BY <1>3 DEF KCStep, K!TimerFires, K!cluster
  <2> QED
    BY <2>1, FollowKept
<1> QED
  BY <1>0, <1>1, <1>2, <1>3, Steps, RestartFollows, StartFollows, WriteFollows, DeleteFollows,
     ForgetFollows, DeleteKCFollows, SetKCFollows, Zenon

-----------------------------------------------------------------------------
(* KubeletConfigs that are deleted stay deleted.                           *)

LEMMA NotesType ==
    ASSUME NEW list \in Seq(Entry)
    PROVE  \A e \in Notes(list) : e \in Entry /\ e.kc \in KCs
<1>1. \A e \in Notes(list) : e \in Entry
  BY DEF Notes
<1> QED
  BY <1>1 DEF Entry

\* Everything noted, or worked on as deleted, is; a write is for a pool of its
\* KubeletConfig.
GoneInv ==
    /\ \A e \in Notes(gc) : kc[e.kc] = NoKC
    /\ work.stage = "write" => work.pool \in PoolsOfKC(work.kc)
    /\ work.stage = "delete" => kc[work.kc] = NoKC
    /\ work.stage = "forget" => \A e \in Notes(work.list) : kc[e.kc] = NoKC

LEMMA StaysGone ==
    ASSUME ShapeInv, Orderly, [HSNext]_hsVars, NEW j \in KCs, kc[j] = NoKC
    PROVE  kc'[j] = NoKC
<1>1. CASE kc' = kc
  BY <1>1
<1>2. ASSUME NEW k \in KCs, KCStep(K!DeleteKC(k)) PROVE kc'[j] = NoKC
  BY <1>2, Zenon DEF KCStep, K!DeleteKC, ShapeInv
<1>3. ASSUME NEW k \in KCs, NEW new \in KCChoices[k], KCStep(K!SetKC(k, new)) PROVE kc'[j] = NoKC
  <2>1. ~K!Disturb("create")
    BY HyperShiftAssumption, Zenon DEF Orderly, ShapeInv, K!Disturb
  <2>2. kc[k] # NoKC /\ kc' = [kc EXCEPT ![k] = K!Written(new, kc[k].uid)]
    BY <1>3, <2>1, Zenon DEF KCStep, K!SetKC
  <2> QED
    BY <2>2, Zenon DEF ShapeInv
<1>4. Elsewhere \/ CacheReceives \/ Restart \/ (\E spec \in Specs, e \in Excludes : EditNRO(spec, e)) => kc' = kc
  BY Zenon DEF Elsewhere, CacheReceives, Restart, EditNRO, K!Crash, K!cluster, kcState
<1>5. ASSUME NEW k \in KCs, KCStep(K!Start(k)) \/ KCStep(K!TimerFires(k)) PROVE kc' = kc
  BY <1>5, Zenon DEF KCStep, K!Start, K!TimerFires, K!cluster
<1>6. KCStep(K!WriteConfigMap) \/ KCStep(K!DeleteConfigMap) \/ KCStep(K!ForgetDeleted) => kc' = kc
  BY Zenon DEF KCStep, K!WriteConfigMap, K!DeleteConfigMap, K!ForgetDeleted, K!cluster
<1> QED
  BY <1>1, <1>2, <1>3, <1>4, <1>5, <1>6, Steps, Zenon

LEMMA GoneInit ==
    ASSUME HSInit
    PROVE  GoneInv
BY DEF HSInit, GoneInv, Notes, K!Idle

LEMMA GoneStep ==
    ASSUME LeastExists, Orderly, SharedInv, GoneInv, [HSNext]_hsVars
    PROVE  GoneInv'
<1>0. ShapeInv
  BY DEF SharedInv
<1>1. ASSUME NEW list \in Seq(Entry), \A e \in Notes(list) : kc[e.kc] = NoKC
      PROVE  \A e \in Notes(list) : kc'[e.kc] = NoKC
  BY <1>0, <1>1, StaysGone, NotesType
<1>2. \A e \in Notes(gc) : kc'[e.kc] = NoKC
  BY <1>0, <1>1, Zenon DEF ShapeInv, GoneInv
<1>3. work.stage = "forget" => \A e \in Notes(work.list) : kc'[e.kc] = NoKC
  BY <1>0, <1>1, Zenon DEF ShapeInv, GoneInv
<1>4. work.stage = "delete" => kc'[work.kc] = NoKC
  BY <1>0, StaysGone, Zenon DEF ShapeInv, GoneInv
<1>a. ASSUME UNCHANGED <<gc, work>> PROVE GoneInv'
  BY <1>2, <1>3, <1>4, <1>a, Zenon DEF GoneInv, Notes, PoolsOfKC
<1>b. ASSUME \A e \in Notes(gc') : kc'[e.kc] = NoKC, work' = K!Idle PROVE GoneInv'
  <2>1. work'.stage = "idle"
    BY <1>b, IdleStage
  <2> QED
    BY <1>b, <2>1, Zenon DEF GoneInv, Notes
<1>5. CASE \/ Elsewhere \/ CacheReceives \/ \E spec \in Specs, e \in Excludes : EditNRO(spec, e)
           \/ \E k \in KCs : KCStep(K!TimerFires(k)) \/ \E new \in KCChoices[k] : KCStep(K!SetKC(k, new))
  <2>1. UNCHANGED <<gc, work>>
    BY <1>5, Zenon DEF Elsewhere, CacheReceives, EditNRO, KCStep, K!TimerFires, K!SetKC, kcState
  <2> QED
    BY <1>a, <2>1
<1>6. CASE Restart
  <2>1. gc' = <<>> /\ work' = K!Idle
    BY <1>6 DEF Restart, K!Crash
  <2> QED
    BY <1>b, <2>1 DEF Notes
<1>7. ASSUME NEW k \in KCs, KCStep(K!Start(k)) PROVE GoneInv'
  <2>1. gc' = gc /\ kc' = kc /\ K!Start(k)
    BY <1>7, Zenon DEF KCStep, K!Start, K!cluster
  <2>2. \/ work' = K!Idle
        \/ work'.stage = "delete" /\ work'.kc = k /\ \E e \in Notes(gc) : e.kc = k
        \/ work'.stage = "write" /\ work'.kc = k /\ kc[k] # NoKC /\ work'.pool \in kc[k].pools
    BY <1>0, <2>1, StartStages, Zenon
  <2>3. CASE work' = K!Idle
    BY <1>2, <1>b, <2>1, <2>3, Zenon
  <2>4. CASE work'.stage = "delete" /\ work'.kc = k /\ \E e \in Notes(gc) : e.kc = k
    BY <1>2, <2>1, <2>4, Zenon DEF GoneInv, Notes
  <2>5. CASE work'.stage = "write" /\ work'.kc = k /\ kc[k] # NoKC /\ work'.pool \in kc[k].pools
    <3>1. work'.pool \in PoolsOfKC(k)
      BY <1>0, <2>5, Zenon DEF ShapeInv
    <3> QED
      BY <1>2, <2>1, <2>5, <3>1, Zenon DEF GoneInv, Notes, PoolsOfKC
  <2> QED
    BY <2>2, <2>3, <2>4, <2>5, Zenon
<1>8. CASE KCStep(K!WriteConfigMap)
  BY <1>2, <1>8, <1>b, Zenon DEF KCStep, K!WriteConfigMap, K!Finish
<1>9. CASE KCStep(K!DeleteConfigMap)
  <2>1. gc' = gc
    BY <1>9, Zenon DEF KCStep, K!DeleteConfigMap
  <2>2. work' = K!Idle \/ work' = [stage |-> "forget", kc |-> work.kc, list |-> gc]
    BY <1>9, Zenon DEF KCStep, K!DeleteConfigMap, K!Finish
  <2>3. ASSUME work' = [stage |-> "forget", kc |-> work.kc, list |-> gc] PROVE GoneInv'
    BY <1>2, <2>1, <2>3, Zenon DEF GoneInv, Notes
  <2> QED
    BY <1>2, <1>b, <2>1, <2>2, <2>3
<1>10. CASE KCStep(K!ForgetDeleted)
  <2>1. work' = K!Idle /\ work.stage = "forget" /\ Notes(gc') \subseteq Notes(work.list)
    BY <1>0, <1>10, ForgetFacts, Zenon DEF KCStep, K!ForgetDeleted, K!Finish
  <2> QED
    BY <1>3, <1>b, <2>1
<1>11. ASSUME NEW k \in KCs, KCStep(K!DeleteKC(k)) PROVE GoneInv'
  <2>1. work' = work /\ kc'[k] = NoKC
    BY <1>0, <1>11, Zenon DEF KCStep, K!DeleteKC, ShapeInv
  <2>2. PICK n \in Entry : Notes(gc') = Notes(gc) \cup {n} /\ n.kc = k
    BY <1>0, <1>11, NoteFacts, Zenon DEF KCStep
  <2>3. \A e \in Notes(gc') : kc'[e.kc] = NoKC
    BY <1>2, <2>1, <2>2
  <2> QED
    BY <1>3, <1>4, <2>1, <2>3, Zenon DEF GoneInv, Notes, PoolsOfKC
<1> QED
  BY <1>5, <1>6, <1>7, <1>8, <1>9, <1>10, <1>11, Steps, Zenon

-----------------------------------------------------------------------------
(* No KubeletConfig is forgotten.                                          *)

\* The KubeletConfig as it is now, with the exclusions as the cache has them, has
\* reached the ConfigMap of a pool of its,
Reached(k) ==
    \E p \in kc[k].pools : cm[p] # NoCM /\ cm[p].data = K!Render(kc[k].payload, excludes.view)

Writing(k) == work.stage = "write" /\ work.kc = k

\* or is about to.
Arriving(k) ==
    /\ Writing(k) /\ work.pool \in kc[k].pools
    /\ work.data = K!Render(kc[k].payload, excludes.view)

\* A KubeletConfig has reached its ConfigMap and nothing older is about to replace it,
\* or it is on its way, or a request for it is to come.
Served(k) == k \in queue \cup timers \/ Arriving(k) \/ (Reached(k) /\ ~Writing(k))

\* An edit of the node groups is let through by no predicate of the KubeletConfig
\* controller; the status of the new generation, which follows it, is.
RequestInv == view.status.conds.gen = view.gen => \A k \in KCs : Usable(k) => Served(k)

\* Nothing that concerns the KubeletConfig changes but the ConfigMaps and the work.
SameFor(k) == platform' = platform /\ excludes'.view = excludes.view /\ kc'[k] = kc[k]

LEMMA UsableFacts ==
    ASSUME ShapeInv, NEW k \in KCs
    PROVE  Usable(k) <=> kc[k] # NoKC /\ kc[k].payload \notin {"nil", "bad"}
<1>1. platform = "HyperShift" /\ K!HandledPools(k) = kc[k].pools
  BY Zenon DEF K!HandledPools, ShapeInv
<1>2. kc[k] # NoKC => kc[k].pools # {}
  BY Zenon DEF ShapeInv
<1> QED
  BY <1>1, <1>2 DEF Usable, K!HandlerFails, K!HandlerIgnores

LEMMA SameFacts ==
    ASSUME NEW k \in KCs, SameFor(k)
    PROVE  /\ Usable(k)' <=> Usable(k)
           /\ cm' = cm => (Reached(k)' <=> Reached(k))
           /\ work' = work => (Arriving(k)' <=> Arriving(k)) /\ (Writing(k)' <=> Writing(k))
<1>1. Usable(k)' <=> Usable(k)
  BY Zenon DEF SameFor, Usable, K!HandlerFails, K!HandlerIgnores, K!HandledPools
<1>2. ASSUME cm' = cm PROVE Reached(k)' <=> Reached(k)
  BY <1>2 DEF SameFor, Reached, K!Render
<1>3. ASSUME work' = work PROVE (Arriving(k)' <=> Arriving(k)) /\ (Writing(k)' <=> Writing(k))
  BY <1>3 DEF SameFor, Arriving, Writing, K!Render
<1> QED
  BY <1>1, <1>2, <1>3

\* Steps that leave ConfigMaps and work alone lose no request.
LEMMA QuietStep ==
    ASSUME NEW k \in KCs, SameFor(k), cm' = cm, work' = work,
           queue \cup timers \subseteq queue' \cup timers', Served(k)
    PROVE  Served(k)'
BY SameFacts DEF Served

\* Start takes the request for a usable KubeletConfig and no other to a write.
LEMMA StartServes ==
    ASSUME LeastExists, ShapeInv, GoneInv, excludes' = excludes, NEW j \in KCs, K!Start(j),
           NEW k \in KCs, Usable(k), Served(k)
    PROVE  Served(k)'
<1>1. SameFor(k) /\ cm' = cm /\ work = K!Idle /\ queue' = queue \ {j}
  BY Zenon DEF K!Start, SameFor, K!cluster
<1>2. timers \subseteq timers'
  <2>1. timers' = timers \/ timers' = timers \cup {j}
    BY Zenon DEF K!Start
  <2> QED
    BY <2>1
<1>3. ~Arriving(k) /\ ~Writing(k)
  BY <1>1, Zenon DEF Arriving, Writing, K!Idle
<1>4. CASE j = k
  <2>0. kc[k] # NoKC /\ platform # "OpenShift"
    BY Zenon DEF Usable, ShapeInv
  <2>a. K!HandledPools(k) = kc[k].pools
    BY <2>0, Zenon DEF K!HandledPools
  <2>b. K!getDeletedOwner(k) = {}
    <3>1. \A i \in DOMAIN gc : gc[i].kc # k
      BY <2>0, Zenon DEF GoneInv, Notes
    <3> QED
      BY <3>1, Zenon DEF K!getDeletedOwner
  <2>1. K!getDeletedOwner(k) = {} /\ K!HandledPools(k) = kc[k].pools
    BY <2>a, <2>b
  <2>2. kc[k].payload # "bad" /\ ~K!HandlerFails(k) /\ ~K!HandlerIgnores(k)
    BY UsableFacts DEF Usable
  <2>3. PICK p \in kc[k].pools :
             work' = [stage |-> "write", kc |-> k, uid |-> kc[k].uid, pool |-> p,
                      data |-> K!Render(kc[k].payload, excludes.view)]
    <3>1. \E p \in K!HandledPools(k) :
             work' = [stage |-> "write", kc |-> k, uid |-> kc[k].uid, pool |-> p,
                      data |-> K!Render(kc[k].payload, excludes.view)]
      BY <1>4, <2>1, <2>2, Zenon DEF K!Start
    <3> QED
      BY <2>1, <3>1, Zenon
  <2>4. Arriving(k)'
    BY <1>1, <2>3, Zenon DEF Arriving, Writing, SameFor, K!Render
  <2> QED
    BY <2>4, Zenon DEF Served
<1>5. CASE j # k
  <2>1. ~Writing(k)'
    <3>1. work'.stage = "idle" \/ work'.kc = j
      BY StartStages, Zenon
    <3> QED
      BY <1>5, <3>1 DEF Writing
  <2> QED
    BY <1>1, <1>2, <1>3, <1>5, <2>1, SameFacts DEF Served
<1> QED
  BY <1>4, <1>5

\* A ConfigMap is written over only for its KubeletConfig (syncConfigMap).
LEMMA WriteServes ==
    ASSUME ShapeInv, cm \in ConfigMaps, GoneInv, Orderly, excludes' = excludes, K!WriteConfigMap,
           NEW k \in KCs, Usable(k), Served(k)
    PROVE  Served(k)'
<1> DEFINE p == work.pool
           new == [data |-> work.data, owner |-> NoOwner]
<1>1. SameFor(k) /\ work' = K!Idle /\ work.stage = "write"
  BY Zenon DEF K!WriteConfigMap, SameFor, K!Finish
<1>2. work.kc \in KCs /\ p \in Pools /\ new # NoCM /\ kc[k] # NoKC
  <2>1. new \in Datas
    BY <1>1, HyperShiftAssumption, Zenon DEF ShapeInv
  <2> QED
    BY <1>1, <2>1, SpecsAssumption, Zenon DEF ShapeInv, Usable
<1>3. ~Writing(k)'
  BY <1>1, IdleStage DEF Writing
<1>4. CASE timers' = timers \cup {work.kc} /\ cm' = cm /\ queue' = queue
  BY <1>1, <1>3, <1>4, SameFacts, Zenon DEF Served, Arriving, Writing
<1>5. CASE cm' = [cm EXCEPT ![p] = new] /\ timers' = timers /\ queue \subseteq queue'
  <2>1. cm'[p] = new /\ \A q \in Pools : q # p => cm'[q] = cm[q]
    BY <1>2, <1>5, Zenon DEF ConfigMaps
  <2>2. CASE k \in queue \cup timers
    BY <1>5, <2>2 DEF Served
  <2>3. CASE Arriving(k)
    <3>0. p \in kc[k].pools /\ new.data = K!Render(kc[k].payload, excludes.view)
      BY <2>3, Zenon DEF Arriving
    <3>1. Reached(k)'
      <4> HIDE DEF new
      <4> QED
        BY <1>1, <1>2, <2>1, <3>0, Zenon DEF Reached, SameFor, K!Render
    <3> QED
      BY <1>3, <3>1 DEF Served
  <2>4. CASE Reached(k) /\ ~Writing(k)
    <3>1. PICK q \in kc[k].pools : cm[q] # NoCM /\ cm[q].data = K!Render(kc[k].payload, excludes.view)
      BY <2>4, Zenon DEF Reached
    <3>2. q \in PoolsOfKC(k) /\ p \in PoolsOfKC(work.kc) /\ work.kc # k
      BY <1>1, <1>2, <2>4, <3>1, Zenon DEF ShapeInv, GoneInv, Writing
    <3>3. q # p
      BY <1>2, <3>2, Zenon DEF Orderly
    <3>4. cm'[q] = cm[q]
      BY <2>1, <3>2, <3>3, Zenon DEF PoolsOfKC
    <3>5. Reached(k)'
      BY <1>1, <3>1, <3>4 DEF Reached, SameFor, K!Render
    <3> QED
      BY <1>3, <3>5, Zenon DEF Served
  <2> QED
    BY <2>2, <2>3, <2>4 DEF Served
<1>6. platform # "OpenShift"
  BY Zenon DEF ShapeInv
<1> QED
  BY <1>4, <1>5, <1>6, Zenon DEF K!WriteConfigMap

\* Reconcile deletes the ConfigMap of a KubeletConfig that is gone, not of another.
LEMMA DeleteServes ==
    ASSUME ShapeInv, cm \in ConfigMaps, FollowInv, GoneInv, Orderly, excludes' = excludes,
           K!DeleteConfigMap, NEW k \in KCs, Usable(k), Served(k)
    PROVE  Served(k)'
<1>1. SameFor(k) /\ work.stage = "delete" /\ queue' = queue
  BY Zenon DEF K!DeleteConfigMap, SameFor
<1>2. /\ work' = K!Idle \/ work' = [stage |-> "forget", kc |-> work.kc, list |-> gc]
      /\ timers' = timers \/ timers' = timers \cup {work.kc}
      /\ cm' = cm \/ cm' = [cm EXCEPT ![work.pool] = NoCM]
  BY Zenon DEF K!DeleteConfigMap, K!Finish
<1>3. ~Arriving(k) /\ ~Writing(k)'
  <2>1. work'.stage # "write"
    BY <1>2, IdleStage
  <2> QED
    BY <1>1, <2>1, Zenon DEF Arriving, Writing
<1>4. ASSUME Reached(k) PROVE Reached(k)'
  <2>1. PICK q \in kc[k].pools : cm[q] # NoCM /\ cm[q].data = K!Render(kc[k].payload, excludes.view)
    BY <1>4, Zenon DEF Reached
  <2>2. kc[k] # NoKC /\ q \in PoolsOfKC(k) /\ q \in Pools
    BY <2>1, Zenon DEF ShapeInv, Usable, PoolsOfKC
  <2>3. work.pool \in PoolsOfKC(work.kc) /\ kc[work.kc] = NoKC /\ work.kc \in KCs
    BY <1>1, Zenon DEF ShapeInv, FollowInv, GoneInv
  <2>4. q # work.pool
    BY <2>2, <2>3, Zenon DEF Orderly
  <2>5. cm'[q] = cm[q]
    BY <1>2, <2>2, <2>4, Zenon DEF ConfigMaps
  <2> QED
    BY <1>1, <2>1, <2>5, Zenon DEF Reached, SameFor, K!Render
<1> QED
  BY <1>1, <1>2, <1>3, <1>4 DEF Served

LEMMA RequestInit ==
    ASSUME HSInit
    PROVE  RequestInv
BY DEF HSInit, RequestInv, Served, Usable, K!AllKubeletConfigs

\* The cache receives an edit of the node groups before there is a status for it.
LEMMA RequestStep ==
    ASSUME LeastExists, Orderly, SharedInv, FollowInv, GoneInv, RequestInv, [HSNext]_hsVars,
           cr.status.conds.gen = cr.gen => view.spec.groups = cr.spec.groups
    PROVE  RequestInv'
<1> SUFFICES ASSUME view'.status.conds.gen = view'.gen, NEW k \in KCs, Usable(k)'
             PROVE  Served(k)'
  BY DEF RequestInv
<1>0. ShapeInv /\ budget \in 0 .. Budget /\ cm \in ConfigMaps
  BY DEF SharedInv
<1>k. kc'[k] # NoKC
  BY DEF Usable
<1>a. ASSUME SameFor(k), view' = view PROVE Usable(k) /\ Served(k)
  BY <1>a, SameFacts, Zenon DEF RequestInv
<1>b. ASSUME SameFor(k), view' = view, cm' = cm, work' = work,
             queue \cup timers \subseteq queue' \cup timers'
      PROVE  Served(k)'
  BY <1>a, <1>b, QuietStep, Zenon
<1>1. CASE Elsewhere
  <2>1. /\ SameFor(k) /\ view' = view /\ cm' = cm /\ work' = work
        /\ queue' = queue /\ timers' = timers
    BY <1>1, NRORunsFrame, Zenon DEF Elsewhere, kcState, SameFor
  <2> QED
    BY <1>b, <2>1, Zenon
<1>2. CASE CacheReceives
  <2>1. /\ view' = cr /\ kc' = kc
        /\ queue' = IF K!nroPredicate(view.spec.groups, cr.spec.groups)
                    THEN queue \cup K!AllKubeletConfigs ELSE queue
    BY <1>2 DEF CacheReceives, WatchDeliver
  <2>2. view.spec.groups = cr.spec.groups
    BY <2>1, Zenon
  <2> QED
    BY <1>k, <2>1, <2>2, Zenon DEF K!nroPredicate, K!AllKubeletConfigs, Served
<1>3. CASE Restart
  BY <1>3, <1>k DEF Restart, K!Crash, K!cluster, Served
<1>4. ASSUME NEW spec \in Specs, NEW e \in Excludes, EditNRO(spec, e) PROVE Served(k)'
  <2>1. /\ view' = view /\ cm' = cm /\ UNCHANGED kcState /\ excludes' = [excludes EXCEPT !.api = e]
    BY <1>4 DEF EditNRO, objects
  <2>2. SameFor(k) /\ work' = work /\ queue' = queue /\ timers' = timers
    BY <2>1 DEF SameFor, kcState, SharedInv, ExcludesOK
  <2> QED
    BY <1>b, <2>1, <2>2
<1>5. ASSUME NEW j \in KCs, KCStep(K!Start(j)) PROVE Served(k)'
  <2>1. SameFor(k) /\ view' = view /\ excludes' = excludes /\ K!Start(j)
    BY <1>5, Zenon DEF KCStep, K!Start, K!cluster, SameFor
  <2> QED
    BY <1>0, <1>a, <2>1, StartServes
<1>6. CASE KCStep(K!WriteConfigMap)
  <2>1. SameFor(k) /\ view' = view /\ excludes' = excludes /\ K!WriteConfigMap
    BY <1>6, Zenon DEF KCStep, K!WriteConfigMap, SameFor
  <2> QED
    BY <1>0, <1>a, <2>1, WriteServes, Zenon
<1>7. CASE KCStep(K!DeleteConfigMap)
  <2>1. SameFor(k) /\ view' = view /\ excludes' = excludes /\ K!DeleteConfigMap
    BY <1>7, Zenon DEF KCStep, K!DeleteConfigMap, SameFor
  <2> QED
    BY <1>0, <1>a, <2>1, DeleteServes, Zenon
<1>8. CASE KCStep(K!ForgetDeleted)
  <2>1. /\ SameFor(k) /\ view' = view /\ cm' = cm /\ work.stage = "forget" /\ work' = K!Idle
        /\ queue' = queue /\ timers' = timers
    BY <1>8, Zenon DEF KCStep, K!ForgetDeleted, K!Finish, K!cluster, SameFor
  <2>2. ~Arriving(k) /\ ~Writing(k)'
    BY <2>1, IdleStage, Zenon DEF Arriving, Writing
  <2> QED
    BY <1>a, <2>1, <2>2, SameFacts, Zenon DEF Served
<1>9. ASSUME NEW j \in KCs, KCStep(K!TimerFires(j)) PROVE Served(k)'
  <2>1. /\ SameFor(k) /\ view' = view /\ cm' = cm /\ work' = work
        /\ queue \cup timers \subseteq queue' \cup timers'
    BY <1>9, Zenon DEF KCStep, K!TimerFires, K!cluster, SameFor
  <2> QED
    BY <1>b, <2>1, Zenon
<1>10. ASSUME NEW j \in KCs, KCStep(K!DeleteKC(j)) PROVE Served(k)'
  <2>1. /\ kc' = [kc EXCEPT ![j] = NoKC] /\ UNCHANGED <<platform, view, excludes, cm, work, timers>>
        /\ queue \subseteq queue'
    BY <1>10, Zenon DEF KCStep, K!DeleteKC
  <2>2. SameFor(k)
    BY <1>0, <1>k, <2>1, Zenon DEF ShapeInv, SameFor
  <2> QED
    BY <1>b, <2>1, <2>2, Zenon
<1>11. ASSUME NEW j \in KCs, NEW new \in KCChoices[j], KCStep(K!SetKC(j, new)) PROVE Served(k)'
  <2>1. /\ UNCHANGED <<platform, view, excludes, cm, work, timers>> /\ queue' = queue \cup {j}
    BY <1>11, Zenon DEF KCStep, K!SetKC
  <2>2. CASE j = k
    BY <2>1, <2>2, Zenon DEF Served
  <2>3. CASE j # k
    <3>1. kc'[k] = kc[k]
      BY <1>0, <1>11, <2>3, SetFacts, Zenon DEF KCStep
    <3> QED
      BY <1>b, <2>1, <3>1, Zenon DEF SameFor
  <2> QED
    BY <2>2, <2>3
<1> QED
  BY <1>1, <1>2, <1>3, <1>4, <1>5, <1>6, <1>7, <1>8, <1>9, <1>10, <1>11, Steps, Zenon
=============================================================================
