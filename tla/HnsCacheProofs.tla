---------------------------- MODULE HnsCacheProofs ----------------------------
(***************************************************************************)
(* Theorems about HnsCache for every set of names, every cache size and    *)
(* every number of concurrent lookups.                                     *)
(***************************************************************************)
EXTENDS HnsCache, FiniteSetTheorems, TLAPS

-------------------------------------------------------------------------------
(* Type correctness. *)

LEMMA InitType == Init => TypeOK
<1> SUFFICES ASSUME Init PROVE TypeOK
  OBVIOUS
<1>1. Cached = {} /\ cache \in [Cached -> Entry]
  BY Zenon DEF Init, Cached
<1>2. Walking = {} /\ walk \in [Walking -> Walk]
  BY Zenon DEF Init, Walking
<1>3. version \in [Hosts -> Nat] /\ floor \in [Hosts -> Nat]
  BY DEF Init
<1> QED
  BY <1>1, <1>2, <1>3, Zenon DEF Init, TypeOK

LEMMA HitType ==
  ASSUME TypeOK, NEW l \in Lookups, NEW h \in Hosts, Hit(l, h)
  PROVE  TypeOK'
<1>1. h \in Cached /\ cache[h] \in Entry
  BY DEF Hit, Fresh, TypeOK
<1>2. cache[h].ver \in Nat
  BY <1>1 DEF Entry
<1>3. served' \in [host : Hosts, ver : Nat]
  BY <1>2 DEF Hit, Return
<1>4. older' \subseteq Cached \X Cached
  BY <1>1 DEF Hit, DropOrder, TypeOK
<1> QED
  BY <1>3, <1>4 DEF Hit, TypeOK, Cached, Walking

LEMMA DropType ==
  ASSUME TypeOK, NEW D
  PROVE  /\ Drop(cache, D) \in [Cached \ D -> Entry]
         /\ DOMAIN Drop(cache, D) = Cached \ D
         /\ DropOrder(older, D) \subseteq (Cached \ D) \X (Cached \ D)
  BY DEF Drop, DropOrder, Restrict, TypeOK, Cached

LEMMA MissType ==
  ASSUME TypeOK, NEW l \in Lookups, NEW h \in Hosts, Miss(l, h)
  PROVE  TypeOK'
<1> DEFINE w == Attempt(h, 1)
<1>1. w \in Walk
  BY CacheAssumption DEF Walk, Attempt
<1>2. walk' = Put(walk, l, w) /\ walk' \in [Walking \cup {l} -> Walk]
  BY <1>1 DEF Miss, Put, TypeOK, Walking
<1>3. Walking' \subseteq Lookups /\ walk' \in [Walking' -> Walk]
  BY <1>2 DEF TypeOK, Walking
<1>4. Cached' = Cached \ {h} /\ cache' \in [Cached \ {h} -> Entry]
  BY DropType, Zenon DEF Miss, Cached
<1>5. older' \subseteq (Cached \ {h}) \X (Cached \ {h})
  BY DropType, Zenon DEF Miss
<1>6. Cached \ {h} \subseteq Hosts
  BY DEF TypeOK
<1> QED
  BY <1>3, <1>4, <1>5, <1>6 DEF Miss, zone, TypeOK

(* One lemma per helper the remaining actions are built from. *)

LEMMA PutWalkType ==
  ASSUME TypeOK, NEW l \in Walking, NEW w \in Walk,
         walk' = [walk EXCEPT ![l] = w]
  PROVE  Walking' = Walking /\ walk' \in [Walking -> Walk]
  BY DEF TypeOK, Walking

LEMMA DropWalkType ==
  ASSUME TypeOK, NEW l \in Walking, walk' = Drop(walk, {l})
  PROVE  Walking' = Walking \ {l} /\ walk' \in [Walking \ {l} -> Walk]
  BY DEF TypeOK, Walking, Drop, Restrict

LEMMA StoreType ==
  ASSUME TypeOK, NEW h \in Hosts, NEW v \in Nat, Store(h, v)
  PROVE  /\ Cached' = (Cached \ Evicted) \cup {h}
         /\ cache' \in [Cached' -> Entry]
         /\ Cached' \subseteq Hosts
         /\ older' \subseteq Cached' \X Cached'
<1> DEFINE kept == Drop(cache, Evicted)
           order == DropOrder(older, Evicted)
           e == [ver |-> v, age |-> 0]
<1>1. /\ kept \in [Cached \ Evicted -> Entry]
      /\ DOMAIN kept = Cached \ Evicted
      /\ order \subseteq (Cached \ Evicted) \X (Cached \ Evicted)
  BY DropType
<1>2. e \in Entry
  BY CacheAssumption DEF Entry
<1>3. cache' = Put(kept, h, e) /\ older' = PutOrder(kept, order, h)
  BY DEF Store
<1> HIDE DEF kept, order, e
<1>4. /\ Put(kept, h, e) \in [(Cached \ Evicted) \cup {h} -> Entry]
      /\ DOMAIN Put(kept, h, e) = (Cached \ Evicted) \cup {h}
  BY <1>1, <1>2 DEF Put
<1>5. Cached' = (Cached \ Evicted) \cup {h} /\ cache' \in [Cached' -> Entry]
  BY <1>3, <1>4 DEF Cached
<1>6. older' \subseteq Cached' \X Cached'
  BY <1>1, <1>3, <1>5 DEF PutOrder
<1> QED
  BY <1>5, <1>6 DEF TypeOK

LEMMA StepType ==
  ASSUME TypeOK, NEW l \in Walking, Step(l)
  PROVE  TypeOK'
<1> USE DEF Step
<1>1. walk[l] \in Walk /\ walk[l].host \in Hosts /\ walk[l].ver \in Nat
  BY DEF TypeOK, Walk
<1>2. CASE Read(l)
  <2>1. PICK k \in {"cacheable", "failure"} :
          walk' = [walk EXCEPT ![l] = [walk[l] EXCEPT !.answer = k,
                                          !.ver = version[walk[l].host]]]
    BY <1>2 DEF Read, TypeOK
  <2>2. [walk[l] EXCEPT !.answer = k, !.ver = version[walk[l].host]] \in Walk
    BY <1>1 DEF Walk, TypeOK
  <2> QED
    BY <2>1, <2>2, PutWalkType, <1>2 DEF Read, TypeOK, Cached
<1>3. CASE Rerun(l)
  <2> DEFINE w == Attempt(walk[l].host, walk[l].attempt + 1)
  <2>1. walk' = [walk EXCEPT ![l] = w]
    BY <1>3 DEF Rerun, TypeOK
  <2>2. walk[l].attempt + 1 \in 1 .. Attempts
    BY <1>1, <1>3, CacheAssumption DEF Walk, Rerun
  <2>3. w \in Walk
    BY <1>1, <2>2 DEF Walk, Attempt
  <2> QED
    BY <2>1, <2>3, PutWalkType, <1>3 DEF Rerun, TypeOK, Cached
<1>4. CASE GiveUp(l)
  BY <1>4, DropWalkType DEF GiveUp, TypeOK, Cached
<1>5. CASE Fail(l)
  BY <1>5, DropWalkType DEF Fail, TypeOK, Cached
<1>6. CASE Finish(l)
  <2>1. Walking' \subseteq Lookups /\ walk' \in [Walking' -> Walk]
    BY <1>6, DropWalkType DEF Finish, TypeOK
  <2>2. served' \in [host : Hosts, ver : Nat]
    BY <1>1, <1>6 DEF Finish, Return
  <2>3. /\ Cached' \subseteq Hosts /\ cache' \in [Cached' -> Entry]
        /\ older' \subseteq Cached' \X Cached'
    BY <1>1, <1>6, StoreType DEF Finish, TypeOK, Cached
  <2> QED
    BY <2>1, <2>2, <2>3, <1>6 DEF Finish, TypeOK
<1> QED
  BY <1>2, <1>3, <1>4, <1>5, <1>6

LEMMA InvalidateType ==
  ASSUME TypeOK, NEW D \in SUBSET Hosts, Invalidate(D)
  PROVE  TypeOK'
<1>1. Cached' = Cached \ D /\ cache' \in [Cached \ D -> Entry]
  BY DropType, Zenon DEF Invalidate, Cached
<1>2. older' \subseteq (Cached \ D) \X (Cached \ D)
  BY DropType, Zenon DEF Invalidate
<1>3. ASSUME NEW l \in Walking
      PROVE  [walk[l] EXCEPT !.current = FALSE] \in Walk
  BY DEF TypeOK, Walk
<1>4. Walking' = Walking /\ walk' \in [Walking -> Walk]
  BY <1>3 DEF Invalidate, Walking
<1>5. floor' \in [Hosts -> Nat]
  BY DEF Invalidate, TypeOK
<1> QED
  BY <1>1, <1>2, <1>4, <1>5 DEF Invalidate, TypeOK

LEMMA PublishType ==
  ASSUME TypeOK, NEW h \in Hosts, Publish(h)
  PROVE  TypeOK'
<1>1. version' \in [Hosts -> Nat]
  BY DEF Publish, TypeOK
<1> QED
  BY <1>1 DEF Publish, TypeOK, Cached, Walking

LEMMA TickType ==
  ASSUME TypeOK, Tick
  PROVE  TypeOK'
<1>1. ASSUME NEW h \in Cached
      PROVE  [cache[h] EXCEPT !.age = IF @ < Ttl THEN @ + 1 ELSE Ttl] \in Entry
  BY CacheAssumption DEF TypeOK, Entry
<1>2. Cached' = Cached /\ cache' \in [Cached -> Entry]
  BY <1>1 DEF Tick, Cached
<1> QED
  BY <1>2 DEF Tick, TypeOK, Walking

(* Every reachable state of the cache is well typed. *)
THEOREM TypeCorrect == Spec => []TypeOK
<1>1. TypeOK /\ [Next]_vars => TypeOK'
  <2> SUFFICES ASSUME TypeOK, [Next]_vars PROVE TypeOK'
    OBVIOUS
  <2>1. ASSUME NEW l \in Lookups, NEW h \in Hosts, Hit(l, h) \/ Miss(l, h)
        PROVE  TypeOK'
    BY <2>1, HitType, MissType
  <2>2. ASSUME NEW l \in Walking, Step(l) PROVE TypeOK'
    BY <2>2, StepType
  <2>3. ASSUME NEW h \in Hosts, Forget(h) \/ Publish(h) PROVE TypeOK'
    BY <2>3, InvalidateType, PublishType, CacheAssumption DEF Forget
  <2>4. CASE ClearCache
    BY <2>4, InvalidateType DEF ClearCache
  <2>5. CASE Tick
    BY <2>5, TickType
  <2>6. CASE UNCHANGED vars
    BY <2>6 DEF vars, TypeOK, Cached, Walking
  <2> QED
    BY <2>1, <2>2, <2>3, <2>4, <2>5, <2>6 DEF Next
<1> QED
  BY InitType, <1>1, PTL DEF Spec

-------------------------------------------------------------------------------
(* The size of the cache.  Who is evicted is decided by the Map's order, so *)
(* the bound needs that order to have a first element: it does, for every   *)
(* nonempty set of cached names.                                            *)

HasFirst(C, r) ==
  \A D \in SUBSET C : D # {} => \E h \in D : \A g \in D : <<g, h>> \notin r

SizeInv == /\ IsFiniteSet(Cached)
           /\ Cardinality(Cached) <= CacheMax
           /\ HasFirst(Cached, older)

LEMMA FirstAfterDrop ==
  ASSUME NEW C, NEW r, NEW X, HasFirst(C, r)
  PROVE  HasFirst(C \ X, DropOrder(r, X))
  BY DEF HasFirst, DropOrder

LEMMA FirstAfterAppend ==
  ASSUME NEW C, NEW r \in SUBSET (C \X C), NEW h, h \notin C, HasFirst(C, r)
  PROVE  HasFirst(C \cup {h}, r \cup (C \X {h}))
<1> SUFFICES ASSUME NEW D \in SUBSET (C \cup {h}), D # {}
             PROVE  \E m \in D : \A g \in D : <<g, m>> \notin r \cup (C \X {h})
  BY DEF HasFirst
<1>1. CASE D = {h}
  BY <1>1
<1>2. CASE D # {h}
  <2>1. PICK m \in D \ {h} : \A g \in D \ {h} : <<g, m>> \notin r
    BY <1>2, D \ {h} \in SUBSET C, D \ {h} # {} DEF HasFirst
  <2>2. ASSUME NEW g \in D PROVE <<g, m>> \notin r \cup (C \X {h})
    BY <2>1
  <2> QED
    BY <2>1, <2>2
<1> QED
  BY <1>1, <1>2

LEMMA DropSize ==
  ASSUME TypeOK, SizeInv, NEW X
  PROVE  /\ IsFiniteSet(Cached \ X)
         /\ Cardinality(Cached \ X) <= CacheMax
         /\ HasFirst(Cached \ X, DropOrder(older, X))
<1>1. /\ IsFiniteSet(Cached \ X)
      /\ Cardinality(Cached \ X) <= Cardinality(Cached)
  BY FS_Subset, Cached \ X \in SUBSET Cached DEF SizeInv
<1>2. Cardinality(Cached \ X) \in Nat /\ Cardinality(Cached) \in Nat
  BY <1>1, FS_CardinalityType DEF SizeInv
<1> QED
  BY <1>1, <1>2, FirstAfterDrop, CacheAssumption DEF SizeInv

LEMMA HitSize ==
  ASSUME TypeOK, SizeInv, NEW l, NEW h \in Hosts, Hit(l, h)
  PROVE  SizeInv'
<1>1. h \in Cached /\ Cached' = Cached
  BY DEF Hit, Fresh, Cached
<1> DEFINE C == Cached \ {h}
           r == DropOrder(older, {h})
<1>2. HasFirst(C, r) /\ r \in SUBSET (C \X C)
  BY FirstAfterDrop, DropType DEF SizeInv
<1>3. C \cup {h} = Cached /\ h \notin C
  BY <1>1
<1>4. older' = r \cup (C \X {h})
  BY DEF Hit
<1> HIDE DEF C, r
<1>5. HasFirst(C \cup {h}, r \cup (C \X {h}))
  BY <1>2, <1>3, FirstAfterAppend
<1>6. HasFirst(Cached', older')
  BY <1>1, <1>3, <1>4, <1>5
<1> QED
  BY <1>1, <1>6 DEF SizeInv

(* Room is made before an entry is set: what is left is below the bound. *)
LEMMA EvictedLeavesRoom ==
  ASSUME TypeOK, SizeInv
  PROVE  Cardinality(Cached \ Evicted) < CacheMax
<1>1. /\ IsFiniteSet(Cached \ Evicted)
      /\ Cardinality(Cached \ Evicted) <= Cardinality(Cached)
      /\ Cardinality(Cached) = Cardinality(Cached \ Evicted)
           => Cached = Cached \ Evicted
  BY FS_Subset, Cached \ Evicted \in SUBSET Cached DEF SizeInv
<1>2. Cardinality(Cached \ Evicted) \in Nat /\ Cardinality(Cached) \in Nat
  BY <1>1, FS_CardinalityType DEF SizeInv
<1>3. CASE Cardinality(Cached) >= CacheMax
  <2>1. Cached # {}
    BY <1>3, FS_EmptySet, CacheAssumption
  <2>2. PICK h \in Cached : \A g \in Cached : <<g, h>> \notin older
    BY <2>1 DEF SizeInv, HasFirst
  <2>3. h \in Evicted
    BY <1>3, <2>2 DEF Evicted, Oldest, Cached
  <2> QED
    BY <1>1, <1>2, <2>2, <2>3, CacheAssumption DEF SizeInv
<1>4. CASE ~(Cardinality(Cached) >= CacheMax)
  BY <1>1, <1>2, <1>4, CacheAssumption
<1> QED
  BY <1>3, <1>4

LEMMA StoreSize ==
  ASSUME TypeOK, SizeInv, NEW h \in Hosts, NEW v \in Nat, Store(h, v)
  PROVE  SizeInv'
<1> DEFINE C == Cached \ Evicted
           r == DropOrder(older, Evicted)
<1>1. IsFiniteSet(C) /\ Cardinality(C) < CacheMax /\ HasFirst(C, r)
  BY DropSize, EvictedLeavesRoom
<1>2. r \in SUBSET (C \X C)
  BY DropType
<1>3. Cached' = C \cup {h}
  BY StoreType
<1>4. older' = IF h \in C THEN r ELSE r \cup (C \X {h})
  BY DropType DEF Store, PutOrder
<1> HIDE DEF C, r
<1>5. IsFiniteSet(C \cup {h}) /\ Cardinality(C \cup {h}) <= CacheMax
  <2>1. Cardinality(C) \in Nat
    BY <1>1, FS_CardinalityType
  <2>2. /\ IsFiniteSet(C \cup {h})
        /\ Cardinality(C \cup {h}) = IF h \in C THEN Cardinality(C)
                                                ELSE Cardinality(C) + 1
    BY <1>1, FS_AddElement, Zenon
  <2> QED
    BY <1>1, <2>1, <2>2, CacheAssumption
<1>6. HasFirst(Cached', older')
  <2>1. CASE h \in C
    BY <1>1, <1>3, <1>4, <2>1, C \cup {h} = C
  <2>2. CASE h \notin C
    BY <1>1, <1>2, <1>3, <1>4, <2>2, FirstAfterAppend
  <2> QED
    BY <2>1, <2>2
<1> QED
  BY <1>3, <1>5, <1>6 DEF SizeInv

LEMMA StepSize ==
  ASSUME TypeOK, SizeInv, NEW l \in Walking, Step(l)
  PROVE  SizeInv'
<1>1. CASE Finish(l) /\ walk[l].answer = "cacheable"
  <2>1. walk[l].host \in Hosts /\ walk[l].ver \in Nat
    BY DEF TypeOK, Walk
  <2>2. Store(walk[l].host, walk[l].ver)
    BY <1>1 DEF Finish
  <2> QED
    BY <2>1, <2>2, StoreSize
<1>2. CASE UNCHANGED <<cache, older>>
  BY <1>2 DEF SizeInv, Cached
<1> QED
  BY <1>1, <1>2 DEF Step, Read, Rerun, GiveUp, Fail, Finish

(* The cache holds at most CacheMax names in every reachable state. *)
THEOREM CacheIsBounded == Spec => []CacheBounded
<1>1. Init => SizeInv
  <2> SUFFICES ASSUME Init PROVE SizeInv
    OBVIOUS
  <2>1. Cached = {}
    BY Zenon DEF Init, Cached
  <2> QED
    BY <2>1, FS_EmptySet, CacheAssumption DEF SizeInv, HasFirst
<1>2. TypeOK /\ SizeInv /\ [Next]_vars => SizeInv'
  <2> SUFFICES ASSUME TypeOK, SizeInv, [Next]_vars PROVE SizeInv'
    OBVIOUS
  <2>1. ASSUME NEW l \in Lookups, NEW h \in Hosts, Hit(l, h)
        PROVE  SizeInv'
    BY <2>1, HitSize
  <2>2. ASSUME NEW l \in Lookups, NEW h \in Hosts, Miss(l, h)
        PROVE  SizeInv'
    <3>1. Cached' = Cached \ {h} /\ older' = DropOrder(older, {h})
      BY <2>2, DropType, Zenon DEF Miss, Cached
    <3> QED
      BY <3>1, DropSize DEF SizeInv
  <2>3. ASSUME NEW l \in Walking, Step(l) PROVE SizeInv'
    BY <2>3, StepSize
  <2>4. ASSUME NEW D, Invalidate(D) PROVE SizeInv'
    <3>1. Cached' = Cached \ D /\ older' = DropOrder(older, D)
      BY <2>4, DropType, Zenon DEF Invalidate, Cached
    <3> QED
      BY <3>1, DropSize DEF SizeInv
  <2>5. ASSUME NEW h \in Hosts, Publish(h) PROVE SizeInv'
    BY <2>5 DEF Publish, SizeInv, Cached
  <2>6. CASE Tick
    <3>1. Cached' = Cached /\ older' = older
      BY <2>6, Zenon DEF Tick, Cached
    <3> QED
      BY <3>1 DEF SizeInv
  <2>7. CASE UNCHANGED vars
    BY <2>7 DEF vars, SizeInv, Cached
  <2> QED
    BY <2>1, <2>2, <2>3, <2>4, <2>5, <2>6, <2>7 DEF Next, Forget, ClearCache
<1>3. SizeInv => CacheBounded
  BY DEF SizeInv, CacheBounded
<1> QED
  BY TypeCorrect, <1>1, <1>2, <1>3, PTL DEF Spec

-------------------------------------------------------------------------------
(* Freshness.  NothingPreForget alone is not inductive: what a lookup in   *)
(* flight is about to store has to be fresh too, and the cache must never  *)
(* be ahead of the zone.                                                   *)

FloorOK == \A h \in Hosts : floor[h] <= version[h]
CacheFresh == \A h \in Cached : cache[h].ver \in floor[h] .. version[h]
WalkFresh ==
  \A l \in Walking : (walk[l].answer # "pending" /\ walk[l].current)
     => walk[l].ver \in floor[walk[l].host] .. version[walk[l].host]

FreshInv == FloorOK /\ CacheFresh /\ WalkFresh

(* What Store leaves in the cache: the new entry, and the others as they were. *)
LEMMA StoreValues ==
  ASSUME TypeOK, NEW h \in Hosts, NEW v \in Nat, Store(h, v)
  PROVE  /\ Cached' = (Cached \ Evicted) \cup {h}
         /\ cache'[h] = [ver |-> v, age |-> 0]
         /\ \A g \in Cached \ Evicted : g # h => cache'[g] = cache[g]
<1> DEFINE kept == Drop(cache, Evicted)
           e == [ver |-> v, age |-> 0]
<1>1. DOMAIN kept = Cached \ Evicted
  BY DropType
<1>2. \A g \in Cached \ Evicted : kept[g] = cache[g]
  BY DEF Drop, Restrict, Cached
<1>3. cache' = Put(kept, h, e)
  BY DEF Store
<1> HIDE DEF kept, e
<1>4. \A g \in (Cached \ Evicted) \cup {h} :
         cache'[g] = IF g = h THEN e ELSE kept[g]
  BY <1>1, <1>3 DEF Put
<1>5. Cached' = (Cached \ Evicted) \cup {h}
  BY StoreType
<1> QED
  BY <1>2, <1>4, <1>5 DEF e

LEMMA StepFresh ==
  ASSUME TypeOK, FreshInv, NEW l \in Walking, Step(l)
  PROVE  FreshInv'
<1>1. walk[l].host \in Hosts /\ walk[l].ver \in Nat
  BY DEF TypeOK, Walk
<1>2. FloorOK'
  BY DEF FreshInv, FloorOK, Step, Read, Rerun, GiveUp, Fail, Finish
<1>3. CacheFresh'
  <2>1. CASE Finish(l) /\ walk[l].answer = "cacheable"
    <3> DEFINE h == walk[l].host
               v == walk[l].ver
    <3>1. v \in floor[h] .. version[h]
      BY <2>1 DEF Finish, FreshInv, WalkFresh
    <3>2. Store(h, v) /\ UNCHANGED <<version, floor>>
      BY <2>1 DEF Finish
    <3>3. /\ Cached' = (Cached \ Evicted) \cup {h}
          /\ cache'[h] = [ver |-> v, age |-> 0]
          /\ \A g \in Cached \ Evicted : g # h => cache'[g] = cache[g]
      <4>1. h \in Hosts /\ v \in Nat
        BY <1>1
      <4> HIDE DEF h, v
      <4> QED
        BY <4>1, <3>2, StoreValues, Zenon
    <3>4. \A g \in Cached : cache[g].ver \in floor[g] .. version[g]
      BY DEF FreshInv, CacheFresh
    <3> HIDE DEF h, v
    <3> QED
      BY <3>1, <3>2, <3>3, <3>4 DEF CacheFresh
  <2>2. CASE UNCHANGED <<cache, version, floor>>
    BY <2>2 DEF FreshInv, CacheFresh, Cached
  <2> QED
    BY <2>1, <2>2 DEF Step, Read, Rerun, GiveUp, Fail, Finish
<1>4. WalkFresh'
  <2>1. CASE Read(l)
    <3>1. PICK k \in {"cacheable", "failure"} :
            walk' = [walk EXCEPT ![l].answer = k,
                                 ![l].ver = version[walk[l].host]]
      BY <2>1 DEF Read
    <3>2. /\ Walking' = Walking
          /\ \A m \in Walking : m # l => walk'[m] = walk[m]
          /\ walk'[l].ver = version[walk[l].host]
          /\ walk'[l].host = walk[l].host
      BY <3>1 DEF TypeOK, Walking, Walk
    <3>3. UNCHANGED <<version, floor>>
      BY <2>1 DEF Read
    <3>4. /\ version[walk[l].host] \in Nat /\ floor[walk[l].host] \in Nat
          /\ floor[walk[l].host] <= version[walk[l].host]
      BY <1>1 DEF TypeOK, FreshInv, FloorOK
    <3> QED
      BY <3>2, <3>3, <3>4 DEF FreshInv, WalkFresh
  <2>2. CASE Rerun(l)
    <3>1. /\ Walking' = Walking
          /\ \A m \in Walking : m # l => walk'[m] = walk[m]
          /\ walk'[l].answer = "pending"
      BY <2>2 DEF Rerun, Attempt, TypeOK, Walking
    <3> QED
      BY <2>2, <3>1 DEF Rerun, FreshInv, WalkFresh
  <2>3. CASE GiveUp(l) \/ Fail(l) \/ Finish(l)
    <3>1. /\ Walking' = Walking \ {l}
          /\ \A m \in Walking' : walk'[m] = walk[m]
      BY <2>3, DropWalkType DEF GiveUp, Fail, Finish, Drop, Restrict
    <3> QED
      BY <2>3, <3>1 DEF GiveUp, Fail, Finish, FreshInv, WalkFresh
  <2> QED
    BY <2>1, <2>2, <2>3 DEF Step
<1> QED
  BY <1>2, <1>3, <1>4 DEF FreshInv

LEMMA InvalidateFresh ==
  ASSUME TypeOK, FreshInv, NEW D \in SUBSET Hosts, Invalidate(D)
  PROVE  FreshInv'
<1>1. Cached' = Cached \ D /\ \A h \in Cached' : cache'[h] = cache[h]
  BY DropType DEF Invalidate, Drop, Restrict, Cached
<1>2. \A h \in Hosts : floor'[h] = IF h \in D THEN version[h] ELSE floor[h]
  BY DEF Invalidate
<1>3. \A l \in Walking' : ~walk'[l].current
  BY DEF Invalidate, Walking, TypeOK, Walk
<1>4. version' = version
  BY DEF Invalidate
<1>5. FloorOK'
  BY <1>2, <1>4 DEF FreshInv, FloorOK, TypeOK
<1>6. CacheFresh'
  BY <1>1, <1>2, <1>4 DEF FreshInv, CacheFresh, TypeOK
<1>7. WalkFresh'
  BY <1>3 DEF WalkFresh
<1> QED
  BY <1>5, <1>6, <1>7 DEF FreshInv

LEMMA PublishFresh ==
  ASSUME TypeOK, FreshInv, NEW h \in Hosts, Publish(h)
  PROVE  FreshInv'
<1>1. \A g \in Hosts : version[g] \in Nat /\ version'[g] \in Nat
                       /\ version[g] <= version'[g]
  BY DEF Publish, TypeOK
<1>2. UNCHANGED <<floor, cache, walk>> /\ Cached' = Cached /\ Walking' = Walking
  BY DEF Publish, Cached, Walking
<1>3. FloorOK'
  BY <1>1, <1>2 DEF FreshInv, FloorOK, TypeOK
<1>4. CacheFresh'
  <2>1. ASSUME NEW g \in Cached
        PROVE  cache[g].ver \in floor[g] .. version'[g]
    <3>1. g \in Hosts /\ cache[g].ver \in floor[g] .. version[g]
      BY DEF FreshInv, CacheFresh, TypeOK
    <3>2. floor[g] \in Nat
      BY <3>1 DEF TypeOK
    <3> QED
      BY <1>1, <3>1, <3>2
  <2> QED
    BY <1>2, <2>1 DEF CacheFresh
<1>5. WalkFresh'
  <2>1. ASSUME NEW l \in Walking, walk[l].answer # "pending", walk[l].current
        PROVE  walk[l].ver \in floor[walk[l].host] .. version'[walk[l].host]
    <3>1. /\ walk[l].host \in Hosts
          /\ walk[l].ver \in floor[walk[l].host] .. version[walk[l].host]
      BY <2>1 DEF FreshInv, WalkFresh, TypeOK, Walk
    <3>2. floor[walk[l].host] \in Nat
      BY <3>1 DEF TypeOK
    <3> QED
      BY <1>1, <3>1, <3>2
  <2> QED
    BY <1>2, <2>1 DEF WalkFresh
<1> QED
  BY <1>3, <1>4, <1>5 DEF FreshInv

LEMMA MissFresh ==
  ASSUME TypeOK, FreshInv, NEW l \in Lookups, NEW h \in Hosts, Miss(l, h)
  PROVE  FreshInv'
<1>1. Cached' = Cached \ {h} /\ \A g \in Cached' : cache'[g] = cache[g]
  BY DropType DEF Miss, Drop, Restrict, Cached
<1>2. /\ Walking' = Walking \cup {l}
      /\ \A m \in Walking' : walk'[m] = IF m = l THEN Attempt(h, 1) ELSE walk[m]
  BY DEF Miss, Put, Walking
<1>3. UNCHANGED <<version, floor>>
  BY DEF Miss, zone
<1>4. FloorOK' /\ CacheFresh'
  BY <1>1, <1>3 DEF FreshInv, FloorOK, CacheFresh
<1>5. WalkFresh'
  BY <1>2, <1>3 DEF FreshInv, WalkFresh, Attempt
<1> QED
  BY <1>4, <1>5 DEF FreshInv

THEOREM NothingIsStale == Spec => []FreshInv
<1>1. Init => FreshInv
  <2> SUFFICES ASSUME Init PROVE FreshInv
    OBVIOUS
  <2>1. Cached = {} /\ Walking = {}
    BY Zenon DEF Init, Cached, Walking
  <2>2. FloorOK
    BY DEF Init, FloorOK
  <2> QED
    BY <2>1, <2>2 DEF FreshInv, CacheFresh, WalkFresh
<1>2. TypeOK /\ FreshInv /\ [Next]_vars => FreshInv'
  <2> SUFFICES ASSUME TypeOK, FreshInv, [Next]_vars PROVE FreshInv'
    OBVIOUS
  <2>1. ASSUME NEW l \in Lookups, NEW h \in Hosts, Hit(l, h) PROVE FreshInv'
    BY <2>1 DEF Hit, FreshInv, FloorOK, CacheFresh, WalkFresh, Cached, Walking
  <2>2. ASSUME NEW l \in Lookups, NEW h \in Hosts, Miss(l, h) PROVE FreshInv'
    BY <2>2, MissFresh
  <2>3. ASSUME NEW l \in Walking, Step(l) PROVE FreshInv'
    BY <2>3, StepFresh
  <2>4. ASSUME NEW h \in Hosts, Forget(h) PROVE FreshInv'
    BY <2>4, InvalidateFresh, CacheAssumption DEF Forget
  <2>5. CASE ClearCache
    BY <2>5, InvalidateFresh DEF ClearCache
  <2>6. ASSUME NEW h \in Hosts, Publish(h) PROVE FreshInv'
    BY <2>6, PublishFresh
  <2>7. CASE Tick
    <3>1. Cached' = Cached /\ Walking' = Walking /\ UNCHANGED <<version, floor, walk>>
      BY <2>7 DEF Tick, Cached, Walking
    <3>2. \A h \in Cached : cache'[h].ver = cache[h].ver
      BY <2>7 DEF Tick, TypeOK, Entry
    <3> QED
      BY <3>1, <3>2 DEF FreshInv, FloorOK, CacheFresh, WalkFresh
  <2>8. CASE UNCHANGED vars
    BY <2>8 DEF vars, FreshInv, FloorOK, CacheFresh, WalkFresh, Cached, Walking
  <2> QED
    BY <2>1, <2>2, <2>3, <2>4, <2>5, <2>6, <2>7, <2>8 DEF Next
<1> QED
  BY TypeCorrect, <1>1, <1>2, PTL DEF Spec

LEMMA FreshImplies ==
  ASSUME TypeOK, FreshInv
  PROVE  NothingPreForget /\ WalksOutliveNoForget
<1>1. NothingPreForget
  <2> SUFFICES ASSUME NEW h \in Cached PROVE cache[h].ver >= floor[h]
    BY DEF NothingPreForget
  <2>1. h \in Hosts /\ cache[h].ver \in floor[h] .. version[h]
    BY DEF FreshInv, CacheFresh, TypeOK
  <2> QED
    BY <2>1 DEF TypeOK
<1>2. WalksOutliveNoForget
  <2> SUFFICES ASSUME NEW l \in Walking, walk[l].answer # "pending",
                      walk[l].current
               PROVE  walk[l].ver >= floor[walk[l].host]
    BY DEF WalksOutliveNoForget
  <2>1. /\ walk[l].host \in Hosts
        /\ walk[l].ver \in floor[walk[l].host] .. version[walk[l].host]
    BY DEF FreshInv, WalkFresh, TypeOK, Walk
  <2> QED
    BY <2>1 DEF TypeOK
<1> QED
  BY <1>1, <1>2

(* No cached name, and no lookup about to return, holds an answer from     *)
(* before the last forget() or clearCache() that covers the name.          *)
THEOREM NoAnswerOutlivesForget ==
  Spec => [](NothingPreForget /\ WalksOutliveNoForget)
  BY TypeCorrect, NothingIsStale, FreshImplies, PTL

-------------------------------------------------------------------------------
(* The cache keeps the promise FreshNames makes to resolve()'s callers:    *)
(* whatever resolve() returns, cached or walked, was the name's state at   *)
(* some moment since its last invalidation.                                *)
THEOREM CacheKeepsPromise == Spec => KeepsPromise
<1>1. Init => Promise!Init
  BY Zenon DEF Init, Promise!Init, NothingServed
<1>2. TypeOK /\ FreshInv /\ [Next]_vars => [Promise!Next]_(Promise!promise)
  <2> SUFFICES ASSUME TypeOK, FreshInv, [Next]_vars
               PROVE  Promise!Next \/ UNCHANGED <<version, floor, served>>
    BY DEF Promise!promise
  <2>1. ASSUME NEW l \in Lookups, NEW h \in Hosts, Hit(l, h) PROVE Promise!Serve(h)
    <3>1. cache[h].ver \in floor[h] .. version[h]
      BY <2>1 DEF Hit, Fresh, FreshInv, CacheFresh
    <3> QED
      BY <2>1, <3>1 DEF Hit, Return, Promise!Serve
  <2>2. ASSUME NEW l \in Lookups, NEW h \in Hosts, Miss(l, h)
        PROVE  UNCHANGED <<version, floor, served>>
    BY <2>2 DEF Miss, zone
  <2>3. ASSUME NEW l \in Walking, Finish(l) PROVE Promise!Serve(walk[l].host)
    <3>1. walk[l].ver \in floor[walk[l].host] .. version[walk[l].host]
      BY <2>3 DEF Finish, FreshInv, WalkFresh
    <3> QED
      BY <2>3, <3>1 DEF Finish, Return, Promise!Serve
  <2>4. ASSUME NEW l \in Walking, Read(l) \/ Rerun(l) \/ GiveUp(l) \/ Fail(l)
        PROVE  UNCHANGED <<version, floor, served>>
    BY <2>4 DEF Read, Rerun, GiveUp, Fail
  <2>5. ASSUME NEW D \in SUBSET Hosts, Invalidate(D) PROVE Promise!Invalidate(D)
    BY <2>5 DEF Invalidate, Promise!Invalidate
  <2>6. ASSUME NEW h \in Hosts, Publish(h) PROVE Promise!Publish(h)
    BY <2>6 DEF Publish, Promise!Publish
  <2>7. CASE Tick \/ UNCHANGED vars
    BY <2>7 DEF Tick, vars
  <2>8. \A l \in Walking : walk[l].host \in Hosts
    BY DEF TypeOK, Walk
  <2> QED
    BY <2>1, <2>2, <2>3, <2>4, <2>5, <2>6, <2>7, <2>8, CacheAssumption
       DEF Next, Step, Forget, ClearCache, Promise!Next
<1> QED
  BY TypeCorrect, NothingIsStale, <1>1, <1>2, PTL
     DEF Spec, KeepsPromise, Promise!Spec
===============================================================================
