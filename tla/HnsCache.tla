------------------------------- MODULE HnsCache -------------------------------
(***************************************************************************)
(* The positive cache of the chain resolver (src/resolver.js): resolve()   *)
(* with its 60 s entries, its LRU bound and its three attempts, against    *)
(* forget() and clearCache() arriving while lookups are in flight.         *)
(*                                                                         *)
(* resolve() runs synchronously up to `await this._resolve(host)` and      *)
(* from the settling of that promise to its return, so a call is: Hit, or  *)
(* Miss (start a walk), then Read (the instant the walk saw the zone) and  *)
(* one of Finish, Rerun, GiveUp, Fail.  Everything else interleaves.       *)
(*                                                                         *)
(* cacheEpoch is only ever compared with the value a lookup read when its  *)
(* attempt began, so a lookup keeps that comparison (`current`) instead of *)
(* a number.  The order of the JavaScript Map, which decides who is        *)
(* evicted, is the relation `older` on the cached names.                   *)
(***************************************************************************)
EXTENDS Naturals, FiniteSets, Functions

CONSTANTS Hosts,      \* normalised names
          Under,      \* Under[h]: h and the names ending in "." \o h
          Lookups,    \* identities of calls to resolve()
          CacheMax,   \* cacheMax, 512 in the code
          Ttl,        \* cacheTtl, in clock ticks
          Attempts,   \* attempts of one call, 3 in the code
          MaxVersion  \* bound on how often a name changes in a behaviour

ASSUME CacheAssumption == /\ Under \in [Hosts -> SUBSET Hosts]
                          /\ \A h \in Hosts : h \in Under[h]
                          /\ CacheMax \in Nat \ {0}
                          /\ Ttl \in Nat \ {0}
                          /\ Attempts \in Nat \ {0}
                          /\ MaxVersion \in Nat

VARIABLES version,  \* the zones outside: version[h] is what h resolves to
          floor,    \* history: version[h] at the last invalidation of h
          served,   \* history: what resolve() returned last
          cache,    \* this.cache: cached name -> [ver, age]
          older,    \* <<g, h>>: g comes before h in the Map
          walk      \* calls in flight: lookup -> the locals of its attempt

zone == <<version, floor, served>>
vars == <<version, floor, served, cache, older, walk>>

Cached == DOMAIN cache
Walking == DOMAIN walk

(* answer: nothing yet, or the kind the walk came back with: one that may  *)
(* be remembered (CACHEABLE) or one that may not.                          *)
Walk == [host : Hosts, attempt : 1 .. Attempts, current : BOOLEAN,
         answer : {"pending", "cacheable", "failure"}, ver : Nat]
Entry == [ver : Nat, age : 0 .. Ttl]
NothingServed == [host |-> "", ver |-> 0]

TypeOK ==
  /\ version \in [Hosts -> Nat]
  /\ floor \in [Hosts -> Nat]
  /\ served \in [host : Hosts, ver : Nat] \cup {NothingServed}
  /\ Cached \subseteq Hosts /\ cache \in [Cached -> Entry]
  /\ older \subseteq Cached \X Cached
  /\ Walking \subseteq Lookups /\ walk \in [Walking -> Walk]

Init == /\ version = [h \in Hosts |-> 0]
        /\ floor = [h \in Hosts |-> 0]
        /\ served = NothingServed
        /\ cache = [h \in {} |-> [ver |-> 0, age |-> 0]]
        /\ older = {}
        /\ walk = [l \in {} |-> [host |-> "none"]]

-------------------------------------------------------------------------------
(* The Map: delete, set, and the name keys().next() gives. *)

Drop(c, D) == Restrict(c, DOMAIN c \ D)
DropOrder(r, D) == {p \in r : p[1] \notin D /\ p[2] \notin D}

Put(f, x, y) == [z \in DOMAIN f \cup {x} |-> IF z = x THEN y ELSE f[z]]

(* The order after Map.set(h): a new key goes last, a present one stays. *)
PutOrder(c, r, h) ==
  IF h \in DOMAIN c THEN r ELSE r \cup ((DOMAIN c) \X {h})

Oldest(c, r) == {h \in DOMAIN c : \A g \in DOMAIN c : <<g, h>> \notin r}

Fresh(h) == h \in Cached /\ cache[h].age < Ttl

(* The locals of the n-th attempt of a call, with its epoch just read. *)
Attempt(h, n) == [host |-> h, attempt |-> n, current |-> TRUE,
                  answer |-> "pending", ver |-> 0]

Return(h, v) == served' = [host |-> h, ver |-> v]

-------------------------------------------------------------------------------
(* resolve(): the synchronous part before the first await. *)

Hit(l, h) ==
  /\ l \notin Walking
  /\ Fresh(h)
  /\ older' = DropOrder(older, {h}) \cup ((Cached \ {h}) \X {h})
  /\ Return(h, cache[h].ver)
  /\ UNCHANGED <<version, floor, cache, walk>>

Miss(l, h) ==
  /\ l \notin Walking
  /\ ~Fresh(h)
  /\ cache' = Drop(cache, {h})
  /\ older' = DropOrder(older, {h})
  /\ walk' = Put(walk, l, Attempt(h, 1))
  /\ UNCHANGED zone

(* The moment inside _resolve at which the zone was seen as it then was. *)
Read(l) ==
  /\ walk[l].answer = "pending"
  /\ \E k \in {"cacheable", "failure"} :
       walk' = [walk EXCEPT ![l].answer = k,
                            ![l].ver = version[walk[l].host]]
  /\ UNCHANGED <<version, floor, served, cache, older>>

(* Slips in the retry: attempts that are not counted, and going round      *)
(* with the answer of the attempt that was overtaken.                      *)
RerunUncounted(l) ==
  /\ walk[l].answer # "pending" /\ ~walk[l].current
  /\ walk' = [walk EXCEPT ![l] = Attempt(@.host, @.attempt)]
  /\ UNCHANGED <<version, floor, served, cache, older>>

RerunKeepingAnswer(l) ==
  /\ walk[l].answer # "pending" /\ ~walk[l].current
  /\ walk[l].attempt < Attempts
  /\ walk' = [walk EXCEPT ![l].attempt = @ + 1, ![l].current = TRUE]
  /\ UNCHANGED <<version, floor, served, cache, older>>

(* The epoch moved during the attempt: the answer is discarded. *)
Rerun(l) ==
  /\ walk[l].answer # "pending"
  /\ ~walk[l].current
  /\ walk[l].attempt < Attempts
  /\ walk' = [walk EXCEPT ![l] = Attempt(@.host, @.attempt + 1)]
  /\ UNCHANGED <<version, floor, served, cache, older>>

(* `The name changed during resolution; retry the lookup.' *)
GiveUp(l) ==
  /\ walk[l].answer # "pending"
  /\ ~walk[l].current
  /\ walk[l].attempt = Attempts
  /\ walk' = Drop(walk, {l})
  /\ UNCHANGED <<version, floor, served, cache, older>>

(* _resolve threw: resolve() rejects. *)
Fail(l) ==
  /\ walk[l].answer = "pending"
  /\ walk' = Drop(walk, {l})
  /\ UNCHANGED <<version, floor, served, cache, older>>

(* The Map after room was made for one more entry: the code evicts whenever *)
(* the Map is full, also when the name it is about to set is already there. *)
Evicted == IF Cardinality(Cached) >= CacheMax THEN Oldest(cache, older) ELSE {}

Store(h, v) ==
  LET kept  == Drop(cache, Evicted)
      order == DropOrder(older, Evicted)
  IN  /\ cache' = Put(kept, h, [ver |-> v, age |-> 0])
      /\ older' = PutOrder(kept, order, h)

(* A slip: store and return without comparing the epoch. *)
FinishUnchecked(l) ==
  /\ walk[l].answer = "cacheable"
  /\ Store(walk[l].host, walk[l].ver)
  /\ Return(walk[l].host, walk[l].ver)
  /\ walk' = Drop(walk, {l})
  /\ UNCHANGED <<version, floor>>

Finish(l) ==
  LET w == walk[l] IN
  /\ w.answer # "pending"
  /\ w.current
  /\ \/ w.answer = "cacheable" /\ Store(w.host, w.ver)
     \/ w.answer = "failure" /\ UNCHANGED <<cache, older>>
  /\ Return(w.host, w.ver)
  /\ walk' = Drop(walk, {l})
  /\ UNCHANGED <<version, floor>>

-------------------------------------------------------------------------------
(* forget(h) and clearCache(): drop the names D, move the epoch. *)

Invalidate(D) ==
  /\ cache' = Drop(cache, D)
  /\ older' = DropOrder(older, D)
  /\ walk' = [l \in Walking |-> [walk[l] EXCEPT !.current = FALSE]]
  /\ floor' = [g \in Hosts |-> IF g \in D THEN version[g] ELSE floor[g]]
  /\ UNCHANGED <<version, served>>

Forget(h) == Invalidate(Under[h])
ClearCache == Invalidate(Hosts)

-------------------------------------------------------------------------------
(* The world: a publish moves a name and all below it; time passes. *)

Publish(h) ==
  /\ \A g \in Under[h] : version[g] < MaxVersion
  /\ version' = [g \in Hosts |-> IF g \in Under[h] THEN version[g] + 1
                                                   ELSE version[g]]
  /\ UNCHANGED <<floor, served, cache, older, walk>>

Tick ==
  /\ \E h \in Cached : cache[h].age < Ttl
  /\ cache' = [h \in Cached |->
                 [cache[h] EXCEPT !.age = IF @ < Ttl THEN @ + 1 ELSE Ttl]]
  /\ UNCHANGED <<version, floor, served, older, walk>>

Step(l) == Read(l) \/ Rerun(l) \/ GiveUp(l) \/ Fail(l) \/ Finish(l)

Next == \/ \E l \in Lookups, h \in Hosts : Hit(l, h) \/ Miss(l, h)
        \/ \E l \in Walking : Step(l)
        \/ \E h \in Hosts : Forget(h) \/ Publish(h)
        \/ ClearCache
        \/ Tick

Spec == Init /\ [][Next]_vars

(* Every query of a walk has a timeout (HNSResolver.timeout), so a walk    *)
(* settles; the code after it runs as soon as its promise does.            *)
FairSpec == Spec /\ \A l \in Lookups : WF_vars(l \in Walking /\ Step(l))

-------------------------------------------------------------------------------
(* The Map never grows past cacheMax, however lookups interleave: each     *)
(* store by resolve() evicts before it inserts, and no other code inserts. *)
CacheBounded == Cardinality(Cached) <= CacheMax

(* Nothing read before the last forget()/clearCache() covering a name is   *)
(* in the cache: the invalidation dropped what was there, and the epoch    *)
(* keeps every lookup that was in flight from putting it back.             *)
NothingPreForget == \A h \in Cached : cache[h].ver >= floor[h]

(* A lookup that is about to return (its epoch has not moved) holds an     *)
(* answer read after the last invalidation of its name, also when the      *)
(* invalidation named an ancestor.                                         *)
WalksOutliveNoForget ==
  \A l \in Walking : (walk[l].answer # "pending" /\ walk[l].current)
                       => walk[l].ver >= floor[walk[l].host]

(* A call ends, also under an endless stream of forget() calls: the third  *)
(* attempt that an invalidation overtakes throws instead of going round.   *)
EveryLookupEnds == \A l \in Lookups : (l \in Walking) ~> (l \notin Walking)

(* resolve() keeps the promise of FreshNames. *)
Promise == INSTANCE FreshNames
             WITH Hosts <- Hosts, Under <- Under,
                  version <- version, floor <- floor, served <- served
KeepsPromise == Promise!Spec
===============================================================================
