------------------------------ MODULE FreshNames ------------------------------
(***************************************************************************)
(* What HNSResolver.resolve() promises its callers about freshness, with   *)
(* no cache, no epoch and no retry in sight (SPEC.md 6.8): a lookup is     *)
(* served a state of the name that was current at some moment since the    *)
(* last invalidation that covers the name, never an older one.             *)
(***************************************************************************)
EXTENDS Naturals

CONSTANTS Hosts,    \* the names that may be looked up
          Under     \* Under[h]: h and every name below it

VARIABLES version,  \* version[h]: how often what h resolves to has changed
          floor,    \* floor[h]: version[h] at the last invalidation of h
          served    \* what the last call to return an answer returned

promise == <<version, floor, served>>

Init == /\ version = [h \in Hosts |-> 0]
        /\ floor = [h \in Hosts |-> 0]
        /\ served = [host |-> "", ver |-> 0]

(* The owner of h publishes: h and everything that resolves through it moves. *)
Publish(h) ==
  /\ version' = [g \in Hosts |-> IF g \in Under[h] THEN version[g] + 1
                                                   ELSE version[g]]
  /\ UNCHANGED <<floor, served>>

(* forget() or clearCache(): from here on nothing older may be served. *)
Invalidate(D) ==
  /\ floor' = [g \in Hosts |-> IF g \in D THEN version[g] ELSE floor[g]]
  /\ UNCHANGED <<version, served>>

(* A call returns a state of h no older than h's last invalidation. *)
Serve(h) ==
  /\ \E v \in floor[h] .. version[h] : served' = [host |-> h, ver |-> v]
  /\ UNCHANGED <<version, floor>>

Next == \/ \E h \in Hosts : Publish(h)
        \/ \E D \in SUBSET Hosts : Invalidate(D)
        \/ \E h \in Hosts : Serve(h)

Spec == Init /\ [][Next]_promise
===============================================================================
