------------------------------- MODULE RelayUnion -------------------------------
(***************************************************************************)
(* A filter is sent to several Nostr relays at once, and the union of what *)
(* they answer is shown (namespaces/nostr/src/relay.js, queryRelays).      *)
(*                                                                         *)
(* A relay may send anything at any time: events that are not signed, or   *)
(* that answer another question, the same event twice, an end, and more    *)
(* after the end, an answer to our CLOSE included.                         *)
(***************************************************************************)
EXTENDS Naturals

CONSTANTS Relays,
          Events,   \* events that are signed and match the filter
          Limit,    \* of the events taken from a relay
          MaxFrames \* bound on what a relay sends

VARIABLES given, \* per relay, what it has sent: while it was asked, and late
          call   \* per relay, the locals of queryRelay; and the union

vars == <<given, call>>

None == [events |-> {}, late |-> {}, frames |-> 0]

Init ==
  /\ given = [r \in Relays |-> None]
  /\ call = [query |-> [r \in Relays |-> [pc |-> "opening", events |-> {},
                                          taken |-> 0, rejected |-> FALSE, closes |-> 0,
                                          error |-> FALSE]],
             pc |-> "asking", union |-> {}]

Query(r) == call.query[r]
Settled(r) == Query(r).pc = "done"
Become(r, q) == call' = [call EXCEPT !.query[r] = q]

Finish(q) == [q EXCEPT !.pc = "done"]
Failed(q) == [q EXCEPT !.pc = "done", !.error = TRUE]

(* The socket opens, and REQ goes out. *)
Open(r) == /\ Query(r).pc = "opening"
           /\ \E q \in {[Query(r) EXCEPT !.pc = "open"], Failed(Query(r))} : Become(r, q)
           /\ UNCHANGED given

(* A timeout, an error of the socket, or its end. *)
Lost(r) == /\ ~Settled(r)
           /\ \E q \in {Finish(Query(r)), Failed(Query(r))} : Become(r, q)
           /\ UNCHANGED given

(* An event that is signed and matches; one that is sent twice counts     *)
(* twice.                                                                  *)
Take(q, e) ==
  LET taken == [q EXCEPT !.events = @ \cup {e}, !.taken = @ + 1]
  IN IF taken.taken >= Limit THEN Finish(taken) ELSE taken

(* Once a query is finished nothing that the relay says counts. *)
Heard(r, q) == IF Query(r).pc = "open" THEN q ELSE Query(r)

Noted(r, events) ==
  [events |-> IF Settled(r) THEN given[r].events ELSE given[r].events \cup events,
   late |-> IF Settled(r) THEN given[r].late \cup events ELSE given[r].late,
   frames |-> given[r].frames + 1]

Sends(r, events, q) ==
  /\ Query(r).pc # "opening" /\ given[r].frames < MaxFrames
  /\ given' = [given EXCEPT ![r] = Noted(r, events)]
  /\ Become(r, Heard(r, q))

SendsEvent(r, e) == Sends(r, {e}, Take(Query(r), e))

(* An event that is forged, or answers another filter, is reported. *)
SendsForged(r) == Sends(r, {}, [Query(r) EXCEPT !.rejected = TRUE])

(* EOSE or CLOSED is answered by CLOSE. *)
SendsEnd(r) == Sends(r, {}, Finish([Query(r) EXCEPT !.closes = @ + 1]))

(* Promise.all: all the queries have settled. *)
Union ==
  /\ call.pc = "asking" /\ \A r \in Relays : Settled(r)
  /\ call' = [call EXCEPT !.pc = "done", !.union = UNION {Query(r).events : r \in Relays}]
  /\ UNCHANGED given

Next == \/ \E r \in Relays : \/ Open(r) \/ Lost(r) \/ SendsForged(r) \/ SendsEnd(r)
                             \/ \E e \in Events : SendsEvent(r, e)
        \/ Union

-------------------------------------------------------------------------------
(* A relay is answered at most once and counts up to its end: what is      *)
(* taken of it is each event that it sent while it was still being asked,  *)
(* no more than the limit and none that came later, after an end, a        *)
(* timeout or the last event of the limit; and what is shown is all that   *)
(* the relays sent in time.                                                *)
RelaysAreHeardOnce ==
  /\ \A r \in Relays : /\ Query(r).closes <= 1
                       /\ Query(r).closes = 1 => Settled(r)
                       /\ Query(r).events = given[r].events
                       /\ Query(r).taken <= Limit
  /\ call.pc = "done" => call.union = UNION {given[r].events : r \in Relays}
===============================================================================
