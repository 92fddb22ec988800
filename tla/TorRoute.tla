------------------------------- MODULE TorRoute -------------------------------
(***************************************************************************)
(* What a Tor client promises to those who route through it                *)
(* (namespaces/tor/src/tor.js), without saying where the client comes      *)
(* from: a SOCKS port is offered or not, it is ready or not, and whoever   *)
(* waits for it to be ready is told when the offer ends.                   *)
(*                                                                         *)
(* The end of an offer is announced in the same step (the event            *)
(* route-unavailable), and takes readiness and the waiters with it.  The   *)
(* one exception is a start() that comes back with nothing: it takes the   *)
(* offer back and says so to its own caller only.                          *)
(***************************************************************************)
EXTENDS Naturals

VARIABLES session,   \* how often the browser was started
          available, \* socksUrl() is a port
          ready,     \* isReady()
          waiting,   \* somebody holds a promise of whenReady()
          bell       \* changes with each route-unavailable

route == <<session, available, ready, waiting, bell>>

Init == session = 1 /\ ~available /\ ~ready /\ ~waiting /\ bell = FALSE

Offer == available' /\ UNCHANGED <<session, ready, waiting, bell>>

Bootstrap == available' /\ ready' /\ ~waiting' /\ UNCHANGED <<session, bell>>

Wait == /\ available /\ ~ready
        /\ waiting'
        /\ UNCHANGED <<session, available, ready, bell>>

Revoke == /\ ~available' /\ ~ready' /\ ~waiting'
          /\ bell' = IF available THEN ~bell ELSE bell
          /\ UNCHANGED session

Withdraw == ~available' /\ UNCHANGED <<session, ready, waiting, bell>>

(* The browser is gone, and a new one begins with nothing. *)
Restart == /\ session' = session + 1
           /\ ~available' /\ ~ready' /\ ~waiting' /\ bell' = FALSE

Next == Offer \/ Bootstrap \/ Wait \/ Revoke \/ Withdraw \/ Restart

Spec == Init /\ [][Next]_route
===============================================================================
