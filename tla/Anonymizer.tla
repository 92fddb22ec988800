------------------------------ MODULE Anonymizer ------------------------------
(***************************************************************************)
(* IP Protection (namespaces/tor/src/anonymize.js): the controller that    *)
(* points every browser session at Tor, at nothing, or at the network.     *)
(*                                                                         *)
(* What makes it hard is that a switch is not one step.  setMode() awaits  *)
(* tor.start() and then one setProxy() per session, and during each await  *)
(* the user may switch again, and the Tor client may bootstrap or die.     *)
(*                                                                         *)
(* _applyRules() is a pass over the sessions in order.  Passes overlap; a  *)
(* session carries out its setProxy() calls in the order it was given them *)
(* (one message pipe per session), so a later pass never overtakes an      *)
(* earlier one, and they finish in the order they began.                   *)
(*                                                                         *)
(* _switchSeq is only compared with the value a call took at its start:    *)
(* `current` in a pass, and `starting` and `awaiting` for the one call     *)
(* that may still act (a superseded one only returns), are that comparison.*)
(***************************************************************************)
EXTENDS Naturals, Sequences

CONSTANTS Sessions,   \* how many browser sessions the controller owns
          FailClosed, \* the failClosed option (the browser passes TRUE)
          MaxPasses   \* bound: the client is not revoked again while this
                      \* many passes are in flight

ASSUME AnonymizerAssumption == /\ Sessions \in Nat \ {0}
                               /\ FailClosed \in BOOLEAN
                               /\ MaxPasses \in Nat \ {0}

VARIABLES available,      \* TorNode: a SOCKS port is offered
          ready,          \* TorNode: bootstrapped
          mode,           \* this.mode
          status,         \* this.status, by the note it carries
          transitioning,  \* this._transitioning
          starting,       \* the latest setMode('tor') awaits tor.start()
          awaiting,       \* its whenReady() promise, once it has routed
          passes,         \* the _applyRules() loops in flight, oldest first
          proxy           \* Electron: the proxy each session uses

tor == <<available, ready>>
net == <<passes, proxy>>
controller == <<mode, status, transitioning, starting, awaiting>>
anonymizerVars == <<tor, controller, net>>

Session == 1 .. Sessions
Rules == {"direct", "tor", "blackhole"}
Pass == [rules : Rules, at : 1 .. Sessions + 1,
         current : BOOLEAN, leaving : BOOLEAN]

AnonymizerTypeOK ==
  /\ available \in BOOLEAN /\ ready \in BOOLEAN
  /\ mode \in {"off", "tor", "blocked"}
  /\ status \in {"off", "connecting", "on", "blocked"}
  /\ transitioning \in BOOLEAN /\ starting \in BOOLEAN
  /\ awaiting \in {"none", "pending", "ready", "failed"}
  /\ passes \in Seq(Pass)
  /\ proxy \in [Session -> Rules]

AnonymizerInit ==
  /\ available = FALSE /\ ready = FALSE
  /\ mode = "off" /\ status = "off"
  /\ transitioning = FALSE /\ starting = FALSE /\ awaiting = "none"
  /\ passes = <<>>
  /\ proxy = [s \in Session |-> "direct"]

(* What the gates read. *)
IsOn == mode # "off"
TorSocks == ~transitioning /\ mode = "tor"

-------------------------------------------------------------------------------
(* leaving: started by DeliveryMode.set('fast'), which waits for it. *)
NewPass(r, leaving) ==
  [rules |-> r, at |-> 1, current |-> TRUE, leaving |-> leaving]

(* ++_switchSeq, for the passes in flight. *)
Superseded == [i \in DOMAIN passes |-> [passes[i] EXCEPT !.current = FALSE]]

(* setMode('off'), and an unknown mode: the gate first, then the proxy. *)
SetOff(leaving) ==
  /\ mode' = "off"
  /\ transitioning' = FALSE
  /\ starting' = FALSE
  /\ awaiting' = "none"
  /\ passes' = Append(Superseded, NewPass("direct", leaving))
  /\ UNCHANGED <<tor, status, proxy>>

(* setMode('tor') up to `await this.tor.start()'. *)
SetTor ==
  /\ transitioning' = TRUE
  /\ starting' = TRUE
  /\ awaiting' = "none"
  /\ passes' = Superseded
  /\ UNCHANGED <<tor, mode, status, proxy>>

(* A slip: announced before it is routed. *)
StartReturnsAnnounced ==
  /\ starting
  /\ available' = TRUE
  /\ ready' \in {ready, TRUE}
  /\ starting' = FALSE
  /\ mode' = "tor"
  /\ passes' = Append(passes, NewPass("tor", FALSE))
  /\ UNCHANGED <<status, transitioning, awaiting, proxy>>

(* start() returned 'ready' or 'connecting': route now, announce after. *)
StartReturns ==
  /\ starting
  /\ available' = TRUE
  /\ ready' \in {ready, TRUE}
  /\ starting' = FALSE
  /\ passes' = Append(passes, NewPass("tor", FALSE))
  /\ UNCHANGED <<mode, status, transitioning, awaiting, proxy>>

(* _cannotRoute() up to its await, with the passes ps in flight. *)
CannotRoute(ps) ==
  /\ transitioning' = FALSE
  /\ mode' = IF FailClosed THEN "blocked" ELSE "off"
  /\ passes' = Append(ps, NewPass(IF FailClosed THEN "blackhole" ELSE "direct",
                                  FALSE))
  /\ UNCHANGED <<status, proxy>>

(* start() returned 'unavailable'. *)
StartUnavailable ==
  /\ starting
  /\ ~available
  /\ ~ready
  /\ starting' = FALSE
  /\ CannotRoute(passes)
  /\ UNCHANGED <<tor, awaiting>>

-------------------------------------------------------------------------------
(* _applyRules(): the next session of pass i gets its rules and loses the   *)
(* connections it had.                                                      *)
Route(i) ==
  LET s == passes[i].at IN
  /\ s \in Session
  /\ i > 1 => s < passes[i - 1].at
  /\ proxy' = [proxy EXCEPT ![s] = passes[i].rules]
  /\ passes' = [passes EXCEPT ![i].at = s + 1]
  /\ UNCHANGED <<tor, controller>>

(* What follows `await this._applyRules(torSocks)' in setMode('tor'). *)
Announce ==
  /\ mode' = "tor"
  /\ transitioning' = FALSE
  /\ status' = IF ready THEN "on" ELSE "connecting"
  /\ awaiting' = IF ready THEN "none"
                 ELSE IF available THEN "pending" ELSE "failed"

(* A slip: no sequence check after the await. *)
SettleUnchecked ==
  /\ passes # <<>>
  /\ Head(passes).at > Sessions
  /\ passes' = Tail(passes)
  /\ \/ Head(passes).rules = "tor" /\ Announce
     \/ /\ Head(passes).rules # "tor"
        /\ status' = IF Head(passes).rules = "direct" THEN "off" ELSE "blocked"
        /\ UNCHANGED <<mode, transitioning, awaiting>>
  /\ UNCHANGED <<tor, starting, proxy>>

(* The oldest pass has reached every session: its caller goes on. *)
Settle ==
  /\ passes # <<>>
  /\ Head(passes).at > Sessions
  /\ passes' = Tail(passes)
  /\ \/ Head(passes).rules = "tor" /\ Head(passes).current /\ Announce
     \/ /\ Head(passes).rules = "tor" /\ ~Head(passes).current
        /\ UNCHANGED <<mode, transitioning, status, awaiting>>
     \/ /\ Head(passes).rules # "tor"
        /\ status' = IF Head(passes).rules = "direct" THEN "off" ELSE "blocked"
        /\ UNCHANGED <<mode, transitioning, awaiting>>
  /\ UNCHANGED <<tor, starting, proxy>>

(* _awaitReady(): the promise whenReady() gave has settled. *)
AwaitReady ==
  /\ awaiting = "ready"
  /\ awaiting' = "none"
  /\ status' = "on"
  /\ UNCHANGED <<tor, mode, transitioning, starting, net>>

(* A slip: the failed promise is only dropped. *)
AwaitFailedSilently ==
  /\ awaiting = "failed"
  /\ awaiting' = "none"
  /\ UNCHANGED <<tor, mode, status, transitioning, starting, net>>

AwaitFailed ==
  /\ awaiting = "failed"
  /\ awaiting' = "none"
  /\ CannotRoute(passes)
  /\ UNCHANGED <<tor, starting>>

-------------------------------------------------------------------------------
(* The Tor client, as the controller sees it. *)

(* A respawn, or a start() nobody waits for any more, offers a port again. *)
Offer ==
  /\ ~available
  /\ available' = TRUE
  /\ UNCHANGED <<ready, controller, net>>

(* `Bootstrapped 100%', also when it comes after the client was given up. *)
Bootstrap ==
  /\ ~ready
  /\ available' = TRUE
  /\ ready' = TRUE
  /\ awaiting' = IF awaiting = "pending" THEN "ready" ELSE awaiting
  /\ UNCHANGED <<mode, status, transitioning, starting, net>>

(* _routeUnavailable(): the client died, timed out or was stopped.  The     *)
(* controller's listener acts only while protection is on.                  *)
RevokeUnheard ==
  /\ available
  /\ mode = "off"
  /\ available' = FALSE /\ ready' = FALSE
  /\ awaiting' = IF awaiting = "pending" THEN "failed" ELSE awaiting
  /\ UNCHANGED <<mode, status, transitioning, starting, net>>

RevokeHeard ==
  /\ available
  /\ Len(passes) < MaxPasses
  /\ mode # "off"
  /\ available' = FALSE /\ ready' = FALSE
  /\ starting' = FALSE
  /\ awaiting' = "none"
  /\ CannotRoute(Superseded)

Client == Offer \/ Bootstrap \/ RevokeUnheard \/ RevokeHeard

(* Everything but the user's requests and the end of a pass. *)
Background ==
  \/ StartReturns \/ StartUnavailable
  \/ AwaitReady \/ AwaitFailed
  \/ \E i \in DOMAIN passes : Route(i)
  \/ Client

-------------------------------------------------------------------------------
(* Once the mode says tor, every session is on Tor: no superseded pass can *)
(* still send one elsewhere, whatever the order switches came in.          *)
TorMeansRouted == mode = "tor" => \A s \in Session : proxy[s] = "tor"

(* While protection is in force a session that is still direct is one the  *)
(* blackhole pass has yet to reach; there is no other way to be direct.    *)
DirectOnlyUntilBlocked ==
  IsOn => \A s \in Session :
            proxy[s] = "direct" =>
              \E i \in DOMAIN passes :
                passes[i].rules = "blackhole" /\ passes[i].at <= s

(* When nothing is in flight, the proxies, the mode and the status the     *)
(* user reads say the same thing.                                          *)
AtRest == passes = <<>> /\ ~starting /\ awaiting \in {"none", "pending"}

RestIsConsistent ==
  AtRest =>
    /\ ~transitioning
    /\ \/ mode = "off" /\ status = "off" /\ \A s \in Session : proxy[s] = "direct"
       \/ mode = "blocked" /\ status = "blocked"
          /\ \A s \in Session : proxy[s] = "blackhole"
       \/ mode = "tor" /\ status = (IF ready THEN "on" ELSE "connecting")
          /\ \A s \in Session : proxy[s] = "tor"

(* SPEC.md R19 of the tor namespace: `isOn() means the session's requests  *)
(* are covered, and it becomes true only after the proxy has been applied'.*)
OnMeansCovered == IsOn => \A s \in Session : proxy[s] # "direct"
===============================================================================
