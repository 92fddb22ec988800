------------------------------- MODULE OnionHops -------------------------------
(***************************************************************************)
(* One request of an onion:// address                                      *)
(* (namespaces/tor/src/onion-protocol.js): refused, or answered by an      *)
(* interstitial, or fetched through Tor with the redirects of the service  *)
(* followed as long as they stay with it.                                  *)
(*                                                                         *)
(* Protection is asked for once; it may be switched off at any time.  A    *)
(* GET goes out in the same turn, a POST after its body was read, and a    *)
(* redirect is followed when the answer comes.  No answer has a timeout.   *)
(***************************************************************************)
EXTENDS Naturals

CONSTANT MaxRedirects \* 5 in the code

VARIABLES given, \* the request, and whether protection is on
          call   \* the locals of the handler; history of what was sent

vars == <<given, call>>

(* Where a Location header leads from what was just fetched, whose host    *)
(* and port are the service's own; "none": no address can be made of it.   *)
Locations == [scheme : {"http", "https", "other", "none"},
              host : {"own", "another", "clearnet"}, port : {"own", "another"}]

Init ==
  /\ given \in [host : {"valid", "mistyped", "no onion"}, on : BOOLEAN,
                method : {"GET", "HEAD", "POST"}]
  /\ call = [pc |-> "begin", hop |-> 0, method |-> "none", body |-> FALSE,
             target |-> "none", sent |-> 0, let |-> FALSE, clear |-> FALSE,
             page |-> "none"]

Become(c) == call' = c /\ UNCHANGED given
Page(p) == [call EXCEPT !.pc = "done", !.page = p]

(* clear: history, a request went out while protection was off. *)
Sent(c) == [c EXCEPT !.pc = "wait", !.sent = @ + 1, !.clear = @ \/ ~given.on]

(* decideOnionRoute, after the address itself. *)
Let == [call EXCEPT !.method = given.method, !.target = "service", !.let = TRUE]

Decide ==
  /\ call.pc = "begin"
  /\ Become(IF given.host # "valid" THEN Page("refused")
            ELSE IF ~given.on THEN Page("interstitial")
            ELSE IF given.method = "POST" THEN [Let EXCEPT !.pc = "body", !.body = TRUE]
            ELSE Sent(Let))

(* The body of the request is read, the request goes out. *)
Fetch == call.pc = "body" /\ Become(Sent(call))

Fails == call.pc \in {"body", "wait"} /\ Become(Page("unreachable"))

(* Not a redirect: the bytes of the target are the page. *)
Serves == call.pc = "wait" /\ Become(Page("served"))

(* A slip: a redirect to another port of the host is followed. *)
ClassifyByHost(l) ==
  IF l.scheme = "none" THEN "invalid"
  ELSE IF l.scheme = "other" \/ l.host = "clearnet" THEN "off-tor"
  ELSE IF l.scheme = "https" THEN "unsupported-transport"
  ELSE IF l.host = "own" THEN "same-service"
  ELSE "other-onion"

(* classifyOnionRedirect *)
Classify(l) ==
  IF l.scheme = "none" THEN "invalid"
  ELSE IF l.scheme = "other" \/ l.host = "clearnet" THEN "off-tor"
  ELSE IF l.scheme = "https" THEN "unsupported-transport"
  ELSE IF l.host = "own" /\ l.port = "own" THEN "same-service"
  ELSE "other-onion"

(* Whose bytes are at an address. *)
Owner(l) == IF l.scheme = "http" /\ l.host = "own" /\ l.port = "own"
            THEN "service" ELSE "elsewhere"

(* RFC 9110: 307 and 308 keep the method, the others go on with a GET if   *)
(* the request had a body.                                                 *)
Followed(l, keeps) ==
  LET kept == keeps \/ call.method \in {"GET", "HEAD"}
  IN Sent([call EXCEPT !.hop = @ + 1, !.target = Owner(l),
                       !.method = IF kept THEN @ ELSE "GET",
                       !.body = @ /\ kept])

(* Another onion is navigated to, under its own origin. *)
Redirected(l, keeps) ==
  /\ call.pc = "wait"
  /\ Become(CASE Classify(l) = "unsupported-transport" -> Page("tls refused")
              [] Classify(l) = "same-service" /\ call.hop < MaxRedirects -> Followed(l, keeps)
              [] Classify(l) = "same-service" /\ call.hop >= MaxRedirects -> Page("too many")
              [] Classify(l) = "other-onion" -> Page("navigate")
              [] Classify(l) \in {"off-tor", "invalid"} -> Page("told"))

SwitchOff == /\ given.on /\ call.pc # "done"
             /\ given' = [given EXCEPT !.on = FALSE]
             /\ UNCHANGED call

Next == \/ Decide \/ Fetch \/ Fails \/ Serves \/ SwitchOff
        \/ \E l \in Locations, keeps \in BOOLEAN : Redirected(l, keeps)

(* What the upload of the page or the service owes has no timeout. *)
Waits == call.pc \in {"body", "wait"}

-------------------------------------------------------------------------------
(* However the service redirects, the bytes on show under its origin are   *)
(* those of its own host and port, after a bounded number of requests, and *)
(* a POST carries its body and nothing else does, also after redirects     *)
(* that change the method.  Nothing is sent for an address that cannot     *)
(* exist, nor without protection having been asked for; the first request  *)
(* of a GET or a HEAD goes out under it.  The exceptions, which the README *)
(* reports (R5 of namespaces/tor/SPEC.md allows none): a POST whose body   *)
(* is read while protection is switched off, and redirects after that.     *)
OnionStaysWithItsService ==
  /\ call.page = "served" => call.target = "service"
  /\ call.sent <= MaxRedirects + 1
  /\ call.sent > 0 =>
       /\ given.host = "valid" /\ call.let
       /\ call.body <=> call.method = "POST"
       /\ call.method = given.method \/ <<given.method, call.method>> = <<"POST", "GET">>
  /\ call.clear => call.sent > 1 \/ given.method = "POST"
===============================================================================
