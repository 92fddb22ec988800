--------------------------------- MODULE Router ---------------------------------
(***************************************************************************)
(* Which namespace an address belongs to, and the one handler that it is   *)
(* given to (src/router.js, src/classify-host.cjs).  The question is asked *)
(* in three places: of what is typed, of a link on its way to be loaded    *)
(* (src/hns-host.js), and of a WebSocket by a script that has no modules   *)
(* (namespaces/apps/src/ws-proxy-pac.js).                                  *)
(*                                                                         *)
(* A host is how many labels it has and what the last one is: a top-level  *)
(* domain of ICANN or not, digits, digits with the `_' that stands for     *)
(* them in a URL, or one that another namespace has.                       *)
(***************************************************************************)
EXTENDS Naturals

VARIABLES given, \* what is asked, and the switch for names of digits
          call   \* the locals of the request

vars == <<given, call>>

(* SCHEME_TABLE, a scheme or two of each kind. *)
SchemeTable ==
  [hns |-> "hns", ipfs |-> "ipfs", ar |-> "arweave", ens |-> "ens",
   nostr |-> "nostr", onion |-> "tor", activitypub |-> "activitypub",
   https |-> "web", http |-> "web", search |-> "search"]

Schemes == DOMAIN SchemeTable \cup {"unknown"}
NamespaceOf(scheme) == IF scheme \in DOMAIN SchemeTable THEN SchemeTable[scheme] ELSE "none"

Tlds == {"icann", "other", "digits", "marked", "eth", "onion", "reserved", "address"}
Hosts == [labels : {1, 2}, tld : Tlds]

(* What may be typed: a scheme, `@user@host', another `@', an identifier   *)
(* that decodes, a content address, words, or a host.                      *)
Forms == {"nothing", "scheme", "handle", "at sign", "identifier", "cid",
          "ipfs path", "localhost", "words", "host"}

Init ==
  /\ given \in [form : Forms, scheme : Schemes, host : Hosts, digits : BOOLEAN,
                handlers : {DOMAIN SchemeTable, {"hns", "https"}}]
  /\ given.form # "scheme" => given.scheme = "unknown"
  /\ given.form # "host" => given.host = [labels |-> 1, tld |-> "other"]
  /\ call = [pc |-> "classify", scheme |-> "none", status |-> 0, tag |-> "none"]

-------------------------------------------------------------------------------
(* isReservedHost, which `onion' is one of *)
IsReserved(h) == h.tld \in {"reserved", "onion"}

(* A slip: the reserved names are not looked up. *)
HostNamespaceOfAny(h) ==
  CASE h.tld = "onion" /\ h.labels > 1 -> "tor"
    [] h.tld = "eth" /\ h.labels > 1 -> "ens"
    [] h.tld = "address" -> "web"
    [] h.labels = 1 -> "single"
    [] h.tld = "digits" -> IF given.digits THEN "hns" ELSE "web"
    [] h.tld = "icann" -> "icann"
    [] OTHER -> "hns"

(* classifyHost *)
HostNamespace(h) ==
  CASE h.tld = "onion" /\ h.labels > 1 -> "tor"
    [] h.tld = "eth" /\ h.labels > 1 -> "ens"
    [] h.tld \in {"reserved", "address"} \/ (h.tld = "onion" /\ h.labels = 1) -> "web"
    [] h.labels = 1 /\ h.tld # "address" /\ ~IsReserved(h) -> "single"
    [] h.tld = "digits" /\ h.labels > 1 -> IF given.digits THEN "hns" ELSE "web"
    [] h.tld = "icann" /\ h.labels > 1 -> "icann"
    [] h.tld \in {"other", "marked"} /\ h.labels > 1 -> "hns"

(* A single label is a name, but for a top-level domain. *)
SingleScheme(h) ==
  IF h.tld = "icann" \/ (h.tld = "digits" /\ ~given.digits) THEN "search" ELSE "hns"

HostScheme(h) ==
  CASE HostNamespace(h) = "tor" -> "onion"
    [] HostNamespace(h) = "ens" -> "ens"
    [] HostNamespace(h) = "hns" -> "hns"
    [] HostNamespace(h) = "icann" -> "https"
    [] HostNamespace(h) = "web" -> IF IsReserved(h) THEN "http" ELSE "https"
    [] HostNamespace(h) = "single" -> SingleScheme(h)

(* classify: a scheme that is there decides. *)
Typed ==
  CASE given.form = "scheme" -> given.scheme
    [] given.form = "handle" -> "activitypub"
    [] given.form = "identifier" -> "nostr"
    [] given.form \in {"cid", "ipfs path"} -> "ipfs"
    [] given.form = "localhost" -> "http"
    [] given.form \in {"nothing", "at sign", "words"} -> "search"
    [] given.form = "host" -> HostScheme(given.host)

(* encodeHnsHost and decodeHnsHost: digits gain a `_' in a URL. *)
Encoded(h) == IF h.tld = "digits" THEN [h EXCEPT !.tld = "marked"] ELSE h
Decoded(h) == IF h.tld = "marked" THEN [h EXCEPT !.tld = "digits"] ELSE h

(* The host of a URL: digits are an address to the URL parser, or refused. *)
UrlHost(h) == IF h.tld = "digits" THEN [h EXCEPT !.tld = "address"] ELSE h

(* rewriteToHns, and isHnsHost in it: a link to h goes to this scheme, or  *)
(* is loaded as it is.                                                     *)
LinkScheme(h) ==
  CASE HostNamespace(h) = "ens" -> "ens"
    [] HostNamespace(h) = "tor" -> "onion"
    [] HostNamespace(h) \in {"hns", "single"} -> "hns"
    [] OTHER -> "as it is"

(* _isHns, the copy of the rule in the script. *)
ThroughProxy(h) ==
  /\ h.tld # "address" /\ ~IsReserved(h)
  /\ IF h.tld = "digits" THEN given.digits
     ELSE h.labels < 2 \/ h.tld \notin {"eth", "icann"}

-------------------------------------------------------------------------------
Classify ==
  /\ call.pc = "classify"
  /\ call' = [call EXCEPT !.pc = "dispatch", !.scheme = Typed]
  /\ UNCHANGED given

(* dispatch: no handler, or one that throws, is the failure of that scheme *)
(* and nobody else's.                                                      *)
Dispatch ==
  /\ call.pc = "dispatch"
  /\ \E status \in IF call.scheme \in given.handlers THEN {200, 502} ELSE {501} :
       call' = [call EXCEPT !.pc = "done", !.status = status,
                            !.tag = NamespaceOf(call.scheme)]
  /\ UNCHANGED given

Next == Classify \/ Dispatch

-------------------------------------------------------------------------------
(* Whoever asks, a host belongs to one namespace: a link goes where the    *)
(* same host goes when it is typed, but for a single label that is a       *)
(* top-level domain; a WebSocket goes to the proxy of Handshake exactly if *)
(* a link goes to Handshake; and the name a handler decodes is the name    *)
(* that was typed.                                                         *)
OneNamespacePerHost ==
  LET h == given.host
      inUrl == IF Typed = "hns" THEN Encoded(h) ELSE UrlHost(h)
  IN given.form = "host" =>
       /\ inUrl.labels > 1 \/ h.tld # "icann"
            => LinkScheme(inUrl) = IF Typed \in {"hns", "ens", "onion"} THEN Typed
                                   ELSE "as it is"
       /\ ThroughProxy(inUrl) <=> LinkScheme(inUrl) = "hns"
       /\ Typed = "hns" /\ h.tld # "marked" => Decoded(inUrl) = h
       /\ h.tld \in {"onion", "reserved"} => Typed # "hns"
===============================================================================
