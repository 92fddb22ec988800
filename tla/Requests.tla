-------------------------------- MODULE Requests --------------------------------
(***************************************************************************)
(* One request of any kind, from its begin to its end: an address that is  *)
(* classified and given to its handler (Router), and what the handlers of  *)
(* the namespaces do with it; a question to a zone that is answered by a   *)
(* denial, or validated up to a DS; the choice of the server that is asked, *)
(* and of the content the answer points to; a question of the web engine's *)
(* to the bridge; an archive of our own storage that is opened and read.   *)
(*                                                                         *)
(* The kinds share no state in the code, so one of them is chosen at the   *)
(* start; the locals of a request are the same two variables for all but   *)
(* the archive, which outlives its requests.                               *)
(***************************************************************************)
EXTENDS Naturals, Sequences, FiniteSets

CONSTANTS Rpcs, Gateways, MaxLookups,        \* EnsLookup, RegistryOp
          MaxRedirects,                      \* OnionHops
          Relays, Events, Limit, MaxFrames,  \* RelayUnion
          ArHosts,                           \* Arweave
          Sites, BridgeQuestions, MaxRows,   \* Bridge
          Zones, ZoneQuestions, Hash,        \* Denial
          NameServers,                       \* NsAddress
          Ids, MaxTexts, MaxLinks,           \* Pointers
          Count, PerWindow, MaxReads, MaxGC  \* OriginWarm

ASSUME RequestsAssumption ==
  /\ Rpcs \in Nat \ {0} /\ Gateways \in Nat /\ MaxLookups \in Nat
  /\ MaxRedirects \in Nat
  /\ Limit \in Nat \ {0} /\ MaxFrames \in Nat
  /\ ArHosts \in Nat \ {0}
  /\ BridgeQuestions \in Nat /\ MaxRows \in Nat \ {0}
  /\ NameServers \in Nat \ {0}
  /\ MaxTexts \in Nat /\ MaxLinks \in Nat
  /\ Count \in Nat \ {0} /\ PerWindow \in Nat \ {0, 1}
  /\ MaxReads \in Nat /\ MaxGC \in Nat

(* The names that may come up are finitely many: those of a zone, with its *)
(* apex, what is asked, and what stands above them; and no two of them     *)
(* have one hash.                                                          *)
ASSUME ZonesAssumption ==
  /\ IsFiniteSet(DOMAIN Hash) /\ DOMAIN Hash \subseteq Seq(Nat)
  /\ \A n \in DOMAIN Hash : Hash[n] \in Nat /\ \A m \in DOMAIN Hash : Hash[m] = Hash[n] => m = n
  /\ \A n \in DOMAIN Hash : \A i \in 0 .. Len(n) : SubSeq(n, 1, i) \in DOMAIN Hash
  /\ \A zone \in Zones : <<>> \in DOMAIN zone /\ DOMAIN zone \subseteq DOMAIN Hash
  /\ ZoneQuestions \subseteq DOMAIN Hash
  /\ \A n \in ZoneQuestions : \A i \in 0 .. Len(n) : Append(SubSeq(n, 1, i), 0) \in DOMAIN Hash

VARIABLES kind, given, call,
          large, root, stored, presence, reads, task, collections

request == <<given, call>>
archive == <<large, root, stored, presence, reads, task, collections>>
vars == <<kind, request, archive>>

Route == INSTANCE Router WITH given <- given, call <- call
Ens == INSTANCE EnsLookup WITH given <- given, call <- call
Registry == INSTANCE RegistryOp WITH given <- given, call <- call
Onion == INSTANCE OnionHops WITH given <- given, call <- call
Nostr == INSTANCE RelayUnion WITH given <- given, call <- call
Ar == INSTANCE Arweave WITH Hosts <- ArHosts, given <- given, call <- call
Web == INSTANCE Bridge WITH Questions <- BridgeQuestions, given <- given, call <- call
Zone == INSTANCE Denial WITH Questions <- ZoneQuestions, given <- given, call <- call
Chain == INSTANCE DnssecChain WITH given <- given, call <- call
Ns == INSTANCE NsAddress WITH given <- given, call <- call
Content == INSTANCE Pointers WITH given <- given, call <- call
Warm == INSTANCE OriginWarm
          WITH large <- large, root <- root, stored <- stored, presence <- presence,
               reads <- reads, task <- task, collections <- collections

Begins == \/ kind = "address" /\ Route!Init
          \/ kind = "ens" /\ Ens!Init
          \/ kind = "registry" /\ Registry!Init
          \/ kind = "onion" /\ Onion!Init
          \/ kind = "nostr" /\ Nostr!Init
          \/ kind = "ar" /\ Ar!Init
          \/ kind = "web" /\ Web!Init
          \/ kind = "zone" /\ Zone!Init
          \/ kind = "chain" /\ Chain!Init
          \/ kind = "server" /\ Ns!Init
          \/ kind = "pointer" /\ Content!Init

Init == \/ Begins /\ Warm!Init /\ ~large
        \/ kind = "storage" /\ Warm!Init /\ given = "none" /\ call = "none"

Step(k, A) == kind = k /\ A /\ UNCHANGED <<kind, archive>>
Stores(A) == kind = "storage" /\ A /\ UNCHANGED <<kind, request>>

(* What is fetched has timeouts, in the handlers as in the archive; but no *)
(* onion service has one, and no Arweave gateway.                          *)
Goes == \/ Step("address", Route!Next)
        \/ Step("ens", Ens!Next)
        \/ Step("registry", Registry!Next)
        \/ Step("onion", Onion!Decide)
        \/ Step("nostr", Nostr!Next)
        \/ Step("ar", Ar!Works)
        \/ Step("chain", Chain!Next)
        \/ Step("server", Ns!Next)
        \/ Step("pointer", Content!Next)
        \/ Stores(Warm!Works)

Next == \/ Goes
        \/ Step("onion", Onion!Next)
        \/ Step("ar", Ar!Next)
        \/ Step("web", Web!Next)
        \/ Step("zone", Zone!Next)
        \/ Stores(Warm!Next)

Spec == Init /\ [][Next]_vars
FairSpec == Spec /\ WF_vars(Goes)

-------------------------------------------------------------------------------
(* The properties of the kinds; each is stated, with the code that it is   *)
(* about, where its module ends.                                           *)

(* Router: every reader of a host finds the same namespace. *)
OneNamespacePerHost == kind = "address" => Route!OneNamespacePerHost

(* EnsLookup and RegistryOp, which read contracts: what a name is said to  *)
(* have is what its contract answered, but for the losses that are listed  *)
(* there: a part of a batch, a gateway's forgery, a call for the content.  *)
ContractsAreReadWhole ==
  /\ kind = "ens" => Ens!EnsPageIsDeserved
  /\ kind = "registry" => Registry!RegistryIsReadWhole

(* OnionHops and RelayUnion, which follow what they are told: redirects    *)
(* lead away from a service only by a navigation, and a relay's events     *)
(* count up to its end, and no later.                                      *)
ShownIsFetched ==
  /\ kind = "onion" => Onion!OnionStaysWithItsService
  /\ kind = "nostr" => Nostr!RelaysAreHeardOnce

(* Arweave: `verified' is said of what was signed, and a small whole body  *)
(* that is not what a verified header signs is not shown.                  *)
VerifiedIsSigned == kind = "ar" => Ar!VerifiedIsSigned

(* Bridge: an answer does not outlive a later failure. *)
EvidenceIsLatest == kind = "web" => Web!EvidenceIsLatest

(* Denial: what is proven absent is absent. *)
DenialIsTrueAbove == kind = "zone" => Zone!DenialIsTrueAbove

(* Denial: the same below delegations and aliases of whole trees. *)
DenialIsTrue == kind = "zone" => Zone!DenialIsTrue

(* Denial: what is absent can be proven absent. *)
HonestDenialIsProven == kind = "zone" => Zone!HonestDenialIsProven

(* DnssecChain: what is accepted is what the zone publishes now. *)
AcceptedIsPublished == kind = "chain" => Chain!AcceptedIsPublished

(* NsAddress: the other root's word is not taken while a server of the own *)
(* root's is left to be asked.                                             *)
OwnRootFirst == kind = "server" => Ns!OwnRootFirst

(* Pointers: the order of a name's records decides nothing. *)
OrderDecidesNothing == kind = "pointer" => Content!OrderDecidesNothing

(* OriginWarm: what is believed to be on the node is confirmed again. *)
BeliefsExpire == Warm!BeliefsExpire

(* Waiting for what may never answer: the two handlers whose fetches have  *)
(* no timeout of their own (onion-protocol.js, ar.js).                     *)
AwaitsForGood == \/ kind = "onion" /\ Onion!Waits
                 \/ kind = "ar" /\ Ar!Waits

(* Every request of a handler's ends, however endpoints and gateways fail, *)
(* redirect, or ask for another lookup, or stands still with a question to *)
(* an onion service or an Arweave gateway that does not answer; and the    *)
(* reads and warms of an archive end (OriginWarm).                         *)
EveryRequestEnds ==
  /\ <>[][FALSE]_call
  /\ <>[](kind \in {"web", "zone", "storage"} \/ call.pc = "done" \/ AwaitsForGood)
  /\ Warm!WarmsEnd
===============================================================================
