------------------------------- MODULE EnsLookup -------------------------------
(***************************************************************************)
(* One request of an ens:// address (namespaces/ens/src/ens-protocol.js):  *)
(* a call of the Universal Resolver through a list of RPC endpoints, the   *)
(* off-chain lookups that it asks for (ccip-read.js), and the page.        *)
(*                                                                         *)
(* An endpoint that answers is believed, so an answer is the contract's;   *)
(* it may be lost at every endpoint and gateway, and what a gateway hands  *)
(* over is taken by the contract only if it is genuine.                    *)
(***************************************************************************)
EXTENDS Naturals

CONSTANTS Rpcs,      \* endpoints
          Gateways,  \* gateways a lookup names
          MaxLookups \* off-chain lookups that are followed, 4 in the code

VARIABLES given, \* the name, and what the contract does for it
          call   \* the locals of the request; history: what the contract was not given

vars == <<given, call>>

(* What a name has: UR_ERRORS and decodeContenthash make these of a reply. *)
Answers == {"content", "unsupported", "no-content", "no-resolver"}

(* The contract asks for so many lookups before it answers, by gateways or *)
(* by a batch; in its own name or in another's; a batch may be too large.  *)
Init ==
  /\ given \in [valid : BOOLEAN, answer : Answers, lookups : 0 .. MaxLookups + 1,
                via : {"gateways", "batch", "large batch"}, own : BOOLEAN,
                wired : BOOLEAN, texts : SUBSET {"url", "avatar"}]
  /\ given.lookups = 0 => given.via = "gateways" /\ given.own
  /\ call = [pc |-> "begin", round |-> 0, at |-> 1, kind |-> "none",
             lost |-> {}, page |-> 0, texts |-> {}]

Found(kind) == [call EXCEPT !.pc = "page", !.kind = kind]
Unreachable == Found("unreachable")
Become(c) == call' = c /\ UNCHANGED given

(* The name is normalised, or cannot be. *)
Resolve ==
  /\ call.pc = "begin"
  /\ Become(IF given.valid THEN [call EXCEPT !.pc = "rpc"] ELSE Found("invalid-name"))

(* Another round of ccipCall, with the answers of a lookup. *)
NextRound(c) == [c EXCEPT !.pc = "rpc", !.round = @ + 1, !.at = 1]

(* ethCall: an endpoint is down, late, or in error without revert data. *)
RpcFails ==
  /\ call.pc = "rpc"
  /\ Become(IF call.at < Rpcs THEN [call EXCEPT !.at = @ + 1] ELSE Unreachable)

(* The result is not of the declared shape. *)
RpcGarbles == call.pc = "rpc" /\ Become(Unreachable)

(* An OffchainLookup is followed so many times, and for the contract that  *)
(* was called only.                                                        *)
MayFollow == call.round < MaxLookups /\ given.own

(* A slip: the lookups are not counted. *)
FollowUncounted ==
  IF ~given.own THEN Unreachable
  ELSE IF call.round = MaxLookups THEN [call EXCEPT !.pc = "gateway", !.at = 1, !.round = 0]
  ELSE [call EXCEPT !.pc = "gateway", !.at = 1]

Follow == IF MayFollow THEN [call EXCEPT !.pc = "gateway", !.at = 1] ELSE Unreachable

(* The contract itself ends a call that was given the failures of a batch,  *)
(* or anything that is not genuine: it reverts, and that is an answer.     *)
Final == IF call.lost # {} THEN "no-content" ELSE given.answer

RpcAnswers ==
  /\ call.pc = "rpc"
  /\ Become(IF call.round < given.lookups THEN Follow ELSE Found(Final))

(* A slip: a lookup that got no answer is passed on without one. *)
NoGatewayEmpty == [NextRound(call) EXCEPT !.pc = "page", !.kind = "no-content"]

NoGateway == Unreachable

(* askGateway: the next one after a 5xx, a timeout or an answer without    *)
(* data; none after a refusal or an address that is not safe.              *)
GatewayFails ==
  /\ call.pc = "gateway" /\ given.via = "gateways"
  /\ Become(IF call.at < Gateways THEN [call EXCEPT !.at = @ + 1] ELSE NoGateway)

GatewayRefuses == call.pc = "gateway" /\ given.via = "gateways" /\ Become(Unreachable)

(* What is not genuine makes the contract revert: it has no answer then. *)
GatewayAnswers(genuine) ==
  /\ call.pc = "gateway" /\ given.via = "gateways" /\ Gateways > 0
  /\ Become(NextRound([call EXCEPT !.lost = IF genuine THEN @ ELSE @ \cup {"forged"}]))

(* batchLocally: a part that no gateway answered is marked in the array,   *)
(* which goes to the contract all the same; a part may be made up, too.    *)
BatchAsked ==
  /\ call.pc = "gateway" /\ given.via # "gateways"
  /\ IF given.via = "large batch" THEN Become(Unreachable)
     ELSE \E lost \in SUBSET {"part", "forged"} :
            Become(NextRound([call EXCEPT !.lost = @ \cup lost]))

(* A name without a website has its text records read, each by a call of   *)
(* its own; a key that is lost or empty is absent.                         *)
TextRecords ==
  /\ call.pc = "page" /\ call.kind = "no-content"
  /\ \E read \in SUBSET given.texts :
       Become([call EXCEPT !.pc = "done", !.page = 404, !.texts = read])

(* handler(): the pages. Content goes to the handler of its network. *)
StatusOf(kind) ==
  CASE kind = "invalid-name" -> 400
    [] kind = "unreachable" -> 502
    [] kind = "no-resolver" -> 404
    [] kind = "unsupported" -> 501
    [] OTHER -> IF given.wired THEN 200 ELSE 501

Render ==
  /\ call.pc = "page" /\ call.kind # "no-content"
  /\ Become([call EXCEPT !.pc = "done", !.page = StatusOf(call.kind)])

Next == Resolve \/ RpcFails \/ RpcGarbles \/ RpcAnswers
          \/ GatewayFails \/ GatewayRefuses \/ BatchAsked \/ TextRecords \/ Render
          \/ \E genuine \in BOOLEAN : GatewayAnswers(genuine)

-------------------------------------------------------------------------------
(* What a page says of a name is what the contract answered: an endpoint   *)
(* that was lost, the gateways of a lookup all lost, a lookup that went on *)
(* for too long or in the name of another contract says nothing of it.     *)
(* The exceptions, each of which ends as a name without content:           *)
(*  - a gateway that hands over what is not genuine, so that the contract  *)
(*    reverts;                                                             *)
(*  - a batch of which a part got no answer: the contract is told so, and  *)
(*    its revert is the answer (ccip-read.js, batchLocally), although a    *)
(*    gateway that did not answer is to be reported as unreachable         *)
(*    (ens-protocol.js, before resolve); the README reports it.            *)
EnsPageIsDeserved ==
  call.pc = "done" /\ call.page \notin {400, 502} =>
    /\ given.valid /\ given.lookups <= MaxLookups
    /\ given.lookups > 0 => given.own
    /\ call.kind # given.answer =>
         /\ call.kind = "no-content"
         /\ "forged" \in call.lost \/ ("part" \in call.lost /\ given.via = "batch")
===============================================================================
