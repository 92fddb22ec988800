------------------------------- MODULE RegistryOp -------------------------------
(***************************************************************************)
(* A name of a TLD whose chain records delegate to a registry contract     *)
(* (src/hip5-op.js, resolveOp): the resolver of the name, its contenthash, *)
(* and its DNS records, read by eth_calls that each go through the list of *)
(* endpoints.  An endpoint that answers is believed, and its view may be   *)
(* one block behind: the name's pin and its address may change in between. *)
(***************************************************************************)
EXTENDS Naturals

CONSTANT Rpcs \* endpoints

VARIABLES given, \* what the contracts hold
          call   \* the locals of resolveOp

vars == <<given, call>>

Blocks == {1, 2}
Parts == {"text", "address", "pin"}

Init ==
  /\ given \in [resolver : BOOLEAN,
                content : {"none", "reverts", "pointer", "unusable"},
                records : BOOLEAN, text : {"none", "pointer"},
                address : [Blocks -> {"none", "public", "private"}],
                pin : [Blocks -> BOOLEAN]]
  /\ call = [pc |-> "resolver", at |-> 1, lost |-> {},
             got |-> [p \in Parts |-> 0], kind |-> "none", insecure |-> FALSE]

Become(c) == call' = c /\ UNCHANGED given
GoTo(pc) == [call EXCEPT !.pc = pc, !.at = 1]
Found(kind) == [call EXCEPT !.pc = "done", !.kind = kind]

(* No resolution: the caller goes on to the name servers. *)
Fall == Found("fall")

(* A lost call ends the route, except that for the contenthash: a resolver *)
(* that has no such function reverts, and that is an error of every        *)
(* endpoint too.                                                           *)
Lost == IF call.pc = "contenthash"
        THEN [GoTo("has") EXCEPT !.lost = {"contenthash"}]
        ELSE Fall

(* createRpc: an endpoint is down, late or in error, and the next has its  *)
(* turn.                                                                   *)
RpcFails ==
  /\ call.pc \in {"resolver", "contenthash", "has"}
  /\ Become(IF call.at < Rpcs THEN [call EXCEPT !.at = @ + 1] ELSE Lost)

Resolver ==
  /\ call.pc = "resolver"
  /\ Become(IF given.resolver THEN GoTo("contenthash") ELSE Fall)

(* Content first; one that is there and cannot be used is said to be so. *)
Contenthash ==
  /\ call.pc = "contenthash" /\ given.content # "reverts"
  /\ Become(CASE given.content = "none" -> GoTo("has")
              [] given.content = "pointer" -> Found("content")
              [] given.content = "unusable" -> Found("unsupported-pointer"))

HasRecords ==
  /\ call.pc = "has"
  /\ Become(IF given.records THEN GoTo("records") ELSE Fall)

(* TXT, A and TLSA are asked for at once, each of the endpoints in turn;   *)
(* the first that is lost at all of them retires the route.                *)
Reads(p, block) ==
  /\ call.pc = "records" /\ call.got[p] = 0
  /\ Become([call EXCEPT !.got[p] = block])

LosesRecord(p) == /\ call.pc = "records" /\ call.got[p] = 0
                  /\ Become(Fall)

Pinned == call.got["pin"] \in Blocks /\ given.pin[call.got["pin"]]
Address == IF call.got["address"] \in Blocks THEN given.address[call.got["address"]] ELSE "none"

(* A pointer in TXT, then the address; one of our own networks is blocked. *)
Answer ==
  /\ call.pc = "records" /\ \A p \in Parts : call.got[p] # 0
  /\ Become(IF call.got["text"] \in Blocks /\ given.text = "pointer" THEN Found("pointer")
            ELSE CASE Address = "none" -> Fall
                   [] Address = "private" -> Found("blocked")
                   [] Address = "public" -> [Found("site") EXCEPT !.insecure = ~Pinned])

Next == \/ RpcFails \/ Resolver \/ Contenthash \/ HasRecords \/ Answer
        \/ \E p \in Parts : LosesRecord(p) \/ \E b \in Blocks : Reads(p, b)

-------------------------------------------------------------------------------
(* What the route answers is what the contracts hold, never what was left  *)
(* of it: plaintext only for a name that had no pin at some block, records *)
(* only of a name without content, and nothing of a name the registry does *)
(* not know.  The exception: the call for the content is lost at every     *)
(* endpoint, and the records stand for a name that has content, since what *)
(* is caught there is taken for a resolver without a contenthash           *)
(* (hip5-op.js, resolveOp); the README reports it.                         *)
RegistryIsReadWhole ==
  call.pc = "done" /\ call.kind # "fall" =>
    /\ given.resolver
    /\ call.kind = "content" => given.content = "pointer"
    /\ call.kind = "unsupported-pointer" => given.content = "unusable"
    /\ call.kind \in {"pointer", "site", "blocked"} =>
         /\ given.records
         /\ given.content \in {"none", "reverts"} \/ "contenthash" \in call.lost
         /\ call.kind = "pointer" <=> given.text = "pointer"
    /\ call.kind = "site" => \E b \in Blocks : given.address[b] = "public"
    /\ call.insecure => \E b \in Blocks : ~given.pin[b]
===============================================================================
