--------------------------------- MODULE Arweave ---------------------------------
(***************************************************************************)
(* One request of an ar:// address (namespaces/arweave/src/ar.js): the     *)
(* gateways are tried in order, the header of the transaction is asked of  *)
(* a second one, and the bytes are held against what the header signs.     *)
(*                                                                         *)
(* Any gateway may be down, lie about the bytes, or lie about the header;  *)
(* a signature tells a true header from a lie, the data root or the signed *)
(* data itself the true bytes.                                             *)
(***************************************************************************)
EXTENDS Naturals

CONSTANT Hosts \* gateways of the failover list

VARIABLES given, \* the request and the transaction
          call   \* the locals of the handler

vars == <<given, call>>

(* What a transaction holds: data of either format, data that is too large *)
(* to be held against the root, a manifest or a bundle that is rendered;   *)
(* checkable: by this implementation.                                      *)
Init ==
  /\ given \in [method : {"GET", "HEAD", "POST"}, formed : BOOLEAN, path : BOOLEAN,
                range : BOOLEAN, verify : BOOLEAN, checkable : BOOLEAN,
                holds : {"data", "large", "rendered"}]
  /\ call = [pc |-> "begin", host |-> 1, hop |-> 0, status |-> 0, body |-> "none",
             header |-> "none", verified |-> "none", page |-> "none"]

Become(c) == call' = c /\ UNCHANGED given
End(page) == [call EXCEPT !.pc = "done", !.page = page]

(* Nothing under a transaction is written to; the path stays under it. *)
Begin ==
  /\ call.pc = "begin"
  /\ Become(IF given.method = "POST" THEN End("method not allowed")
            ELSE IF ~given.formed THEN End("invalid")
            ELSE [call EXCEPT !.pc = "ask"])

NextHost == [call EXCEPT !.host = @ + 1, !.hop = 0]

(* Down, or in error: the next one has its turn; the last one's failure is *)
(* thrown, its 5xx is the answer.                                          *)
HostDown ==
  /\ call.pc = "ask"
  /\ Become(IF call.host < Hosts THEN NextHost ELSE End("threw"))

HostErrs ==
  /\ call.pc = "ask"
  /\ Become(IF call.host < Hosts THEN NextHost
            ELSE [call EXCEPT !.pc = "body", !.status = 500, !.body = "untrue"])

(* Not a failure to reach the host. *)
HostThrows == call.pc = "ask" /\ Become(End("threw"))

(* One redirect, of the same gateway and the same transaction. *)
Redirects(sameScope) ==
  /\ call.pc = "ask"
  /\ Become(IF sameScope /\ call.hop = 0 THEN [call EXCEPT !.hop = 1] ELSE End("refused"))

(* An answer, whatever its status, is the answer. *)
Answers(status, body) ==
  /\ call.pc = "ask"
  /\ Become([call EXCEPT !.status = status, !.body = body,
                         !.pc = IF status = 200 /\ ~given.path /\ Hosts > 1 /\ given.verify
                                THEN "header" ELSE "body"])

(* A slip: a header that cannot be checked is taken as it is. *)
HeaderTaken(true) ==
  /\ call.pc = "header"
  /\ Become([call EXCEPT !.pc = "body", !.header = IF true THEN "true" ELSE "lie"])

(* A header that is lost, or in a form that nobody checks, claims nothing;  *)
(* any other lie is refused.                                               *)
HeaderLost == call.pc = "header" /\ Become([call EXCEPT !.pc = "body"])

Header(true) ==
  /\ call.pc = "header"
  /\ Become(IF ~true THEN End("refused")
            ELSE IF given.checkable THEN [call EXCEPT !.pc = "body", !.header = "true"]
            ELSE [call EXCEPT !.pc = "body"])

Representation == IF given.path THEN "manifest-path"
                  ELSE IF call.header = "none" THEN "gateway"
                  ELSE IF given.holds = "rendered" THEN "gateway-rendered" ELSE "raw"

(* The whole of the raw body is what can be held against the header.       *)
Comparable == /\ call.header # "none" /\ Representation = "raw"
              /\ given.method = "GET" /\ ~given.range /\ given.holds = "data"

Serve ==
  /\ call.pc = "body"
  /\ Become(IF Comparable /\ call.body # "true" THEN End("refused")
            ELSE [End("served") EXCEPT
                    !.verified = IF Comparable THEN "bytes"
                                 ELSE IF call.header # "none" THEN "header" ELSE "none"])

(* The body ends early, or is larger than was signed, or is aborted. *)
BodyFails == /\ call.pc = "body" /\ Comparable
             /\ Become(End("refused"))

(* A status and a body; a range is answered by a part, or by all of it. *)
Replies == ({200, 404} \X (IF given.method = "HEAD" THEN {"none"} ELSE {"true", "untrue"}))
             \cup (IF given.range THEN {<<206, "part">>} ELSE {})

Next == \/ Begin \/ HostDown \/ HostErrs \/ HostThrows \/ HeaderLost \/ Serve \/ BodyFails
        \/ \E same \in BOOLEAN : Redirects(same)
        \/ \E true \in BOOLEAN : Header(true)
        \/ \E r \in Replies : Answers(r[1], r[2])

(* A gateway's answer, its header and a body that is read have no timeout  *)
(* of the handler's.                                                       *)
Waits == call.pc \in {"ask", "header"} \/ (call.pc = "body" /\ Comparable)

Works == Begin \/ (~Comparable /\ Serve)

-------------------------------------------------------------------------------
(* `bytes' is said of the whole of what the transaction signs and nothing  *)
(* else, `header' only if its signature was verified, whichever gateways   *)
(* lie and whichever of the two answers is lost.  With a verified header,  *)
(* bytes that are not what it signs are not shown if they are a whole body *)
(* that is small enough to be held against it.  The exceptions, of which   *)
(* no more than `header' is said: a range, data too large to be held back  *)
(* (its length alone is checked, as it streams), and what a gateway        *)
(* renders of a manifest or a bundle.                                      *)
VerifiedIsSigned ==
  call.pc = "done" /\ call.page = "served" =>
    /\ call.verified = "bytes" => /\ call.body = "true" /\ call.header = "true"
                                  /\ call.status = 200 /\ given.holds = "data"
    /\ call.verified = "header" => call.header = "true" /\ given.checkable
    /\ (call.header = "true" /\ call.body = "untrue") =>
         /\ given.range \/ given.holds \in {"large", "rendered"}
         /\ call.verified = "header"
===============================================================================
