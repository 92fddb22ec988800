-------------------------------- MODULE NsAddress --------------------------------
(***************************************************************************)
(* Which server a zone is asked at (src/resolver.js): its name servers in  *)
(* order, each by the glue that came with it, else by the chain (the       *)
(* records of its own TLD, or one question to a server of that TLD), else  *)
(* by the system's resolver, which is ICANN's root.  A server of the TLD   *)
(* without glue is itself looked up at ICANN's root.  The TLD's zone is asked *)
(* at one after the other until one answers (_withFailover); the zone of a *)
(* delegation at the first that has an address (_descend).                 *)
(*                                                                         *)
(* The name of a name server may be registered on both roots, and mean     *)
(* somebody else on the other one.  Any question may be lost.              *)
(***************************************************************************)
EXTENDS Naturals

CONSTANT NameServers \* of the zone, and at most of the TLD of one of them

VARIABLES given, \* what is asked for, and what the chain has of the servers' names
          call   \* the locals of the loop; history of the current server

vars == <<given, call>>

(* An address in a network of our own is private. *)
Address == {"public", "private"}
Sources == {"none", "glue", "chain", "icann"}

Init ==
  /\ \E servers \in 0 .. NameServers :
       given \in [asks : {"zone", "delegation"}, registered : BOOLEAN,
                  servers : {servers}, glued : SUBSET (1 .. servers)]
  /\ call = [pc |-> "glue", at |-> 1, from |-> "none", lost |-> FALSE,
             ns |-> 1, by |-> "none", tried |-> {},
             second |-> FALSE, asked |-> {}, bare |-> {}, result |-> "none"]

Become(c) == call' = c /\ UNCHANGED given
GoTo(pc) == [call EXCEPT !.pc = pc]
Done(result) == [call EXCEPT !.pc = "done", !.result = result]

NextServer(c) ==
  [c EXCEPT !.pc = IF c.at < NameServers THEN "glue" ELSE "end", !.at = @ + 1,
            !.from = "none", !.lost = FALSE, !.ns = 1, !.by = "none", !.tried = {},
            !.second = FALSE]

(* A private address is not asked, and neither is any server after it. *)
Use(from, address) ==
  IF address = "private" THEN [Done("blocked") EXCEPT !.from = from]
  ELSE IF given.asks = "delegation" THEN [Done("server") EXCEPT !.from = from]
  ELSE [GoTo("ask") EXCEPT !.from = from, !.asked = @ \cup {call.at}]

(* glueAddress, glueAddresses *)
Glue == /\ call.pc = "glue"
        /\ \/ \E a \in Address : Become(Use("glue", a))
           \/ Become(GoTo("chain"))

(* _chainAddress: the records of the name's own TLD, at one level only. A  *)
(* lost question of the node's reads as a name it does not have.           *)
Resource ==
  /\ call.pc = "chain"
  /\ \/ Become([GoTo("icann") EXCEPT !.lost = TRUE])
     \/ ~given.registered /\ Become(GoTo("icann"))
     \/ given.registered /\ \E a \in Address : Become(Use("chain", a))
     \/ given.registered /\ Become(IF given.servers > 0 THEN GoTo("servers") ELSE GoTo("icann"))

(* A slip: the first server of the TLD that fails is the last. *)
FirstServerOnly == [GoTo("icann") EXCEPT !.tried = @ \cup {call.ns}]

(* Any that is lost, in a network of our own, or the very server whose     *)
(* address is looked for, or that has no address for it, is passed over.   *)
PassedOver ==
  [GoTo(IF call.ns < given.servers THEN "servers" ELSE "icann") EXCEPT
     !.tried = @ \cup {call.ns}, !.ns = @ + 1, !.by = "none"]

(* A server of that TLD: its glue, or what the system's resolver has for   *)
(* its name, without asking the chain for it.                              *)
TldServers ==
  /\ call.pc = "servers"
  /\ \/ Become([GoTo("parent") EXCEPT
                  !.by = IF call.ns \in given.glued THEN "glue" ELSE "icann"])
     \/ Become(PassedOver)

(* It is asked for the address (_addressAt). *)
TldAnswers ==
  /\ call.pc = "parent"
  /\ \/ \E a \in Address : Become(Use("chain", a))
     \/ Become(PassedOver)

(* The system's resolver. A name without an address is passed over. *)
Lookup ==
  /\ call.pc = "icann"
  /\ \/ \E a \in Address : Become(Use("icann", a))
     \/ Become(NextServer([call EXCEPT !.bare = @ \cup {call.at}]))

(* A server is asked; one that cannot be asked gives way to its second     *)
(* address, if there is one in its glue, and then to the next server.      *)
Answered == call.pc = "ask" /\ Become(Done("answer"))
Unanswered ==
  /\ call.pc = "ask"
  /\ \/ Become(NextServer(call))
     \/ /\ call.from = "glue" /\ ~call.second
        /\ \E a \in Address : Become([Use("glue", a) EXCEPT !.second = TRUE])

(* None has answered, or none has an address. *)
Exhausted == call.pc = "end" /\ Become(Done("unreachable"))

Next == Glue \/ Resource \/ TldServers \/ TldAnswers \/ Lookup \/ Answered \/ Unanswered \/ Exhausted

-------------------------------------------------------------------------------
(* For a name server under a TLD of Handshake's, the word of ICANN's root  *)
(* is not taken while one of the TLD's own servers is left to be asked, or *)
(* the question for the TLD's records was lost; and a zone is given up     *)
(* only when each of its servers was asked or has no address on either     *)
(* root.  The exception: a server of the TLD that comes without glue is    *)
(* looked up at ICANN's root, and what it says then counts as the chain's. *)
(* (_addressForNsHost says that a TLD without chain records is the only    *)
(* case that falls through; losses, servers without an answer and this one *)
(* do, too, which the README reports.)                                     *)
OwnRootFirst ==
  /\ (call.from = "icann" /\ given.registered)
       => call.lost \/ call.tried = 1 .. given.servers
  /\ (call.from = "chain" /\ call.by = "icann") => call.ns \in 1 .. given.servers \ given.glued
  /\ call.result = "unreachable" => call.asked \cup call.bare = 1 .. NameServers
===============================================================================
