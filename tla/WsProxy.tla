------------------------------- MODULE WsProxy --------------------------------
(***************************************************************************)
(* The CONNECT tunnel for WebSockets to Handshake hosts                    *)
(* (namespaces/apps/src/ws-proxy.js).                                      *)
(*                                                                         *)
(* A connection is read, resolved, dialled and spliced, with an await      *)
(* after each; meanwhile its client may go, the setup may time out, the    *)
(* privacy route may change and the proxy may be stopped.  An operation    *)
(* (a resolution or a dial) cannot be called back: it holds its slot until *)
(* it settles, which may be long after the request it served gave up.      *)
(*                                                                         *)
(* Every handler begins by comparing the route in force with the one it    *)
(* knows (refreshPolicy); `ctxNow' is the contexts after that comparison.  *)
(* A context of an older generation has been aborted and its client        *)
(* destroyed, so the generation itself is not kept.                        *)
(***************************************************************************)
EXTENDS Naturals, FiniteSets

CONSTANTS Conns,          \* connections; an identity is used again once free
          Routes,         \* direct, and what torSocks() may say in Private
          Refusing,       \* the routes on which nothing can be dialled
          MaxConnections, \* limits.maxConnections, 128 in the code
          MaxPending      \* limits.maxPending, 32 in the code

ASSUME WsAssumption == /\ Refusing \subseteq Routes
                       /\ IsFiniteSet(Conns)
                       /\ MaxConnections \in Nat \ {0}
                       /\ MaxPending \in Nat \ {0}

VARIABLES policy,     \* outside: what isAnonymized() and torSocks() say
          route,      \* this._route
          serving,    \* this.server is set
          operations, \* this._operations
          ctx         \* connection -> its context and the locals of _handle

vars == <<policy, route, serving, operations, ctx>>

(* client: none, open, or destroyed with its close event to come.          *)
(* op: the operation that has not settled; live: somebody still awaits it. *)
(* via: the route its dial was made for; up: the upstream socket is open.  *)
(* listed: in this._conns.                                                 *)
Stage == {"done", "head", "resolve", "resolved", "dial", "dialled", "spliced"}
Setup == Stage \ {"done", "spliced"}
Context == [client : {"none", "open", "destroyed"}, pc : Stage,
            op : {"none", "resolve", "dial"}, live : BOOLEAN,
            via : Routes \cup {"none"}, up : BOOLEAN, listed : BOOLEAN]

TypeOK == /\ policy \in Routes /\ route \in Routes /\ serving \in BOOLEAN
          /\ operations \in 0 .. MaxPending
          /\ ctx \in [Conns -> Context]

Unused == [client |-> "none", pc |-> "done", op |-> "none", live |-> FALSE,
           via |-> "none", up |-> FALSE, listed |-> FALSE]

Init == /\ policy \in Routes /\ route = policy
        /\ serving = FALSE /\ operations = 0
        /\ ctx = [c \in Conns |-> Unused]

-------------------------------------------------------------------------------
(* The continuations that are due. *)
Answered == {"resolved", "dialled"}

(* A slip: only what is still being set up is torn down. *)
AbortPending(x) ==
  IF x.client = "none" \/ x.pc = "spliced" THEN x
  ELSE [x EXCEPT !.client = "destroyed", !.live = FALSE,
                 !.pc = IF @ \in Answered THEN @ ELSE "done",
                 !.via = IF x.pc \in Answered THEN @ ELSE "none"]

(* policyChanged() for one context. What awaits an operation is rejected    *)
(* and ends; what an operation has just answered finds out when it goes on. *)
Abort(x) ==
  IF x.client = "none" THEN x
  ELSE [x EXCEPT !.client = "destroyed", !.live = FALSE,
                 !.up = @ /\ x.pc # "spliced",
                 !.pc = IF @ \in Answered THEN @ ELSE "done",
                 !.via = IF x.pc \in Answered THEN @ ELSE "none"]

(* refreshPolicy(). *)
ctxNow == IF policy = route THEN ctx ELSE [c \in Conns |-> Abort(ctx[c])]

Current(x) == serving /\ x.client = "open"

(* _handle has returned; the route is of interest no longer. *)
Refused(x) == [x EXCEPT !.pc = "done", !.via = "none"]
Destroyed(x) == [Refused(x) EXCEPT !.client = IF @ = "open" THEN "destroyed"
                                                            ELSE @]

FreeSlot == operations < MaxPending

(* _operation(): a slot is taken, or the request refused with EBUSY. *)
Operation(x, kind) ==
  IF ~FreeSlot THEN Refused(x)
  ELSE [x EXCEPT !.pc = kind, !.op = kind, !.live = TRUE]

Taken(x) == IF FreeSlot THEN operations + 1 ELSE operations

Put(c, x) == ctx' = [ctxNow EXCEPT ![c] = x]
Handler == route' = policy /\ UNCHANGED <<policy, serving>>

Listed == {c \in Conns : ctxNow[c].listed}
Pending == {c \in Conns : ctxNow[c].client # "none" /\ ctxNow[c].pc \in Setup}

(* The connection handler of the server; one too many is destroyed at once. *)
Accept(c) ==
  /\ serving
  /\ ctxNow[c].client = "none" /\ ctxNow[c].pc = "done" /\ ctxNow[c].op = "none"
  /\ IF Cardinality(Listed) >= MaxConnections \/ Cardinality(Pending) >= MaxPending
     THEN ctx' = ctxNow
     ELSE Put(c, [Unused EXCEPT !.client = "open", !.pc = "head",
                                        !.listed = TRUE])
  /\ Handler /\ UNCHANGED operations

(* readHead() has settled: a malformed, late or lost head; a request that a *)
(* fence refuses; or one that is resolved, over the route known now.        *)
Head(c) ==
  LET x == ctxNow[c] IN
  /\ ctx[c].pc = "head"
  /\ \/ Put(c, Destroyed(x)) /\ UNCHANGED operations
     \/ Put(c, Refused(x)) /\ UNCHANGED operations
     \/ /\ Current(x) /\ policy \notin Refusing
        /\ Put(c, Operation([x EXCEPT !.via = policy], "resolve"))
        /\ operations' = Taken(x)
  /\ Handler

-------------------------------------------------------------------------------
(* A slip: what nobody waits for any more is left alone. *)
SettleUndisposed(c) ==
  LET x == ctxNow[c] IN
  /\ x.op # "none"
  /\ operations' = operations - 1
  /\ \/ Put(c, [x EXCEPT !.op = "none", !.live = FALSE, !.up = (x.op = "dial"),
                         !.pc = IF ~x.live \/ ~Current(x) THEN @
                                ELSE IF x.op = "dial" THEN "dialled" ELSE "resolved"])
     \/ Put(c, [x EXCEPT !.op = "none", !.live = FALSE,
                         !.pc = IF x.live THEN "done" ELSE @,
                         !.via = "none"])
  /\ Handler

(* An operation settles. Its slot is returned; an answer that comes for a   *)
(* request that gave up, or is no longer current, is disposed of.           *)
Settle(c) ==
  LET x == ctxNow[c]
      wanted == x.live /\ Current(x)
  IN
  /\ x.op # "none"
  /\ operations' = operations - 1
  /\ \/ /\ wanted
        /\ Put(c, [x EXCEPT !.op = "none", !.live = FALSE, !.up = (x.op = "dial"),
                            !.pc = IF x.op = "dial" THEN "dialled" ELSE "resolved"])
     \/ Put(c, [x EXCEPT !.op = "none", !.live = FALSE,
                         !.pc = IF x.live THEN "done" ELSE @,
                         !.via = "none"])
  /\ Handler

(* The request gives up on its operation: 504. *)
Timeout(c) ==
  /\ ctx[c].op # "none" /\ ctx[c].live
  /\ ctx' = [ctx EXCEPT ![c] = Refused([@ EXCEPT !.live = FALSE])]
  /\ UNCHANGED <<policy, route, serving, operations>>

(* The code after the resolution: an address to dial, or a refusal (none,   *)
(* or not a public one).                                                    *)
Resolved(c) ==
  LET x == ctxNow[c] IN
  /\ ctx[c].pc = "resolved"
  /\ \/ Put(c, Refused(x)) /\ UNCHANGED operations
     \/ /\ Current(x)
        /\ Put(c, Operation(x, "dial"))
        /\ operations' = Taken(x)
  /\ Handler

(* The code after the dial: splice, unless the request is no longer current. *)
Dialled(c) ==
  LET x == ctxNow[c] IN
  /\ ctx[c].pc = "dialled"
  /\ Put(c, IF Current(x) THEN [x EXCEPT !.pc = "spliced"]
            ELSE Refused([x EXCEPT !.up = FALSE]))
  /\ Handler /\ UNCHANGED operations

-------------------------------------------------------------------------------
(* The client goes away by itself, or its refusal has been sent. *)
ClientEnds(c) ==
  /\ ctx[c].client = "open"
  /\ ctx' = [ctx EXCEPT ![c].client = "destroyed"]
  /\ UNCHANGED <<policy, route, serving, operations>>

UpstreamEnds(c) ==
  /\ ctx[c].pc = "spliced" /\ ctx[c].up
  /\ ctx' = [ctx EXCEPT ![c] = Destroyed([@ EXCEPT !.up = FALSE])]
  /\ UNCHANGED <<policy, route, serving, operations>>

(* Its close event: abort, the upstream destroyed, off the books. *)
ClientClosed(c) ==
  /\ ctx[c].client = "destroyed"
  /\ ctx' = [ctx EXCEPT ![c] = [Abort(@) EXCEPT !.client = "none", !.listed = FALSE]]
  /\ UNCHANGED <<policy, route, serving, operations>>

(* IP Protection changes; the event that says so comes with it or later. *)
PolicyMoves ==
  /\ policy' \in Routes \ {policy}
  /\ UNCHANGED <<route, serving, operations, ctx>>

PolicyChanged ==
  /\ route # policy
  /\ ctx' = ctxNow
  /\ Handler /\ UNCHANGED operations

Start == /\ ~serving /\ serving' = TRUE
         /\ UNCHANGED <<policy, route, operations, ctx>>

(* A slip: live tunnels are left to end by themselves. *)
StopListening == /\ serving /\ serving' = FALSE
                 /\ UNCHANGED <<policy, route, operations, ctx>>

Stop == /\ serving /\ serving' = FALSE
        /\ route' = policy
        /\ ctx' = [c \in Conns |-> [Abort(ctx[c]) EXCEPT !.listed = FALSE]]
        /\ UNCHANGED <<policy, operations>>

Progress(c) == Head(c) \/ Timeout(c) \/ Resolved(c) \/ Dialled(c)

Next == \/ \E c \in Conns : \/ Accept(c) \/ Progress(c) \/ Settle(c)
                            \/ ClientEnds(c) \/ UpstreamEnds(c) \/ ClientClosed(c)
        \/ PolicyMoves \/ PolicyChanged \/ Start \/ Stop

Spec == Init /\ [][Next]_vars

(* Heads, operations and refusals have timeouts, and events are delivered. *)
(* That an operation settles is not assumed.                               *)
FairSpec == Spec /\ \A c \in Conns : WF_vars(Progress(c)) /\ WF_vars(ClientClosed(c))

-------------------------------------------------------------------------------
(* Nothing outlives its owner: a slot belongs to exactly one operation     *)
(* that has not settled, none is lost with a request that gave up, none    *)
(* returned twice by its late answer; and an upstream socket is open only  *)
(* while a continuation or a splice owns it, so that of a dial that        *)
(* completes after its request was canceled is destroyed.                  *)
NothingIsLeaked ==
  /\ operations = Cardinality({c \in Conns : ctx[c].op # "none"})
  /\ \A c \in Conns : ctx[c].up => ctx[c].pc \in {"dialled", "spliced"}

(* No stream runs over another route than the one the proxy knows to be in *)
(* force, whenever the route changed while it was being set up.            *)
StreamsFollowRoute ==
  \A c \in Conns : ctx[c].pc = "spliced" /\ ctx[c].up => ctx[c].via = route

(* stop() ends: every client and every upstream goes, or it starts again.  *)
Quiet == \A c \in Conns : ctx[c].client = "none" /\ ~ctx[c].up
StopDrains == ~serving ~> (Quiet \/ serving)
===============================================================================
