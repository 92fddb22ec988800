----------------------------- MODULE WsProxyProofs -----------------------------
(***************************************************************************)
(* The slots, sockets and streams of the WebSocket proxy, for every number *)
(* of connections, routes and limits.                                      *)
(*                                                                         *)
(* An operation outlives the request it was begun for, so neither property *)
(* is inductive: whether the answer of a dial may be spliced depends on    *)
(* who still awaits it, and on the route since it began.  Owned says it of *)
(* one context, whatever its stage; a change of the route makes a context  *)
(* of the old route one of the new by aborting it (AbortOwned).            *)
(***************************************************************************)
EXTENDS WsProxy, FiniteSetTheorems, TLAPS

(* A context is in order on route r. *)
Owned(x, r) ==
  /\ x \in Context
  /\ x.live <=> x.pc \in {"resolve", "dial"}
  /\ x.op = (IF x.live THEN x.pc ELSE IF x.pc = "done" THEN x.op ELSE "none")
  /\ x.up => x.pc \in {"dialled", "spliced"}
  /\ x.client = "none" => x.pc \in {"done", "resolved", "dialled"}
  /\ x.client = "open" /\ x.pc \in {"resolve", "resolved", "dial", "dialled"} => x.via = r
  /\ x.pc = "spliced" => x.via = r

Busy(f) == {c \in Conns : f[c].op # "none"}

WsInv == /\ policy \in Routes /\ route \in Routes /\ serving \in BOOLEAN
         /\ operations \in 0 .. MaxPending
         /\ DOMAIN ctx = Conns /\ ctx = [c \in Conns |-> ctx[c]]
         /\ \A c \in Conns : Owned(ctx[c], route)
         /\ operations = Cardinality(Busy(ctx))

-------------------------------------------------------------------------------
(* policyChanged() leaves a context in order, on whatever route. *)
LEMMA AbortOwned ==
  ASSUME NEW x, NEW r, NEW s, Owned(x, r)
  PROVE  Owned(Abort(x), s) /\ Abort(x).op = x.op
  BY DEF Owned, Abort, Context, Stage, Answered

(* So does the comparison every handler begins with. *)
LEMMA NowOwned ==
  ASSUME WsInv
  PROVE  /\ ctxNow = [c \in Conns |-> ctxNow[c]]
         /\ \A c \in Conns : Owned(ctxNow[c], policy) /\ ctxNow[c].op = ctx[c].op
<1>1. CASE policy = route
  BY <1>1 DEF ctxNow, WsInv
<1>2. CASE policy # route
  <2>1. ctxNow = [c \in Conns |-> Abort(ctx[c])]
    BY <1>2 DEF ctxNow
  <2> QED BY <2>1, AbortOwned DEF WsInv
<1> QED BY <1>1, <1>2

(* The count of slots, when one context changes. *)
LEMMA OneChanges ==
  ASSUME NEW f, NEW g, NEW c \in Conns,
         \A d \in Conns \ {c} : g[d].op # "none" <=> f[d].op # "none"
  PROVE  /\ IsFiniteSet(Busy(f)) /\ Cardinality(Busy(f)) \in Nat
         /\ f[c].op # "none" => Cardinality(Busy(f)) > 0
         /\ Cardinality(Busy(g)) =
              IF f[c].op = "none" /\ g[c].op # "none" THEN Cardinality(Busy(f)) + 1
              ELSE IF f[c].op # "none" /\ g[c].op = "none" THEN Cardinality(Busy(f)) - 1
              ELSE Cardinality(Busy(f))
<1>1. IsFiniteSet(Busy(f)) /\ Cardinality(Busy(f)) \in Nat
  BY WsAssumption, FS_Subset, FS_CardinalityType DEF Busy
<1>2. f[c].op # "none" => Cardinality(Busy(f)) > 0
  <2>1. f[c].op # "none" => Busy(f) # {}
    BY DEF Busy
  <2> QED BY <1>1, <2>1, FS_EmptySet
<1>3. CASE f[c].op = "none" /\ g[c].op # "none"
  <2>1. Busy(g) = Busy(f) \cup {c} /\ c \notin Busy(f)
    BY <1>3 DEF Busy
  <2> QED BY <1>1, <1>2, <1>3, <2>1, FS_AddElement
<1>4. CASE f[c].op # "none" /\ g[c].op = "none"
  <2>1. Busy(g) = Busy(f) \ {c} /\ c \in Busy(f)
    BY <1>4 DEF Busy
  <2> QED BY <1>1, <1>2, <1>4, <2>1, FS_RemoveElement
<1>5. CASE f[c].op = "none" <=> g[c].op = "none"
  <2>1. Busy(g) = Busy(f)
    BY <1>5 DEF Busy
  <2> QED BY <1>1, <1>2, <1>5, <2>1
<1> QED BY <1>3, <1>4, <1>5

(* A handler that leaves every context in order, and counts its slots. *)
LEMMA HandlerKeeps ==
  ASSUME WsInv, NEW c \in Conns, NEW x, Put(c, x), Handler, Owned(x, policy),
         operations' = operations + (IF x.op # "none" /\ ctx[c].op = "none" THEN 1
                                     ELSE IF x.op = "none" /\ ctx[c].op # "none" THEN -1 ELSE 0),
         operations' <= MaxPending
  PROVE  WsInv'
<1>1. ctx' = [ctxNow EXCEPT ![c] = x] /\ route' = policy /\ policy' = policy /\ serving' = serving
  BY DEF Put, Handler
<1>2. /\ ctxNow = [d \in Conns |-> ctxNow[d]]
      /\ \A d \in Conns : Owned(ctxNow[d], policy) /\ ctxNow[d].op = ctx[d].op
  BY NowOwned
<1>3. /\ ctx' = [d \in Conns |-> ctx'[d]]
      /\ ctx'[c] = x
      /\ \A d \in Conns \ {c} : ctx'[d] = ctxNow[d]
  BY <1>1, <1>2
<1>4. \A d \in Conns : Owned(ctx'[d], policy)
  BY <1>2, <1>3
<1>5. \A d \in Conns \ {c} : ctx'[d].op # "none" <=> ctx[d].op # "none"
  BY <1>2, <1>3
<1>6. /\ Cardinality(Busy(ctx)) \in Nat
      /\ ctx[c].op # "none" => Cardinality(Busy(ctx)) > 0
      /\ Cardinality(Busy(ctx')) =
           IF ctx[c].op = "none" /\ ctx'[c].op # "none" THEN Cardinality(Busy(ctx)) + 1
           ELSE IF ctx[c].op # "none" /\ ctx'[c].op = "none" THEN Cardinality(Busy(ctx)) - 1
           ELSE Cardinality(Busy(ctx))
  BY <1>5, OneChanges
<1>7. operations = Cardinality(Busy(ctx)) /\ MaxPending \in Nat
  BY WsAssumption DEF WsInv
<1>8. operations' = Cardinality(Busy(ctx')) /\ operations' \in 0 .. MaxPending
  BY <1>3, <1>6, <1>7
<1> QED BY <1>1, <1>3, <1>4, <1>8 DEF WsInv, Busy

(* A step of the world that changes one context, and no slot. *)
LEMMA ContextKeeps ==
  ASSUME WsInv, NEW c \in Conns, NEW x,
         ctx' = [ctx EXCEPT ![c] = x], Owned(x, route), x.op = ctx[c].op,
         UNCHANGED <<policy, route, serving, operations>>
  PROVE  WsInv'
<1>1. /\ ctx' = [d \in Conns |-> ctx'[d]]
      /\ \A d \in Conns : Owned(ctx'[d], route) /\ ctx'[d].op = ctx[d].op
  BY DEF WsInv
<1>2. Busy(ctx') = Busy(ctx)
  BY <1>1 DEF Busy
<1> QED BY <1>1, <1>2 DEF WsInv, Busy

-------------------------------------------------------------------------------
LEMMA WsStarts == Init => WsInv
<1> SUFFICES ASSUME Init PROVE WsInv
  OBVIOUS
<1>1. \A c \in Conns : Owned(ctx[c], route) /\ ctx[c].op = "none"
  BY DEF Init, Unused, Owned, Context, Stage
<1>2. Busy(ctx) = {}
  BY <1>1 DEF Busy
<1>3. Cardinality(Busy(ctx)) = 0
  BY <1>2, FS_EmptySet
<1>4. ctx = [c \in Conns |-> ctx[c]] /\ DOMAIN ctx = Conns
  BY DEF Init
<1>5. policy \in Routes /\ route \in Routes /\ operations = 0
  BY DEF Init
<1>6. serving \in BOOLEAN
  BY DEF Init
<1>7. operations \in 0 .. MaxPending
  BY <1>5, WsAssumption
<1> QED BY <1>1, <1>3, <1>4, <1>5, <1>6, <1>7 DEF WsInv

(* A handler leaves the context it is about in order, and its slot counted. *)
LEMMA HandlersKeep ==
  ASSUME WsInv, NEW c \in Conns,
         Accept(c) \/ Head(c) \/ Settle(c) \/ Resolved(c) \/ Dialled(c)
  PROVE  WsInv'
<1> DEFINE x == ctxNow[c]
<1>1. Owned(x, policy) /\ x.op = ctx[c].op /\ x.client \in {"none", "open", "destroyed"}
  BY NowOwned DEF Owned, Context
<1>2. /\ operations \in 0 .. MaxPending /\ MaxPending \in Nat /\ policy \in Routes
      /\ ctx[c].op # "none" => operations > 0
  BY OneChanges, WsAssumption DEF WsInv
<1>3. ctx[c].pc # x.pc => x.pc = "done" /\ x.client # "open"
  BY DEF ctxNow, Abort, WsInv, Owned, Context
<1>4. CASE Accept(c)
  <2>1. CASE ctx' = ctxNow
    <3>1. ctx' = [ctxNow EXCEPT ![c] = x]
      BY <2>1, NowOwned
    <3>2. Put(c, x) /\ Handler /\ operations' = operations
      BY <1>4, <3>1 DEF Accept, Put
    <3> HIDE DEF x
    <3> QED BY <1>1, <1>2, <3>2, HandlerKeeps
  <2>2. CASE ctx' # ctxNow
    <3> DEFINE y == [Unused EXCEPT !.client = "open", !.pc = "head", !.listed = TRUE]
    <3>1. Put(c, y) /\ Handler /\ operations' = operations /\ x.op = "none"
      BY <1>4, <2>2 DEF Accept
    <3>2. Owned(y, policy) /\ y.op = "none"
      BY DEF Owned, Unused, Context, Stage
    <3>3. ctx[c].op = "none" /\ operations' = operations /\ operations' <= MaxPending
      BY <1>1, <1>2, <3>1
    <3> HIDE DEF y
    <3> QED BY <3>1, <3>2, <3>3, <1>2, HandlerKeeps
  <2> QED BY <2>1, <2>2
<1>5. CASE Head(c)
  <2>1. CASE Put(c, Destroyed(x)) /\ operations' = operations
    <3>1. Owned(Destroyed(x), policy) /\ Destroyed(x).op = x.op
      BY <1>1, <1>3, <1>5 DEF Head, Owned, Destroyed, Refused, Context, Stage
    <3> QED BY <1>1, <1>2, <1>5, <2>1, <3>1, HandlerKeeps DEF Head
  <2>2. CASE Put(c, Refused(x)) /\ operations' = operations
    <3>1. Owned(Refused(x), policy) /\ Refused(x).op = x.op
      BY <1>1, <1>3, <1>5 DEF Head, Owned, Refused, Context, Stage
    <3> QED BY <1>1, <1>2, <1>5, <2>2, <3>1, HandlerKeeps DEF Head
  <2>3. CASE /\ Current(x) /\ Put(c, Operation([x EXCEPT !.via = policy], "resolve"))
             /\ operations' = Taken(x)
    <3> DEFINE y == Operation([x EXCEPT !.via = policy], "resolve")
    <3>1. x.pc = "head" /\ x.op = "none"
      BY <1>1, <1>3, <1>5, <2>3 DEF Head, Current, Owned
    <3>2. /\ Owned(y, policy)
          /\ y.op = IF FreeSlot THEN "resolve" ELSE "none"
      BY <1>1, <1>2, <3>1 DEF Owned, Operation, Refused, Context, Stage
    <3>3. operations' = operations + (IF y.op # "none" THEN 1 ELSE 0) /\ operations' <= MaxPending
      BY <1>2, <2>3, <3>2 DEF Taken, FreeSlot
    <3> QED BY <1>1, <1>2, <1>5, <2>3, <3>1, <3>2, <3>3, HandlerKeeps DEF Head
  <2> QED BY <1>5, <2>1, <2>2, <2>3 DEF Head
<1>6. CASE Settle(c)
  <2>1. x.op # "none" /\ operations' = operations - 1 /\ Handler
    BY <1>6 DEF Settle
  <2>2. CASE /\ x.live /\ Current(x)
             /\ Put(c, [x EXCEPT !.op = "none", !.live = FALSE, !.up = (x.op = "dial"),
                                 !.pc = IF x.op = "dial" THEN "dialled" ELSE "resolved"])
    <3> DEFINE y == [x EXCEPT !.op = "none", !.live = FALSE, !.up = (x.op = "dial"),
                              !.pc = IF x.op = "dial" THEN "dialled" ELSE "resolved"]
    <3>1. Owned(y, policy) /\ y.op = "none"
      BY <1>1, <2>2 DEF Owned, Context, Stage, Current
    <3>2. Put(c, y)
      BY <2>2
    <3> HIDE DEF y
    <3> QED BY <1>1, <1>2, <2>1, <3>1, <3>2, HandlerKeeps
  <2>3. CASE Put(c, [x EXCEPT !.op = "none", !.live = FALSE,
                              !.pc = IF x.live THEN "done" ELSE @, !.via = "none"])
    <3> DEFINE y == [x EXCEPT !.op = "none", !.live = FALSE,
                              !.pc = IF x.live THEN "done" ELSE @, !.via = "none"]
    <3>1. Owned(y, policy) /\ y.op = "none"
      BY <1>1, <2>1 DEF Owned, Context, Stage
    <3>2. Put(c, y)
      BY <2>3
    <3> HIDE DEF y
    <3> QED BY <1>1, <1>2, <2>1, <3>1, <3>2, HandlerKeeps
  <2> QED BY <1>6, <2>2, <2>3 DEF Settle
<1>7. CASE Resolved(c)
  <2>1. CASE Put(c, Refused(x)) /\ operations' = operations
    <3>1. Owned(Refused(x), policy) /\ Refused(x).op = x.op
      BY <1>1, <1>3, <1>7 DEF Resolved, Owned, Refused, Context, Stage
    <3> QED BY <1>1, <1>2, <1>7, <2>1, <3>1, HandlerKeeps DEF Resolved
  <2>2. CASE Current(x) /\ Put(c, Operation(x, "dial")) /\ operations' = Taken(x)
    <3> DEFINE y == Operation(x, "dial")
    <3>1. x.pc = "resolved" /\ x.op = "none" /\ x.client = "open"
      BY <1>1, <1>3, <1>7, <2>2 DEF Resolved, Current, Owned
    <3>2. /\ Owned(y, policy)
          /\ y.op = IF FreeSlot THEN "dial" ELSE "none"
      BY <1>1, <3>1 DEF Owned, Operation, Refused, Context, Stage
    <3>3. operations' = operations + (IF y.op # "none" THEN 1 ELSE 0) /\ operations' <= MaxPending
      BY <1>2, <2>2, <3>2 DEF Taken, FreeSlot
    <3> QED BY <1>1, <1>2, <1>7, <2>2, <3>1, <3>2, <3>3, HandlerKeeps DEF Resolved
  <2> QED BY <1>7, <2>1, <2>2 DEF Resolved
<1>8. CASE Dialled(c)
  <2> DEFINE y == IF Current(x) THEN [x EXCEPT !.pc = "spliced"]
                  ELSE Refused([x EXCEPT !.up = FALSE])
  <2>1. Put(c, y) /\ Handler /\ operations' = operations
    BY <1>8 DEF Dialled
  <2>2. x.pc # "dialled" => ~Current(x)
    BY <1>3, <1>8 DEF Dialled, Current
  <2>3. Owned(y, policy) /\ y.op = x.op
    BY <1>1, <1>3, <1>8, <2>2 DEF Dialled, Owned, Refused, Current, Context, Stage
  <2> HIDE DEF y
  <2> QED BY <1>1, <1>2, <2>1, <2>3, HandlerKeeps
<1> QED BY <1>4, <1>5, <1>6, <1>7, <1>8

(* So does what happens to a connection between handlers. *)
LEMMA EventsKeep ==
  ASSUME WsInv, NEW c \in Conns,
         Timeout(c) \/ ClientEnds(c) \/ UpstreamEnds(c) \/ ClientClosed(c)
  PROVE  WsInv'
<1>1. Owned(ctx[c], route) /\ ctx = [d \in Conns |-> ctx[d]]
  BY DEF WsInv
<1>2. CASE Timeout(c)
  <2> DEFINE y == Refused([ctx[c] EXCEPT !.live = FALSE])
  <2>1. Owned(y, route) /\ y.op = ctx[c].op
    BY <1>1, <1>2 DEF Timeout, Owned, Refused, Context, Stage
  <2>2. ctx' = [ctx EXCEPT ![c] = y] /\ UNCHANGED <<policy, route, serving, operations>>
    BY <1>1, <1>2 DEF Timeout
  <2> QED BY <2>1, <2>2, ContextKeeps
<1>3. CASE ClientEnds(c)
  <2> DEFINE y == [ctx[c] EXCEPT !.client = "destroyed"]
  <2>1. Owned(y, route) /\ y.op = ctx[c].op
    BY <1>1, <1>3 DEF ClientEnds, Owned, Context
  <2>2. ctx' = [ctx EXCEPT ![c] = y] /\ UNCHANGED <<policy, route, serving, operations>>
    BY <1>1, <1>3 DEF ClientEnds
  <2> QED BY <2>1, <2>2, ContextKeeps
<1>4. CASE UpstreamEnds(c)
  <2> DEFINE y == Destroyed([ctx[c] EXCEPT !.up = FALSE])
  <2>1. Owned(y, route) /\ y.op = ctx[c].op
    BY <1>1, <1>4 DEF UpstreamEnds, Owned, Destroyed, Refused, Context, Stage
  <2>2. ctx' = [ctx EXCEPT ![c] = y] /\ UNCHANGED <<policy, route, serving, operations>>
    BY <1>1, <1>4 DEF UpstreamEnds
  <2> QED BY <2>1, <2>2, ContextKeeps
<1>5. CASE ClientClosed(c)
  <2> DEFINE y == [Abort(ctx[c]) EXCEPT !.client = "none", !.listed = FALSE]
  <2>1. Owned(y, route) /\ y.op = ctx[c].op
    BY <1>1, <1>5 DEF ClientClosed, Abort, Owned, Context, Stage, Answered
  <2>2. ctx' = [ctx EXCEPT ![c] = y] /\ UNCHANGED <<policy, route, serving, operations>>
    BY <1>1, <1>5 DEF ClientClosed
  <2> QED BY <2>1, <2>2, ContextKeeps
<1> QED BY <1>2, <1>3, <1>4, <1>5

(* A change of the route, and stop(), abort every context. *)
LEMMA AllAborted ==
  ASSUME WsInv, PolicyChanged \/ Stop
  PROVE  WsInv'
<1>1. CASE PolicyChanged
  <2>1. ctx' = ctxNow /\ route' = policy /\ UNCHANGED <<policy, serving, operations>>
    BY <1>1 DEF PolicyChanged, Handler
  <2>2. /\ ctx' = [c \in Conns |-> ctx'[c]]
        /\ \A c \in Conns : Owned(ctx'[c], policy) /\ ctx'[c].op = ctx[c].op
    BY <2>1, NowOwned
  <2>3. Busy(ctx') = Busy(ctx)
    BY <2>2 DEF Busy
  <2> QED BY <2>1, <2>2, <2>3 DEF WsInv, Busy
<1>2. CASE Stop
  <2>1. /\ route' = policy /\ serving' = FALSE /\ UNCHANGED <<policy, operations>>
        /\ ctx' = [c \in Conns |-> [Abort(ctx[c]) EXCEPT !.listed = FALSE]]
    BY <1>2 DEF Stop
  <2>2. ASSUME NEW c \in Conns
        PROVE  Owned(ctx'[c], policy) /\ ctx'[c].op = ctx[c].op
    <3>1. Owned(Abort(ctx[c]), policy) /\ Abort(ctx[c]).op = ctx[c].op
      BY AbortOwned DEF WsInv
    <3> QED BY <2>1, <3>1 DEF Owned, Context
  <2>3. Busy(ctx') = Busy(ctx)
    BY <2>2 DEF Busy
  <2> QED BY <2>1, <2>2, <2>3 DEF WsInv, Busy
<1> QED BY <1>1, <1>2

LEMMA WsStep == WsInv /\ [Next]_vars => WsInv'
<1> SUFFICES ASSUME WsInv, [Next]_vars PROVE WsInv'
  OBVIOUS
<1>1. ASSUME NEW c \in Conns, Accept(c) \/ Progress(c) \/ Settle(c)
                              \/ ClientEnds(c) \/ UpstreamEnds(c) \/ ClientClosed(c)
      PROVE  WsInv'
  BY <1>1, HandlersKeep, EventsKeep DEF Progress
<1>2. CASE PolicyMoves
  BY <1>2 DEF PolicyMoves, WsInv, Busy
<1>3. CASE PolicyChanged \/ Stop
  BY <1>3, AllAborted
<1>4. CASE Start
  BY <1>4 DEF Start, WsInv, Busy
<1>5. CASE UNCHANGED vars
  BY <1>5 DEF vars, WsInv, Busy
<1> QED BY <1>1, <1>2, <1>3, <1>4, <1>5 DEF Next

(* What is in order leaks nothing, and runs on the route in force. *)
LEMMA WsInvSuffices == WsInv => NothingIsLeaked /\ StreamsFollowRoute
  BY DEF WsInv, Owned, Busy, NothingIsLeaked, StreamsFollowRoute

LEMMA WsAlways == Spec => []WsInv
  BY WsStarts, WsStep, PTL DEF Spec

(* ws-proxy.js, _operation() and _handle(): for any number of connections, *)
(* whatever order clients, answers, timeouts, changes of the route and     *)
(* stop() come in, the slots in use are those of operations that have not  *)
(* settled, and no upstream socket is left that nobody owns.               *)
THEOREM SlotsAndSocketsAreOwned == Spec => []NothingIsLeaked
  BY WsAlways, WsInvSuffices, PTL

(* policyChanged(): no stream survives the route it was dialled on, also   *)
(* if the route changed between any two steps of its setup.                *)
THEOREM StreamsAreOnRoute == Spec => []StreamsFollowRoute
  BY WsAlways, WsInvSuffices, PTL
===============================================================================
