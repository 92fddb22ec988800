---------------------------- MODULE SpvNodeProofs -----------------------------
(***************************************************************************)
(* The Handshake node: the proxy of the child, and that no node is lost,   *)
(* for any number of nodes, calls and faults.                              *)
(*                                                                         *)
(* That no node is lost is not inductive: it depends on what each call in  *)
(* flight has established before its await.  Kept says it of one node: as  *)
(* long as it runs and is no stray, the files are its own, the child or    *)
(* the adopted pid is no other, no call is about to spawn over it or to    *)
(* remove its files, and a call that probes an orphan probes this one.     *)
(***************************************************************************)
EXTENDS SpvNode, TLAPS

Process == [state : {"dead", "starting", "up", "dying"}, proxy : Proxies]
Call == [pc : {"idle", "probe", "local", "orphan", "claim", "poll", "stopping"},
         on : Some, died : BOOLEAN]

Typed == /\ node \in [Nodes -> Process] /\ job \in [Jobs -> Call]
         /\ files \in Some /\ pidfile \in Some /\ child \in Some /\ adopted \in Some
         /\ url \in Some \cup {"local", "configured"} /\ proxy \in Proxies

Kept(n) ==
  /\ files = n /\ pidfile = n
  /\ child \in {n, "null"} /\ (child = "null" => adopted \in {n, "null"})
  /\ \A j \in Jobs :
       /\ job[j].pc \notin {"claim", "stopping"}
       /\ job[j].pc = "orphan" => job[j].on = n
       /\ job[j].pc = "poll" /\ job[j].on = n => child = n

Stays(n) == Runs(n) /\ n \notin strays
Tidy == \A n \in Nodes : Stays(n) => Kept(n)

LEMMA Names == "null" \notin Nodes /\ "local" \notin Nodes /\ "configured" \notin Nodes
  BY SpvAssumption

LEMMA NewcomerIsFresh ==
  Fresh # {} => /\ Newcomer \in Nodes /\ node[Newcomer].state = "dead"
                /\ \A j \in Jobs : job[j].on # Newcomer
  BY DEF Newcomer, Fresh

-------------------------------------------------------------------------------
LEMMA TypedAtStart == Init => Typed
<1> SUFFICES ASSUME Init PROVE Typed
  OBVIOUS
<1>1. node \in [Nodes -> Process] /\ proxy \in Proxies
  BY DEF Init, Process
<1>2. job \in [Jobs -> Call]
  BY DEF Init, Call, Idle, Some
<1> QED BY <1>1, <1>2 DEF Init, Typed, Some

LEMMA CallTyped ==
  ASSUME Typed, NEW j
  PROVE  /\ End(j) => job' \in [Jobs -> Call]
         /\ \A pc \in {"probe", "local", "orphan", "claim", "poll", "stopping"}, on \in Some :
              Go(j, pc, on) => job' \in [Jobs -> Call]
<1>1. Idle \in Call
  BY DEF Idle, Call, Some
<1>2. End(j) => job' \in [Jobs -> Call]
  BY <1>1 DEF End, Typed
<1>3. ASSUME NEW pc \in {"probe", "local", "orphan", "claim", "poll", "stopping"},
             NEW on \in Some, Go(j, pc, on)
      PROVE  job' \in [Jobs -> Call]
  <2>1. [Idle EXCEPT !.pc = pc, !.on = on] \in Call
    BY <1>1 DEF Call
  <2> QED BY <1>3, <2>1 DEF Go, Typed
<1> QED BY <1>2, <1>3

(* What stopChild() leaves behind it, for each of its callers. *)
LEMMA StopEndsWith ==
  ASSUME NEW j, StopEnds(j)
  PROVE  /\ files' = "null" /\ pidfile' = "null"
         /\ \/ j = "stop" /\ End(j) /\ url' = url
            \/ j = "tick" /\ Go(j, "local", "null") /\ url' = "null"
            \/ j # "stop" /\ j # "tick" /\ Go(j, "claim", "null") /\ url' = "null"
<1>1. CASE j = "stop"
  BY <1>1 DEF StopEnds
<1>2. CASE j = "tick"
  BY <1>2 DEF StopEnds
<1>3. CASE j # "stop" /\ j # "tick"
  BY <1>3 DEF StopEnds
<1> QED BY <1>1, <1>2, <1>3

LEMMA StopChildTyped ==
  ASSUME Typed, NEW j \in Jobs, StopChild(j), proxy' \in Proxies
  PROVE  Typed'
<1> DEFINE target == IF child # "null" THEN child ELSE adopted
<1>1. child' = "null" /\ adopted' = "null" /\ target \in Some
  BY DEF StopChild, Typed, Some
<1>2. CASE target = "null"
  <2>1. StopEnds(j) /\ node' = node
    BY <1>2 DEF StopChild
  <2>2. files' = "null" /\ pidfile' = "null" /\ url' \in {url, "null"} /\ job' \in [Jobs -> Call]
    BY <2>1, StopEndsWith, CallTyped DEF Some
  <2> QED BY <1>1, <2>1, <2>2 DEF Typed, Some
<1>3. CASE target # "null"
  <2>1. /\ node' = IF Runs(target) THEN [node EXCEPT ![target].state = "dying"] ELSE node
        /\ Go(j, "stopping", target) /\ UNCHANGED <<files, pidfile, url>>
    BY <1>3 DEF StopChild
  <2>2. node' \in [Nodes -> Process]
    BY <2>1 DEF Typed, Process, Runs
  <2>3. job' \in [Jobs -> Call]
    BY <1>1, <2>1 DEF Go, Idle, Typed, Call, Some
  <2> QED BY <1>1, <2>1, <2>2, <2>3 DEF Typed, Some
<1> QED BY <1>2, <1>3

LEMMA CallsTyped ==
  ASSUME Typed, NEW j \in Jobs, Continue(j)
  PROVE  Typed'
<1>1. \A pc \in {"orphan", "claim", "poll", "local"}, on \in Some :
        Go(j, pc, on) => job' \in [Jobs -> Call]
  BY CallTyped
<1>2. End(j) => job' \in [Jobs -> Call]
  BY CallTyped
<1>3. CASE LocalProbed(j)
  <2>1. job' \in [Jobs -> Call]
    BY <1>1, <1>2, <1>3 DEF LocalProbed, Finished, SpawnBegins, Typed, Some
  <2> QED BY <1>3, <2>1 DEF LocalProbed, Typed, world, outside
<1>4. CASE OrphanProbed(j)
  <2>1. job' \in [Jobs -> Call] /\ job[j].on \in Some
    BY <1>1, <1>2, <1>4 DEF OrphanProbed, Finished, Typed, Some, Call
  <2> QED BY <1>4, <2>1 DEF OrphanProbed, Typed, world
<1>5. CASE Claimed(j) \/ ClaimedUnwritten(j)
  <2> DEFINE n == Newcomer
  <2>1. n \in Nodes
    BY <1>5, NewcomerIsFresh DEF Claimed, ClaimedUnwritten
  <2>2. /\ Started(n) /\ url' = n /\ child' = n /\ Go(j, "poll", n)
        /\ files' \in {files, n} /\ pidfile' \in {pidfile, n} /\ UNCHANGED <<adopted, proxy>>
    BY <1>5 DEF Claimed, ClaimedUnwritten
  <2> HIDE DEF n
  <2>3. job' \in [Jobs -> Call] /\ node' \in [Nodes -> Process]
    BY <1>1, <2>1, <2>2 DEF Typed, Some, Process, Started
  <2> QED BY <2>1, <2>2, <2>3 DEF Typed, Some
<1>6. CASE Polled(j) \/ PollThrows(j)
  <2>1. job' \in [Jobs -> Call]
    BY <1>2, <1>6 DEF Polled, PollThrows, Thrown, Finished
  <2> QED BY <1>6, <2>1 DEF Polled, PollThrows, Typed, world, self
<1>8. CASE SpawnErrs(j)
  <2>1. Newcomer \in Nodes
    BY <1>8, NewcomerIsFresh DEF SpawnErrs
  <2>2. [pc |-> "poll", on |-> Newcomer, died |-> TRUE] \in Call
    BY <2>1 DEF Call, Some
  <2>3. job' \in [Jobs -> Call]
    BY <1>8, <2>2 DEF SpawnErrs, Typed
  <2> QED BY <1>8, <2>1, <2>3 DEF SpawnErrs, Typed, Some
<1>9. CASE ClaimThrows(j)
  <2>1. job' \in [Jobs -> Call]
    BY <1>2, <1>9 DEF ClaimThrows, Thrown
  <2>2. url' \in Nodes \cup {url} /\ files' \in Nodes \cup {files}
    BY <1>9, NewcomerIsFresh DEF ClaimThrows
  <2> QED BY <1>9, <2>1, <2>2 DEF ClaimThrows, Typed, Some
<1>7. CASE Stopped(j)
  <2>1. /\ files' = "null" /\ pidfile' = "null" /\ url' \in {url, "null"}
        /\ job' \in [Jobs -> Call]
    <3>1. StopEnds(j) /\ "null" \in Some
      BY <1>7 DEF Stopped, Some
    <3> QED BY <1>1, <1>2, <3>1, StopEndsWith
  <2> QED BY <1>7, <2>1 DEF Stopped, Typed, Some
<1> QED BY <1>3, <1>4, <1>5, <1>6, <1>7, <1>8, <1>9 DEF Continue

LEMMA TypedStep == Typed /\ [Next]_vars => Typed'
<1> SUFFICES ASSUME Typed, [Next]_vars PROVE Typed'
  OBVIOUS
<1>1. CASE Start
  <2>1. job' \in [Jobs -> Call]
    <3>1. job' = job \/ Go("start", "local", "null")
      BY <1>1 DEF Start
    <3> QED BY <3>1, CallTyped DEF Typed, Some
  <2> QED BY <1>1, <2>1 DEF Start, Typed, world, self
<1>2. CASE SetProxy
  <2>1. PICK p \in Proxies : /\ proxy' = p
                             /\ \/ StopChild("setProxy")
                                \/ UNCHANGED <<world, url, child, adopted, job>>
    BY <1>2 DEF SetProxy
  <2> QED BY <2>1, StopChildTyped DEF Typed, world, Jobs
<1>3. CASE Stop
  <2>1. StopChild("stop") /\ proxy' = proxy /\ proxy \in Proxies
    BY <1>3 DEF Stop, Typed
  <2> QED BY <2>1, StopChildTyped DEF Jobs
<1>4. CASE Tick
  <2>1. job' \in [Jobs -> Call]
    BY <1>4 DEF Tick, Go, Idle, Typed, Call, Some
  <2> QED BY <1>4, <2>1 DEF Tick, Typed, world, self
<1>5. CASE Probed
  <2>1. CASE StopChild("tick") /\ UNCHANGED proxy
    <3>1. proxy' \in Proxies
      BY <2>1 DEF Typed
    <3> QED BY <2>1, <3>1, StopChildTyped DEF Jobs
  <2>2. CASE End("tick") /\ UNCHANGED <<world, self>>
    <3>1. job' \in [Jobs -> Call]
      BY <2>2 DEF End, Idle, Typed, Call, Some
    <3> QED BY <2>2, <3>1 DEF Typed, world, self
  <2> QED BY <1>5, <2>1, <2>2 DEF Probed
<1>6. CASE Crash
  <2>1. job' \in [Jobs -> Call]
    BY <1>6 DEF Crash, Idle, Call, Some
  <2> QED BY <1>6, <2>1 DEF Crash, Typed, Some, world
<1>7. ASSUME NEW n \in Nodes, NodeUp(n)
      PROVE  Typed'
  <2>1. node' \in [Nodes -> Process]
    BY <1>7 DEF NodeUp, Typed, Process
  <2> QED BY <1>7, <2>1 DEF NodeUp, Typed, self
<1>8. ASSUME NEW n \in Nodes, NodeDies(n)
      PROVE  Typed'
  <2>1. node' \in [Nodes -> Process]
    BY <1>8 DEF NodeDies, Typed, Process
  <2>2. job' \in [Jobs -> Call]
    BY <1>8 DEF NodeDies, Typed, Call
  <2> QED BY <1>8, <2>1, <2>2 DEF NodeDies, Typed, self
<1>9. CASE OutsideDies \/ UNCHANGED vars
  BY <1>9 DEF OutsideDies, vars, Typed, world, self
<1> QED BY <1>1, <1>2, <1>3, <1>4, <1>5, <1>6, <1>7, <1>8, <1>9, CallsTyped DEF Next

LEMMA TypedAlways == Spec => []Typed
  BY TypedAtStart, TypedStep, PTL DEF Spec

-------------------------------------------------------------------------------
(* The child and its proxy: setProxy() replaces a child with another one    *)
(* before it returns to anybody, and a spawn reads the proxy when it spawns.*)
LEMMA ProxyStep == Typed /\ ChildHonoursProxy /\ [Next]_vars => ChildHonoursProxy'
<1> SUFFICES ASSUME Typed, ChildHonoursProxy, [Next]_vars PROVE ChildHonoursProxy'
  OBVIOUS
<1>1. ASSUME NEW j, StopChild(j)
      PROVE  ChildHonoursProxy'
  BY <1>1 DEF StopChild, ChildHonoursProxy
<1>2. CASE UNCHANGED <<node, child, proxy>>
  BY <1>2 DEF ChildHonoursProxy
<1>3. CASE SetProxy
  <2>1. PICK p \in Proxies :
          /\ proxy' = p
          /\ IF child # "null" /\ node[child].proxy # p THEN StopChild("setProxy")
             ELSE UNCHANGED <<node, child>>
    BY <1>3 DEF SetProxy, world
  <2> QED BY <1>1, <2>1 DEF ChildHonoursProxy
<1>4. ASSUME NEW j \in Jobs, Continue(j)
      PROVE  ChildHonoursProxy'
  <2>1. CASE Claimed(j) \/ ClaimedUnwritten(j)
    <3> DEFINE n == Newcomer
    <3>1. n \in Nodes
      BY <2>1, NewcomerIsFresh DEF Claimed, ClaimedUnwritten
    <3>2. Started(n) /\ child' = n /\ proxy' = proxy
      BY <2>1 DEF Claimed, ClaimedUnwritten
    <3> HIDE DEF n
    <3> QED BY <3>1, <3>2 DEF ChildHonoursProxy, Typed, Started
  <2>2. CASE UNCHANGED <<node, child, proxy>>
    BY <1>2, <2>2
  <2>3. CASE SpawnErrs(j)
    BY <2>3 DEF SpawnErrs, ChildHonoursProxy
  <2> QED BY <1>4, <2>1, <2>2, <2>3 DEF Continue, LocalProbed, OrphanProbed, ClaimThrows, Polled,
                                PollThrows, Stopped, world, self
<1>5. ASSUME NEW n \in Nodes, NodeUp(n) \/ NodeDies(n)
      PROVE  ChildHonoursProxy'
  <2>1. UNCHANGED <<child, proxy>> /\ \A m \in Nodes : node'[m].proxy = node[m].proxy
    BY <1>5 DEF NodeUp, NodeDies, self, Typed, Process
  <2> QED BY <2>1 DEF ChildHonoursProxy, Typed, Some
<1>6. CASE Crash
  BY <1>6 DEF Crash, ChildHonoursProxy
<1> QED BY <1>1, <1>2, <1>3, <1>4, <1>5, <1>6 DEF Next, Start, Stop, Tick, Probed, OutsideDies,
           vars, world, self

(* spv.js, setProxy() and _spawn(): the child sends its traffic where the  *)
(* last setProxy() said, whatever spawn, recovery or adoption was under    *)
(* way when it was called.                                                 *)
THEOREM ChildKeepsProxy == Spec => []ChildHonoursProxy
<1>1. Init => ChildHonoursProxy
  BY DEF Init, ChildHonoursProxy
<1> QED BY <1>1, ProxyStep, TypedAlways, PTL DEF Spec

-------------------------------------------------------------------------------
(* No node is lost. *)

(* Call j goes to pc, on a node, and no other call moves. *)
Moves(j, pc, on) == /\ \A k \in Jobs \ {j} : job'[k] = job[k]
                    /\ job'[j].pc = pc /\ job'[j].on = on

LEMMA CallMoves ==
  ASSUME Typed, NEW j \in Jobs
  PROVE  /\ End(j) => Moves(j, "idle", "null")
         /\ \A pc, on : Go(j, pc, on) => Moves(j, pc, on)
<1>1. End(j) => Moves(j, "idle", "null")
  BY DEF End, Moves, Idle, Typed
<1>2. ASSUME NEW pc, NEW on, Go(j, pc, on)
      PROVE  Moves(j, pc, on)
  <2> DEFINE x == [Idle EXCEPT !.pc = pc, !.on = on]
  <2>1. x.pc = pc /\ x.on = on
    BY DEF Idle
  <2>2. job' = [job EXCEPT ![j] = x] /\ DOMAIN job = Jobs
    BY <1>2 DEF Go, Typed
  <2> HIDE DEF x
  <2> QED BY <2>1, <2>2 DEF Moves
<1> QED BY <1>1, <1>2

(* A node is kept by every step that does not touch what keeps it. *)
LEMMA StaysKept ==
  ASSUME Typed, NEW n \in Nodes, Kept(n), NEW j \in Jobs, NEW pc, NEW on, Moves(j, pc, on),
         pc \notin {"claim", "stopping"}, pc = "orphan" => on = n, pc # "poll",
         UNCHANGED <<files, pidfile, child>>, adopted' \in {adopted, n}
  PROVE  Kept(n)'
<1>1. ASSUME NEW k \in Jobs
      PROVE  /\ job'[k].pc \notin {"claim", "stopping"}
             /\ job'[k].pc = "orphan" => job'[k].on = n
             /\ job'[k].pc = "poll" /\ job'[k].on = n => child' = n
  BY DEF Kept, Moves
<1> QED BY <1>1 DEF Kept

(* stopChild() tells the node to go that it is told of, and removes the     *)
(* files of no other but the strays'.                                       *)
LEMMA StopChildKeeps ==
  ASSUME Typed, Tidy, NEW j \in Jobs, StopChild(j), NEW n \in Nodes
  PROVE  ~Stays(n)'
<1> SUFFICES ASSUME Stays(n)' PROVE FALSE
  OBVIOUS
<1> DEFINE target == IF child # "null" THEN child ELSE adopted
<1>1. strays' = strays \cup Unadopted /\ n \notin strays /\ n \notin Unadopted
  BY DEF StopChild, Stays
<1>2. Runs(n)
  BY DEF StopChild, Stays, Runs, Typed
<1>3. Kept(n)
  BY <1>1, <1>2 DEF Tidy, Stays
<1>4. CASE target = n
  <2>1. node' = [node EXCEPT ![n].state = "dying"]
    BY <1>2, <1>4, Names DEF StopChild
  <2> QED BY <2>1 DEF Stays, Runs, Typed, Process
<1>5. CASE target # n
  <2>1. child = "null" /\ adopted = "null"
    BY <1>3, <1>5 DEF Kept
  <2>2. \A k \in Jobs : job[k].pc = "poll" => job[k].on # n
    BY <1>3, <2>1, Names DEF Kept
  <2> QED BY <1>1, <1>2, <1>3, <2>1, <2>2 DEF Unadopted, Kept
<1> QED BY <1>4, <1>5

(* A call that is about to spawn, or waits for a process to be gone, has    *)
(* no node behind it that is kept; what it spawns is.                       *)
LEMMA SpawnKeeps ==
  ASSUME Typed, Tidy, NEW j \in Jobs, job[j].pc = "claim", NEW n \in Nodes, Stays(n)',
         Claimed(j) \/ ClaimedUnwritten(j) \/ SpawnErrs(j) \/ ClaimThrows(j)
  PROVE  Kept(n)'
<1>1. \A m \in Nodes : ~Stays(m)
  BY DEF Tidy, Kept
<1>2. CASE Claimed(j)
  <2> DEFINE m == Newcomer
  <2>1. /\ Started(m) /\ files' = m /\ pidfile' = m /\ child' = m /\ Go(j, "poll", m)
        /\ strays' = IF Overlaps(j) THEN strays \cup {m} ELSE strays
    BY <1>2 DEF Claimed
  <2>2. m \in Nodes /\ \A k \in Jobs : job[k].on # m
    BY <1>2, NewcomerIsFresh DEF Claimed
  <2> HIDE DEF m
  <2>3. n = m
    BY <1>1, <2>1, <2>2 DEF Stays, Runs, Started, Typed
  <2>4. ~Overlaps(j)
    BY <2>1, <2>3 DEF Stays
  <2>5. Moves(j, "poll", m)
    BY <2>1, CallMoves
  <2>6. ASSUME NEW k \in Jobs
        PROVE  job'[k].pc \notin {"claim", "stopping", "orphan"}
    BY <2>4, <2>5 DEF Overlaps, Moves
  <2> QED BY <2>1, <2>3, <2>6, Names DEF Kept
<1>3. CASE ClaimedUnwritten(j)
  <2> DEFINE m == Newcomer
  <2>1. Started(m) /\ strays' = strays \cup {m} /\ m \in Nodes
    BY <1>3, NewcomerIsFresh DEF ClaimedUnwritten
  <2> HIDE DEF m
  <2>2. n # m /\ ~Stays(n)
    BY <1>1, <2>1 DEF Stays
  <2> QED BY <2>1, <2>2 DEF Stays, Runs, Started, Typed
<1>4. CASE SpawnErrs(j) \/ ClaimThrows(j)
  <2>1. UNCHANGED <<node, strays>>
    BY <1>4 DEF SpawnErrs, ClaimThrows
  <2> QED BY <1>1, <2>1 DEF Stays, Runs
<1> QED BY <1>2, <1>3, <1>4

LEMMA CallsTidy ==
  ASSUME Typed, Tidy, NEW j \in Jobs, Continue(j)
  PROVE  Tidy'
<1> SUFFICES ASSUME NEW n \in Nodes, Stays(n)' PROVE Kept(n)'
  BY DEF Tidy
<1>1. CASE Claimed(j) \/ ClaimedUnwritten(j) \/ SpawnErrs(j) \/ ClaimThrows(j)
  BY <1>1, SpawnKeeps DEF Claimed, ClaimedUnwritten, SpawnErrs, ClaimThrows
<1>2. CASE LocalProbed(j)
  <2>1. UNCHANGED <<world, child, adopted, strays>>
    BY <1>2 DEF LocalProbed
  <2>2. Kept(n)
    BY <2>1 DEF Tidy, Stays, Runs, world
  <2>3. files # "null"
    BY <2>2, Names DEF Kept
  <2>4. Moves(j, "idle", "null") \/ Moves(j, "orphan", n)
    BY <1>2, <2>2, <2>3, CallMoves DEF LocalProbed, Finished, SpawnBegins, Kept
  <2> QED BY <2>1, <2>2, <2>4, StaysKept DEF world
<1>3. CASE OrphanProbed(j)
  <2>1. UNCHANGED <<world, child>> /\ strays \subseteq strays' /\ job[j].pc = "orphan"
    BY <1>3 DEF OrphanProbed
  <2>2. Runs(n) /\ Kept(n)
    BY <2>1 DEF Tidy, Stays, Runs, world
  <2>3. job[j].on = n
    BY <2>1, <2>2 DEF Kept
  <2>4. Finished(j) /\ adopted' = pidfile
    BY <1>3, <2>2, <2>3 DEF OrphanProbed, Stays
  <2>5. Moves(j, "idle", "null") /\ adopted' = n
    BY <2>2, <2>4, CallMoves DEF Finished, Kept
  <2> QED BY <2>1, <2>2, <2>5, StaysKept DEF world
<1>4. CASE Polled(j) \/ PollThrows(j)
  <2>1. Moves(j, "idle", "null") /\ UNCHANGED <<world, self, strays>>
    BY <1>4, CallMoves DEF Polled, PollThrows, Thrown, Finished
  <2>2. Kept(n)
    BY <2>1 DEF Tidy, Stays, Runs, world
  <2> QED BY <2>1, <2>2, StaysKept DEF world, self
<1>5. CASE Stopped(j)
  <2>1. UNCHANGED <<node, strays>> /\ job[j].pc = "stopping"
    BY <1>5 DEF Stopped
  <2>2. Kept(n)
    BY <2>1 DEF Tidy, Stays, Runs
  <2> QED BY <2>1, <2>2 DEF Kept
<1> QED BY <1>1, <1>2, <1>3, <1>4, <1>5 DEF Continue

LEMMA TidyStep == Typed /\ Tidy /\ [Next]_vars => Tidy'
<1> SUFFICES ASSUME Typed, Tidy, [Next]_vars PROVE Tidy'
  OBVIOUS
<1>1. CASE UNCHANGED <<world, child, adopted, job, strays>>
  BY <1>1 DEF Tidy, Stays, Kept, Runs, world
<1>2. ASSUME NEW j \in Jobs, StopChild(j)
      PROVE  Tidy'
  BY <1>2, StopChildKeeps DEF Tidy
<1>3. ASSUME NEW j \in Jobs, NEW pc \in {"idle", "probe", "local"}, NEW on, Moves(j, pc, on),
             UNCHANGED <<world, self, strays>>
      PROVE  Tidy'
  <2> SUFFICES ASSUME NEW n \in Nodes, Stays(n)' PROVE Kept(n)'
    BY DEF Tidy
  <2>1. Kept(n)
    BY <1>3 DEF Tidy, Stays, Runs, world
  <2> QED BY <1>3, <2>1, StaysKept DEF world, self
<1>4. CASE Start
  <2>1. Moves("start", "local", "null") \/ job' = job
    BY <1>4, CallMoves DEF Start, Jobs
  <2> QED BY <1>1, <1>3, <1>4, <2>1 DEF Start, Jobs, self
<1>5. CASE SetProxy
  BY <1>1, <1>2, <1>5 DEF SetProxy, Jobs
<1>6. CASE Stop
  BY <1>2, <1>6 DEF Stop, Jobs
<1>7. CASE Tick \/ Probed
  <2>1. \/ StopChild("tick")
        \/ (Moves("tick", "idle", "null") \/ Moves("tick", "probe", "null"))
           /\ UNCHANGED <<world, self, strays>>
    BY <1>7, CallMoves DEF Tick, Probed, Jobs
  <2> QED BY <1>2, <1>3, <2>1 DEF Jobs
<1>8. CASE Crash
  <2>1. /\ \A j \in Jobs : job'[j].pc = "idle"
        /\ child' = "null" /\ adopted' = "null" /\ UNCHANGED <<world, strays>>
    BY <1>8 DEF Crash, Idle
  <2> QED BY <2>1 DEF Tidy, Stays, Kept, Runs, world
<1>9. ASSUME NEW m \in Nodes, NodeUp(m) \/ NodeDies(m)
      PROVE  Tidy'
  <2>1. /\ UNCHANGED <<files, pidfile, child, adopted>>
        /\ \A n \in Nodes : Stays(n)' => Stays(n)
    BY <1>9 DEF NodeUp, NodeDies, Stays, Runs, Typed, Process, self
  <2>2. \A j \in Jobs : job'[j].pc = job[j].pc /\ job'[j].on = job[j].on
    BY <1>9 DEF NodeUp, NodeDies, Typed, Call
  <2> QED BY <2>1, <2>2 DEF Tidy, Kept
<1> QED BY <1>1, <1>4, <1>5, <1>6, <1>7, <1>8, <1>9, CallsTidy DEF Next, OutsideDies, vars, self

(* spv.js: however start(), setProxy(), stop() and recoveries overlap, and *)
(* wherever the browser crashes, the files beside a node that runs are its *)
(* own, but for the strays NoNodeIsLost names.                             *)
THEOREM NodesAreKept == Spec => []NoNodeIsLost
<1> DEFINE Inv == Typed /\ Tidy
<1>1. Init => Inv
  <2>1. Init => Tidy
    BY DEF Init, Tidy, Stays, Runs
  <2> QED BY <2>1, TypedAtStart
<1>2. Inv /\ [Next]_vars => Inv'
  BY TypedStep, TidyStep
<1>3. Inv => NoNodeIsLost
  BY DEF Tidy, Stays, Kept, NoNodeIsLost
<1> QED BY <1>1, <1>2, <1>3, PTL DEF Spec
===============================================================================
