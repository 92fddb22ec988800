---------------------------- MODULE TorNodeProofs -----------------------------
(***************************************************************************)
(* The Tor node keeps one client and the promise of TorRoute, for any      *)
(* number of clients, overlapping calls, faults and crashes.               *)
(*                                                                         *)
(* Every step does one of a few things to the offer (OfferStep), whatever  *)
(* it does to processes and timers; the promise and the deadline are read  *)
(* off from those.  That one client runs needs no more than itself: the    *)
(* pid file is read again before each spawn, and names whatever still      *)
(* runs and was written to it, however many calls are past their last      *)
(* await.                                                                  *)
(***************************************************************************)
EXTENDS TorNode, TLAPS

TorInv ==
  /\ \A b \in {available, ready, waiting, bell, held} : b \in BOOLEAN
  /\ stale \in 0 .. MaxStale
  /\ waiting => ~ready
  /\ available /\ ~ready => held \/ stale > 0
  /\ waiting => held \/ stale > 0

(* What a step may do to the offer, and to the deadline that covers it. *)
OfferStep ==
  \/ UNCHANGED <<offer, session, held, stale>>
  \/ RouteUnavailable /\ UNCHANGED session /\ held' \in BOOLEAN /\ stale' \in 0 .. MaxStale
  \/ FlushReady /\ UNCHANGED <<session, bell, held, stale>>
  \/ /\ available' = TRUE /\ UNCHANGED <<session, ready, waiting, bell>>
     /\ IF ready THEN UNCHANGED <<held, stale>>
        ELSE held' = TRUE /\ stale' \in 0 .. MaxStale
  \/ available' = FALSE /\ UNCHANGED <<session, ready, waiting, bell, held, stale>>
  \/ ready /\ UNCHANGED <<offer, session>> /\ held' \in BOOLEAN /\ stale' \in 0 .. MaxStale
  \/ available /\ ~ready /\ waiting' = TRUE
     /\ UNCHANGED <<session, available, ready, bell, held, stale>>
  \/ /\ session' = session + 1 /\ available' = FALSE /\ ready' = FALSE
     /\ waiting' = FALSE /\ bell' = FALSE /\ held' = FALSE /\ stale' = 0

-------------------------------------------------------------------------------
(* The steps one by one; two groups, those that begin or continue a call    *)
(* and those that happen to the node.                                       *)
LEMMA CallsOffer ==
  ASSUME TorInv, (\E s \in Starts : Start(s)) \/ \E j \in Jobs : Continue(j)
  PROVE  OfferStep
<1>1. stale \in 0 .. MaxStale /\ MaxStale \in Nat \ {0} /\ held \in BOOLEAN
  BY TorNodeAssumption DEF TorInv
<1>2. ASSUME NEW s \in Starts, Start(s)
      PROVE  OfferStep
  <2>1. UNCHANGED <<timers, session>> /\ (UNCHANGED offer \/ RouteUnavailable)
    BY <1>2 DEF Start, LaunchThrows, FallBack
  <2> QED BY <1>1, <2>1 DEF OfferStep, timers
<1>3. ASSUME NEW j \in Jobs, PortChosen(j)
      PROVE  OfferStep
  <2>1. UNCHANGED <<timers, session>> /\ (UNCHANGED offer \/ RouteUnavailable)
    BY <1>3 DEF PortChosen, LaunchThrows, FallBack
  <2> QED BY <1>1, <2>1 DEF OfferStep, timers
<1>4. ASSUME NEW j \in Jobs, GraceEnds(j)
      PROVE  OfferStep
  <2>1. available' = TRUE /\ UNCHANGED <<session, ready, waiting, bell>>
    BY <1>4 DEF GraceEnds, bounds
  <2>2. IF ready THEN UNCHANGED <<held, stale>>
        ELSE held' = TRUE /\ stale' = IF held /\ stale < MaxStale THEN stale + 1 ELSE stale
    BY <1>4 DEF GraceEnds
  <2>3. ~ready => stale' = stale \/ (stale < MaxStale /\ stale' = stale + 1)
    BY <2>2
  <2>4. ~ready => stale' \in 0 .. MaxStale
    BY <1>1, <2>3
  <2> QED BY <2>1, <2>2, <2>4 DEF OfferStep
<1>5. ASSUME NEW j \in Jobs, GraceFails(j)
      PROVE  OfferStep
  <2>1. UNCHANGED <<timers, session>> /\ (UNCHANGED offer \/ RouteUnavailable)
    BY <1>5 DEF GraceFails, FallBack, bounds
  <2> QED BY <1>1, <2>1 DEF OfferStep, timers
<1>6. ASSUME NEW j \in Jobs, ExternalFound(j) \/ NoneFound(j)
      PROVE  OfferStep
  BY <1>6 DEF ExternalFound, NoneFound, OfferStep, timers, bounds
<1> QED BY <1>2, <1>3, <1>4, <1>5, <1>6 DEF Continue

LEMMA EventsOffer ==
  ASSUME TorInv,
         (\E c \in Clients : Exit(c) \/ Bootstrapped(c))
           \/ Deadline \/ WhenReady \/ Tick \/ Probed \/ Stop \/ Crash
  PROVE  OfferStep
<1>1. stale \in 0 .. MaxStale /\ MaxStale \in Nat \ {0} /\ held \in BOOLEAN
  BY TorNodeAssumption DEF TorInv
<1>2. ASSUME NEW c \in Clients, Exit(c)
      PROVE  OfferStep
  <2>1. UNCHANGED <<timers, session>> /\ (UNCHANGED offer \/ RouteUnavailable)
    BY <1>2 DEF Exit
  <2> QED BY <1>1, <2>1 DEF OfferStep, timers
<1>3. ASSUME NEW c \in Clients, Bootstrapped(c)
      PROVE  OfferStep
  BY <1>3 DEF Bootstrapped, OfferStep, timers, bounds
<1>4. CASE Deadline
  <2>0. \/ held' = FALSE /\ stale' = stale
        \/ held' = held /\ stale > 0 /\ stale' = stale - 1
    BY <1>4 DEF Deadline
  <2>1. held' \in BOOLEAN /\ stale' \in 0 .. MaxStale /\ UNCHANGED session
    <3>1. held' \in BOOLEAN
      BY <1>1, <2>0
    <3>2. stale' \in 0 .. MaxStale
      BY <1>1, <2>0
    <3> QED BY <1>4, <3>1, <3>2 DEF Deadline, bounds
  <2>2. (ready /\ UNCHANGED offer) \/ RouteUnavailable
    BY <1>4 DEF Deadline
  <2> QED BY <2>1, <2>2 DEF OfferStep
<1>5. CASE WhenReady
  BY <1>5 DEF WhenReady, OfferStep, timers, bounds
<1>6. ASSUME NEW n, Decide(n)
      PROVE  OfferStep
  <2>1. UNCHANGED <<held, stale, session>> /\ (UNCHANGED offer \/ RouteUnavailable)
    BY <1>6 DEF Decide, Respawn
  <2> QED BY <1>1, <2>1 DEF OfferStep
<1>7. CASE Tick
  <2>1. UNCHANGED <<offer, timers, bounds>> \/ Decide(Strikes)
    BY <1>7 DEF Tick
  <2> QED BY <1>6, <2>1 DEF OfferStep, timers, bounds
<1>8. CASE Probed
  <2>1. UNCHANGED <<offer, held, stale, bounds>> \/ \E n : Decide(n)
    BY <1>8 DEF Probed, ProbeAnswered, ProbeFailed
  <2> QED BY <1>6, <2>1 DEF OfferStep, bounds
<1>9. CASE Stop
  BY <1>1, <1>9 DEF Stop, OfferStep
<1>10. CASE Crash
  BY <1>10 DEF Crash, OfferStep
<1> QED BY <1>2, <1>3, <1>4, <1>5, <1>7, <1>8, <1>9, <1>10

LEMMA StepsOffer == TorInv /\ [Next]_vars => OfferStep
<1> SUFFICES ASSUME TorInv, [Next]_vars PROVE OfferStep
  OBVIOUS
<1>1. CASE UNCHANGED vars
  BY <1>1 DEF vars, timers, bounds, OfferStep
<1> QED BY <1>1, CallsOffer, EventsOffer DEF Next

LEMMA TorStep == TorInv /\ [Next]_vars => TorInv'
<1> SUFFICES ASSUME TorInv, OfferStep PROVE TorInv'
  BY StepsOffer
<1>1. stale' \in 0 .. MaxStale
  BY TorNodeAssumption DEF TorInv, OfferStep
<1>2. \A b \in {available', ready', waiting', bell', held'} : b \in BOOLEAN
  BY DEF TorInv, OfferStep, RouteUnavailable, FlushReady, offer
<1>3. /\ waiting' => ~ready'
      /\ available' /\ ~ready' => held' \/ stale' > 0
      /\ waiting' => held' \/ stale' > 0
  BY DEF TorInv, OfferStep, RouteUnavailable, FlushReady, offer
<1> QED BY <1>1, <1>2, <1>3 DEF TorInv

LEMMA TorAlways == Spec => []TorInv
<1>1. Init => TorInv
  <2>1. Init => stale \in 0 .. MaxStale
    BY TorNodeAssumption DEF Init
  <2> QED BY <2>1 DEF Init, TorInv
<1> QED BY <1>1, TorStep, PTL DEF Spec

(* tor.js, whenReady() and _waitForCircuit(): whoever waits is covered by  *)
(* a deadline that is pending, however many starts, recoveries and stops   *)
(* overlap.                                                                *)
THEOREM WaitsAreCovered == Spec => []DeadlineCoversWait
<1>1. TorInv => DeadlineCoversWait
  BY DEF TorInv, DeadlineCoversWait
<1> QED BY <1>1, TorAlways, PTL

(* tor.js implements TorRoute: the end of an offer is announced in its own *)
(* step and takes readiness and the waiters with it.                       *)
THEOREM NodeKeepsRoute == Spec => KeepsRoutePromise
<1>1. Init => Route!Init
  BY DEF Init, Route!Init
<1>2. TorInv /\ OfferStep => [Route!Next]_Route!route
  <2> SUFFICES ASSUME TorInv, OfferStep PROVE [Route!Next]_Route!route
    OBVIOUS
  <2>1. RouteUnavailable => bell' = IF available THEN ~bell ELSE bell
    BY DEF RouteUnavailable, TorInv
  <2> QED BY <2>1 DEF OfferStep, RouteUnavailable, FlushReady, offer, Route!Next,
             Route!route, Route!Offer, Route!Bootstrap, Route!Wait, Route!Revoke,
             Route!Withdraw, Route!Restart
<1> QED BY <1>1, <1>2, StepsOffer, TorAlways, PTL DEF Spec, KeepsRoutePromise, Route!Spec

-------------------------------------------------------------------------------
(* What runs and was not told to go is what the pid file names. *)
LEMMA KillSpares ==
  ASSUME NEW P, NEW c, NEW d \in Clients, Kill(P, c)[d] = "running"
  PROVE  P[d] = "running" /\ d # c
  BY DEF Kill

ClientInv == OneClient /\ DOMAIN proc = Clients

LEMMA LaunchLeavesOne ==
  ASSUME NEW P, NEW j \in Jobs, Launch(P, j),
         \A c \in Clients : P[c] = "running" => pidfile = c \/ c \in unwritten
  PROVE  ClientInv'
<1>1. PICK c \in Clients : /\ proc' = [Kill(P, pidfile) EXCEPT ![c] = "running"]
                           /\ WritePid(c)
  BY DEF Launch
<1>2. /\ pidfile' = c \/ c \in unwritten'
      /\ unwritten \subseteq unwritten'
  BY <1>1 DEF WritePid
<1>3. ASSUME NEW d \in Clients, d # c, proc'[d] = "running"
      PROVE  d \in unwritten
  <2>1. Kill(P, pidfile)[d] = "running"
    BY <1>1, <1>3 DEF Kill
  <2> QED BY <2>1, KillSpares
<1> QED BY <1>1, <1>2, <1>3 DEF ClientInv, OneClient, Kill

(* Whatever only kills, or leaves processes alone, keeps it. *)
LEMMA KillLeavesOne ==
  ASSUME ClientInv, NEW c, proc' = proc \/ proc' = Kill(proc, c),
         UNCHANGED <<pidfile, unwritten>>
  PROVE  ClientInv'
  BY KillSpares DEF ClientInv, OneClient, Kill

LEMMA ClientStep == ClientInv /\ [Next]_vars => ClientInv'
<1> SUFFICES ASSUME ClientInv, [Next]_vars PROVE ClientInv'
  OBVIOUS
<1> DEFINE Spared == (proc' = proc \/ \E c : proc' = Kill(proc, c))
                     /\ UNCHANGED <<pidfile, unwritten>>
<1>0. Spared => ClientInv'
  BY KillLeavesOne
<1>1. ASSUME NEW s \in Starts, Start(s)
      PROVE  ClientInv'
  <2>1. Launch(proc, s) \/ Spared
    BY <1>1 DEF Start, LaunchThrows, FallBack, outside
  <2> QED BY <1>0, <2>1, LaunchLeavesOne DEF ClientInv, OneClient, Jobs
<1>2. ASSUME NEW j \in Jobs, Continue(j)
      PROVE  ClientInv'
  <2>1. Launch(proc, j) \/ Spared
    BY <1>2 DEF Continue, PortChosen, GraceEnds, GraceFails, ExternalFound, NoneFound,
                LaunchThrows, FallBack, outside
  <2> QED BY <1>0, <2>1, LaunchLeavesOne DEF ClientInv, OneClient
<1>3. ASSUME NEW c \in Clients, Exit(c)
      PROVE  ClientInv'
  <2>1. /\ proc' = [proc EXCEPT ![c] = "free"]
        /\ pidfile' = IF pidfile = c THEN 0 ELSE pidfile
        /\ unwritten' = unwritten \ {c}
    BY <1>3 DEF Exit
  <2>2. ASSUME NEW d \in Clients, proc'[d] = "running"
        PROVE  pidfile' = d \/ d \in unwritten'
    <3>1. d # c /\ proc[d] = "running"
      BY <2>1, <2>2 DEF ClientInv
    <3> QED BY <2>1, <3>1 DEF ClientInv, OneClient
  <2> QED BY <2>1, <2>2 DEF ClientInv, OneClient
<1>4. ASSUME NEW n, Decide(n)
      PROVE  ClientInv'
  <2>1. Launch(Kill(proc, child), Supervisor) \/ Spared
    BY <1>4 DEF Decide, Respawn, outside
  <2>2. \A c \in Clients : Kill(proc, child)[c] = "running"
                         => pidfile = c \/ c \in unwritten
    BY KillSpares DEF ClientInv, OneClient
  <2> QED BY <1>0, <2>1, <2>2, LaunchLeavesOne DEF Jobs
<1>5. CASE Tick \/ Probed
  <2>1. Spared \/ \E n : Decide(n)
    BY <1>5 DEF Tick, Probed, ProbeAnswered, ProbeFailed, outside
  <2> QED BY <1>0, <1>4, <2>1
<1>6. CASE \/ \E c \in Clients : Bootstrapped(c)
           \/ Deadline \/ WhenReady \/ Stop \/ Crash \/ UNCHANGED vars
  <2>1. Spared
    BY <1>6 DEF Bootstrapped, Deadline, WhenReady, Stop, Crash, vars, outside
  <2> QED BY <1>0, <2>1
<1> QED BY <1>1, <1>2, <1>3, <1>5, <1>6 DEF Next

(* tor.js, _spawnTor() and _reapOrphan(): one Tor process at most runs     *)
(* that was not told to go and whose pid was written, and the pid file     *)
(* names it, for any number of overlapping calls, recoveries and crashes   *)
(* of the browser.                                                         *)
THEOREM OneClientRuns == Spec => []OneClient
<1>1. Init => ClientInv
  BY DEF Init, ClientInv, OneClient
<1>2. ClientInv => OneClient
  BY DEF ClientInv
<1> QED BY <1>1, <1>2, ClientStep, PTL DEF Spec

(* tor.js, the `exit' handler, _recover() and stop(): the step that loses  *)
(* the client ends the offer and leaves nobody waiting.                    *)
THEOREM LostClientEndsOffer == Spec => OfferGoesWithItsClient
<1>1. ASSUME [Next]_vars PROVE [GoesWithItsClient]_vars
  <2> SUFFICES ASSUME Next, child # 0, child' = 0
               PROVE  ~available' /\ ~waiting'
    BY <1>1 DEF GoesWithItsClient
  <2>0. 0 \notin Clients
    BY TorNodeAssumption
  <2>1. ASSUME NEW P, NEW j, Launch(P, j)
        PROVE  FALSE
    BY <2>0, <2>1 DEF Launch
  <2>2. CASE \E s \in Starts : Start(s)
    BY <2>1, <2>2 DEF Start, LaunchThrows, FallBack, RouteUnavailable
  <2>3. CASE \E j \in Jobs : Continue(j)
    BY <2>1, <2>3 DEF Continue, PortChosen, GraceEnds, GraceFails, ExternalFound, NoneFound,
                      LaunchThrows, FallBack, RouteUnavailable, source
  <2>4. CASE \E c \in Clients : Exit(c) \/ Bootstrapped(c)
    BY <2>4 DEF Exit, Bootstrapped, RouteUnavailable, source
  <2>5. ASSUME NEW n, Decide(n)
        PROVE  ~available' /\ ~waiting'
    BY <2>5 DEF Decide, Respawn, RouteUnavailable
  <2>6. CASE Tick \/ Probed
    BY <2>5, <2>6 DEF Tick, Probed, ProbeAnswered, ProbeFailed, source
  <2>7. CASE Deadline \/ WhenReady \/ Stop \/ Crash
    BY <2>7 DEF Deadline, WhenReady, Stop, Crash, RouteUnavailable, source
  <2> QED BY <2>2, <2>3, <2>4, <2>6, <2>7 DEF Next
<1> QED BY <1>1, PTL DEF Spec, OfferGoesWithItsClient
===============================================================================
