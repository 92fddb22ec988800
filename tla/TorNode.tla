------------------------------- MODULE TorNode --------------------------------
(***************************************************************************)
(* The Tor client the browser starts, watches and replaces                 *)
(* (namespaces/tor/src/tor.js).                                            *)
(*                                                                         *)
(* Every method is synchronous between its awaits, and nothing keeps two   *)
(* of them from overlapping: start() waits for a port, then up to two      *)
(* seconds for the client not to die (`grace'), then for a client of the   *)
(* user's own (`external'); the supervisor's tick waits for a probe and    *)
(* then spawns in the same way.  Calls in flight are `job'; what they      *)
(* close over is the client they spawned and whether it has died.          *)
(*                                                                         *)
(* Clients outlive the browser; the pid file is how the next run finds     *)
(* the one that did.  A pid that no longer runs is written as 0.           *)
(***************************************************************************)
EXTENDS Naturals, FiniteSets

CONSTANTS Clients,   \* identities of Tor processes, a set of positive numbers
          Starts,    \* identities of start() calls
          Supervisor,\* the identity of the supervisor's tick
          Strikes,   \* failed probes before a respawn, 3 in the code
          MaxCalls,  \* bound on start(), stop() and crashes
          MaxFaults, \* bound on clients that die or fail to spawn, and on pids
                     \* that do not reach the file
          MaxProcs,  \* bound on processes at a time whose pid was written
          MaxStale   \* bound on counted boot deadlines nobody holds

ASSUME TorNodeAssumption == /\ Clients \subseteq Nat \ {0}
                            /\ Supervisor \notin Starts
                            /\ Strikes \in Nat \ {0}
                            /\ MaxCalls \in Nat /\ MaxFaults \in Nat
                            /\ MaxProcs \in Nat /\ MaxStale \in Nat \ {0}

VARIABLES proc,       \* client -> free, running, or killed but not gone yet
          pidfile,    \* the client .tor-pid names, 0 for none
          unwritten,  \* history: clients whose pid never reached the file
          child,      \* this.child, 0 for null
          socks,      \* this._socks: the browser's own port or the user's
          external,   \* this._external
          available,  \* this._available
          ready,      \* this._ready
          waiting,    \* this._readyWaiters is not empty
          bell,       \* changes with each route-unavailable
          stopped,    \* this._stopped
          ported,     \* this._socksPort has been chosen
          held,       \* this._bootDeadline is pending
          stale,      \* boot deadlines pending that nothing refers to
          supervising,\* this._superviseTimer is set
          fails,      \* this._superviseFails
          job,        \* calls in flight
          session, calls, faults

outside == <<proc, pidfile, unwritten>>
offer == <<available, ready, waiting, bell>>
source == <<child, socks, external, stopped, ported>>
timers == <<held, stale, supervising, fails>>
bounds == <<session, calls, faults>>
vars == <<outside, offer, source, timers, job, bounds>>

Jobs == Starts \cup {Supervisor}
Job == [pc : {"idle", "port", "grace", "external", "probe"},
        client : Clients \cup {0}, died : BOOLEAN]
Idle == [pc |-> "idle", client |-> 0, died |-> FALSE]

TypeOK ==
  /\ proc \in [Clients -> {"free", "running", "killed"}]
  /\ unwritten \subseteq Clients
  /\ pidfile \in Clients \cup {0} /\ child \in Clients \cup {0}
  /\ socks \in {"none", "own", "external"}
  /\ \A b \in {external, available, ready, waiting, bell, stopped, ported,
               held, supervising} : b \in BOOLEAN
  /\ stale \in 0 .. MaxStale
  /\ fails \in 0 .. Strikes
  /\ job \in [Jobs -> Job]
  /\ \A s \in Starts : job[s].pc # "probe"
  /\ job[Supervisor].pc # "external"

Init ==
  /\ proc = [c \in Clients |-> "free"] /\ pidfile = 0 /\ unwritten = {}
  /\ child = 0 /\ socks = "none"
  /\ external = FALSE /\ stopped = FALSE /\ ported = FALSE
  /\ available = FALSE /\ ready = FALSE /\ waiting = FALSE /\ bell = FALSE
  /\ held = FALSE /\ stale = 0 /\ supervising = FALSE /\ fails = 0
  /\ job = [j \in Jobs |-> Idle]
  /\ session = 1 /\ calls = 0 /\ faults = 0

-------------------------------------------------------------------------------
(* SIGTERM to a process group; to one that is gone it does nothing. *)
Kill(P, c) == [d \in Clients |-> IF d = c /\ P[d] = "running" THEN "killed"
                                                             ELSE P[d]]

RouteUnavailable ==
  /\ ready' = FALSE /\ available' = FALSE /\ waiting' = FALSE
  /\ bell' = (bell # available)

(* A slip: readiness outruns availability. *)
FlushReadyOnly == ready' = TRUE /\ waiting' = FALSE /\ UNCHANGED available

FlushReady == available' = TRUE /\ ready' = TRUE /\ waiting' = FALSE

(* The pid is written after the spawn.  A write that fails is swallowed: it *)
(* leaves the file empty or naming the client that was just told to go,     *)
(* which comes to the same.  So does a browser killed between the two.      *)
WritePid(c) ==
  \/ pidfile' = c /\ UNCHANGED <<unwritten, faults>>
  \/ /\ faults < MaxFaults /\ faults' = faults + 1
     /\ pidfile' = 0 /\ unwritten' = unwritten \cup {c}

(* A slip: the client of the last run is forgotten when the file is written. *)
LaunchOverOrphan(P, j) ==
  \E c \in Clients :
    /\ P[c] = "free"
    /\ proc' = [P EXCEPT ![c] = "running"]
    /\ WritePid(c) /\ child' = c /\ socks' = "own"
    /\ job' = [job EXCEPT ![j] = [pc |-> "grace", client |-> c, died |-> FALSE]]

(* _spawnTor() from the reaping of the pid file to its first sleep, with P  *)
(* for what runs: the client of the last run goes, a new one comes.         *)
Launch(P, j) ==
  LET reaped == Kill(P, pidfile) IN
  \E c \in Clients :
    /\ reaped[c] = "free" /\ \A d \in Clients : reaped[d] = "free" => c <= d
    /\ Cardinality({d \in Clients \ unwritten : reaped[d] # "free"}) < MaxProcs
    /\ proc' = [reaped EXCEPT ![c] = "running"]
    /\ WritePid(c) /\ child' = c /\ socks' = "own"
    /\ job' = [job EXCEPT ![j] = [pc |-> "grace", client |-> c, died |-> FALSE]]

(* start()'s catch: stopChild(), then ask for a client of the user's own. *)
FallBack(j) ==
  /\ RouteUnavailable
  /\ proc' = Kill(proc, child) /\ child' = 0
  /\ job' = [job EXCEPT ![j] = [Idle EXCEPT !.pc = "external"]]
  /\ UNCHANGED <<pidfile, unwritten, socks, external>>

(* mkdir, the torrc or spawn() itself throws. *)
LaunchThrows(j) == /\ faults < MaxFaults /\ faults' = faults + 1
                   /\ FallBack(j)

Start(j) ==
  /\ job[j].pc = "idle"
  /\ calls < MaxCalls /\ calls' = calls + 1
  /\ stopped' = FALSE
  /\ \/ /\ ready
        /\ UNCHANGED <<outside, offer, child, socks, external, ported, job, faults>>
     \/ /\ ~ready /\ ~ported
        /\ job' = [job EXCEPT ![j].pc = "port"]
        /\ UNCHANGED <<outside, offer, child, socks, external, ported, faults>>
     \/ /\ ~ready /\ ported
        /\ \/ Launch(proc, j) /\ UNCHANGED <<offer, external, ported>>
           \/ LaunchThrows(j) /\ UNCHANGED ported
  /\ UNCHANGED <<timers, session>>

(* anyFreePort() has answered: nothing is asked again before the spawn. *)
PortChosen(j) ==
  /\ job[j].pc = "port"
  /\ ported' = TRUE
  /\ \/ Launch(proc, j) /\ UNCHANGED <<offer, external>>
     \/ LaunchThrows(j)
  /\ UNCHANGED <<stopped, timers, session, calls>>

(* The grace is over and the client of this call has not died.  A deadline  *)
(* set over another loses the only reference to it.                         *)
GraceEnds(j) ==
  /\ job[j].pc = "grace" /\ ~job[j].died
  /\ available' = TRUE
  /\ IF ready THEN UNCHANGED <<held, stale>>
     ELSE held' = TRUE /\ stale' = IF held /\ stale < MaxStale THEN stale + 1
                                                               ELSE stale
  /\ IF j = Supervisor THEN fails' = 0 /\ UNCHANGED supervising
     ELSE IF supervising \/ stopped \/ external
          THEN UNCHANGED <<supervising, fails>>
          ELSE supervising' = TRUE /\ fails' = 0
  /\ job' = [job EXCEPT ![j] = Idle]
  /\ UNCHANGED <<outside, source, ready, waiting, bell, bounds>>

GraceFails(j) ==
  /\ job[j].pc = "grace" /\ job[j].died
  /\ \/ j # Supervisor /\ FallBack(j) /\ UNCHANGED ported
     \/ /\ j = Supervisor
        /\ job' = [job EXCEPT ![j] = Idle]
        /\ UNCHANGED <<outside, offer, child, socks, external, ported>>
  /\ UNCHANGED <<stopped, timers, bounds>>

(* detectExternal() has answered. *)
ExternalFound(j) ==
  /\ job[j].pc = "external"
  /\ external' = TRUE /\ socks' = "external"
  /\ FlushReady
  /\ job' = [job EXCEPT ![j] = Idle]
  /\ UNCHANGED <<outside, child, stopped, ported, bell, timers, bounds>>

NoneFound(j) ==
  /\ job[j].pc = "external"
  /\ available' = FALSE
  /\ job' = [job EXCEPT ![j] = Idle]
  /\ UNCHANGED <<outside, source, ready, waiting, bell, timers, bounds>>

-------------------------------------------------------------------------------
(* The handlers of a client and of its deadlines. *)

(* A slip: the handler drops its client and leaves the offer to the probe. *)
ExitUnannounced(c) ==
  /\ \/ proc[c] = "killed" /\ UNCHANGED faults
     \/ proc[c] = "running" /\ faults < MaxFaults /\ faults' = faults + 1
  /\ proc' = [proc EXCEPT ![c] = "free"]
  /\ pidfile' = IF pidfile = c THEN 0 ELSE pidfile
  /\ unwritten' = unwritten \ {c}
  /\ job' = [j \in Jobs |-> IF job[j].client = c
                            THEN [job[j] EXCEPT !.died = TRUE, !.client = 0]
                            ELSE job[j]]
  /\ child' = IF child = c THEN 0 ELSE child
  /\ UNCHANGED <<offer, socks, external, stopped, ported, timers, session, calls>>

(* `exit' and `error': whoever spawned it is told, and the offer ends if it *)
(* is still the client of this node.                                        *)
Exit(c) ==
  /\ \/ proc[c] = "killed" /\ UNCHANGED faults
     \/ proc[c] = "running" /\ faults < MaxFaults /\ faults' = faults + 1
  /\ proc' = [proc EXCEPT ![c] = "free"]
  /\ pidfile' = IF pidfile = c THEN 0 ELSE pidfile
  /\ unwritten' = unwritten \ {c}
  /\ job' = [j \in Jobs |-> IF job[j].client = c
                            THEN [job[j] EXCEPT !.died = TRUE, !.client = 0]
                            ELSE job[j]]
  /\ IF child = c THEN RouteUnavailable /\ child' = 0
                  ELSE UNCHANGED <<offer, child>>
  /\ UNCHANGED <<socks, external, stopped, ported, timers, session, calls>>

(* `Bootstrapped 100%' on stdout. *)
Bootstrapped(c) ==
  /\ proc[c] # "free" /\ child = c /\ ~stopped
  /\ FlushReady
  /\ UNCHANGED <<outside, source, bell, timers, job, bounds>>

(* A slip: the deadline only ends the display of the bootstrap. *)
DeadlineIgnored ==
  /\ \/ held /\ held' = FALSE /\ UNCHANGED stale
     \/ stale > 0 /\ stale' = stale - 1 /\ UNCHANGED held
  /\ UNCHANGED <<offer, outside, source, supervising, fails, job, bounds>>

(* A boot deadline, this._bootDeadline or one that was replaced. *)
Deadline ==
  /\ \/ held /\ held' = FALSE /\ UNCHANGED stale
     \/ stale > 0 /\ stale' = stale - 1 /\ UNCHANGED held
  /\ IF ready THEN UNCHANGED offer ELSE RouteUnavailable
  /\ UNCHANGED <<outside, source, supervising, fails, job, bounds>>

WhenReady ==
  /\ available /\ ~ready
  /\ waiting' = TRUE
  /\ UNCHANGED <<outside, available, ready, bell, source, timers, job, bounds>>

-------------------------------------------------------------------------------
(* The supervisor.  `_recovering' is its tick being past the decision. *)

(* Counted up to the threshold; only being at it is ever asked. *)
Struck(n) == IF n < Strikes THEN n ELSE Strikes

Respawn ==
  /\ RouteUnavailable
  /\ \/ Launch(Kill(proc, child), Supervisor)
     \/ /\ faults < MaxFaults /\ faults' = faults + 1
        /\ proc' = Kill(proc, child) /\ child' = 0
        /\ job' = [job EXCEPT ![Supervisor] = Idle]
        /\ UNCHANGED <<pidfile, unwritten, socks>>

Decide(n) ==
  /\ fails' = n
  /\ \/ n = Strikes /\ Respawn
     \/ /\ n < Strikes
        /\ job' = [job EXCEPT ![Supervisor] = Idle]
        /\ UNCHANGED <<outside, offer, child, socks, faults>>
  /\ UNCHANGED <<external, stopped, ported, held, stale, supervising, session, calls>>

(* A slip: a node that offers nothing has nothing to probe. *)
TickWhileAvailable ==
  /\ supervising /\ ~stopped /\ job[Supervisor].pc = "idle" /\ available
  /\ job' = [job EXCEPT ![Supervisor].pc = "probe"]
  /\ UNCHANGED <<outside, offer, source, timers, bounds>>

(* Every 30 s. A node that offers nothing has reached its strikes already. *)
Tick ==
  /\ supervising /\ ~stopped /\ job[Supervisor].pc = "idle"
  /\ \/ /\ available
        /\ job' = [job EXCEPT ![Supervisor].pc = "probe"]
        /\ UNCHANGED <<outside, offer, source, timers, bounds>>
     \/ ~available /\ Decide(Strikes)

ProbeAnswered ==
  /\ job[Supervisor].pc = "probe"
  /\ \E c \in Clients : proc[c] # "free"
  /\ fails' = 0
  /\ job' = [job EXCEPT ![Supervisor] = Idle]
  /\ UNCHANGED <<outside, offer, source, held, stale, supervising, bounds>>

ProbeFailed ==
  /\ job[Supervisor].pc = "probe"
  /\ Decide(IF available THEN Struck(fails + 1) ELSE Strikes)

Stop ==
  /\ calls < MaxCalls /\ calls' = calls + 1
  /\ stopped' = TRUE
  /\ RouteUnavailable
  /\ supervising' = FALSE /\ held' = FALSE
  /\ IF external THEN UNCHANGED <<proc, child>>
                 ELSE proc' = Kill(proc, child) /\ child' = 0
  /\ UNCHANGED <<pidfile, unwritten, socks, external, ported, stale, fails, job,
                 session, faults>>

(* The browser is killed and started again; clients and file survive it. *)
Crash ==
  /\ calls < MaxCalls /\ calls' = calls + 1
  /\ session' = session + 1
  /\ child' = 0 /\ socks' = "none"
  /\ external' = FALSE /\ stopped' = FALSE /\ ported' = FALSE
  /\ available' = FALSE /\ ready' = FALSE /\ waiting' = FALSE /\ bell' = FALSE
  /\ held' = FALSE /\ stale' = 0 /\ supervising' = FALSE /\ fails' = 0
  /\ job' = [j \in Jobs |-> Idle]
  /\ UNCHANGED <<outside, faults>>

Continue(j) == \/ PortChosen(j) \/ GraceEnds(j) \/ GraceFails(j)
               \/ ExternalFound(j) \/ NoneFound(j)

Probed == ProbeAnswered \/ ProbeFailed

Next == \/ \E s \in Starts : Start(s)
        \/ \E j \in Jobs : Continue(j)
        \/ \E c \in Clients : Exit(c) \/ Bootstrapped(c)
        \/ Deadline \/ WhenReady \/ Tick \/ Probed \/ Stop \/ Crash

Spec == Init /\ [][Next]_vars

(* The tick's interval fires, its probe and its grace end, and a process    *)
(* that was told to go goes.  Nothing is assumed of bootstrapping, nor of   *)
(* the calls of start(), which may wait for ever.                           *)
FairSpec == /\ Spec
            /\ WF_vars(Continue(Supervisor))
            /\ WF_vars(\E c \in Clients : proc[c] = "killed" /\ Exit(c))
            /\ WF_vars(Tick) /\ WF_vars(Probed)

-------------------------------------------------------------------------------
(* At most one Tor process runs that was not told to go and whose pid was   *)
(* written, and the pid file names it: overlapping start() calls,           *)
(* recoveries and crashes of the browser leave no second client that        *)
(* nothing would ever kill.  The exception is a client whose pid never      *)
(* reached the file, because the write failed or the browser died first:    *)
(* tor.js 218-223 neither retries nor reports that, and then a second one   *)
(* can run.                                                                 *)
OneClient ==
  \A c \in Clients : proc[c] = "running" => pidfile = c \/ c \in unwritten

(* R20: the step that loses the client ends the offer and tells whoever    *)
(* waits; no later probe or request has to find it out.                    *)
GoesWithItsClient == child # 0 /\ child' = 0 => ~available' /\ ~waiting'
OfferGoesWithItsClient == [][GoesWithItsClient]_vars

(* Whoever waits for the circuit is covered by a deadline: however starts, *)
(* recoveries and stops overlap, one that fires and revokes is pending.    *)
DeadlineCoversWait == waiting => held \/ stale > 0

(* A client that died under the supervisor is replaced, as long as clients *)
(* do not die for ever: revocation does not switch the supervisor off.     *)
LostRouteReturns == (supervising /\ ~stopped /\ ~available)
                      ~> (available \/ ~supervising)

(* The client is the route of TorRoute. *)
Route == INSTANCE TorRoute WITH session <- session, available <- available,
           ready <- ready, waiting <- waiting, bell <- bell
KeepsRoutePromise == Route!Spec
===============================================================================
