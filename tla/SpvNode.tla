------------------------------- MODULE SpvNode --------------------------------
(***************************************************************************)
(* The Handshake node the browser starts, adopts, watches and restarts     *)
(* (src/spv.js).                                                           *)
(*                                                                         *)
(* start(), setProxy(), stop() and the supervisor's tick run through the   *)
(* same two procedures, stopChild() and _spawn(), with awaits in both, and *)
(* nothing keeps one from entering while another waits.  A node outlives   *)
(* the browser; the key and the ports of the last one spawned, and its pid, *)
(* are files beside it.  They are written one after another around the     *)
(* spawn, a write may fail, and the code goes on without most of them.     *)
(***************************************************************************)
EXTENDS Naturals

CONSTANTS Nodes,     \* identities of hsd processes, strings
          Proxies,   \* what the node's peer traffic may go through
          Strikes,   \* failed probes before a recovery, 3 in the code
          MaxCalls,  \* bound on start(), setProxy(), stop() and crashes
          MaxFaults  \* bound on nodes that die, and on writes and spawns that fail

ASSUME SpvAssumption ==
  /\ Nodes \cap {"null", "local", "configured"} = {}
  /\ Strikes \in Nat \ {0} /\ MaxCalls \in Nat /\ MaxFaults \in Nat

VARIABLES node,       \* what each process does, and its --proxy
          files,      \* the node that the key and the ports beside it name
          pidfile,    \* and the node whose pid is written there
          answering,  \* outside: the local or configured node answers
          configured, \* this._configuredUrl is set
          url,        \* this.url (and apiKey, which goes with it)
          child, adopted,            \* this.child, this.adoptedPid
          proxy,      \* this.proxy
          supervising, fails, recovering, stopped,
          job,        \* calls in flight
          strays,     \* history: nodes the code has let go, see NoNodeIsLost
          calls, faults

world == <<node, files, pidfile>>
outside == <<answering, configured>>
self == <<url, child, adopted, proxy>>
watch == <<supervising, fails, recovering, stopped>>
bounds == <<calls, faults>>
vars == <<world, outside, self, watch, job, strays, bounds>>

Jobs == {"start", "setProxy", "tick", "stop"}
Idle == [pc |-> "idle", on |-> "null", died |-> FALSE]
Some == Nodes \cup {"null"}
Runs(n) == n \in Nodes /\ node[n].state \in {"starting", "up"}

TypeOK ==
  /\ node \in [Nodes -> [state : {"dead", "starting", "up", "dying"},
                         proxy : Proxies]]
  /\ files \in Some /\ pidfile \in Some /\ child \in Some /\ adopted \in Some
  /\ url \in Some \cup {"local", "configured"}
  /\ answering \in BOOLEAN /\ configured \in BOOLEAN /\ proxy \in Proxies
  /\ supervising \in BOOLEAN /\ fails \in 0 .. Strikes
  /\ recovering \in BOOLEAN /\ stopped \in BOOLEAN
  /\ job \in [Jobs -> [pc : {"idle", "probe", "local", "orphan", "claim", "poll",
                             "stopping"}, on : Some, died : BOOLEAN]]
  /\ strays \subseteq Nodes
  /\ calls \in 0 .. MaxCalls /\ faults \in 0 .. MaxFaults

Init ==
  /\ proxy \in Proxies
  /\ node = [n \in Nodes |-> [state |-> "dead", proxy |-> proxy]]
  /\ files = "null" /\ pidfile = "null" /\ child = "null" /\ adopted = "null"
  /\ answering \in BOOLEAN /\ configured \in BOOLEAN
  /\ url = IF configured THEN "configured" ELSE "null"
  /\ supervising = FALSE /\ fails = 0 /\ recovering = FALSE /\ stopped = FALSE
  /\ job = [j \in Jobs |-> Idle]
  /\ strays = {} /\ calls = 0 /\ faults = 0

-------------------------------------------------------------------------------
Go(j, pc, on) == job' = [job EXCEPT ![j] = [Idle EXCEPT !.pc = pc, !.on = on]]
End(j) == job' = [job EXCEPT ![j] = Idle]
Busy(j) == job[j].pc \notin {"idle", "probe"}

(* Another call has let go of the last node and has not spawned the next.   *)
Overlaps(j) == \E k \in Jobs \ {j} : job[k].pc \in {"orphan", "claim", "stopping"}

(* A call returns; what start() and the tick do with it. *)
Finished(j) ==
  /\ End(j)
  /\ CASE j = "start" /\ ~supervising /\ ~stopped
            -> supervising' = TRUE /\ fails' = 0 /\ UNCHANGED recovering
       [] j = "tick" -> fails' = 0 /\ recovering' = FALSE /\ UNCHANGED supervising
       [] OTHER -> UNCHANGED <<supervising, fails, recovering>>

(* A slip: a recovery that has thrown counts as one still under way. *)
ThrownLatched(j) == End(j) /\ UNCHANGED <<supervising, fails, recovering>>

(* A call rejects. The tick catches it and will try again. *)
Thrown(j) ==
  /\ End(j)
  /\ recovering' = (recovering /\ j # "tick")
  /\ UNCHANGED <<supervising, fails>>

(* _spawn() up to its first await: is there an orphan to adopt? *)
SpawnBegins(j, F) == IF F = "null" THEN Go(j, "claim", "null") ELSE Go(j, "orphan", F)

(* stopChild() once the process is gone or the wait is over, and what its   *)
(* caller goes on with.                                                     *)
StopEnds(j) ==
  /\ files' = "null" /\ pidfile' = "null"
  /\ CASE j = "stop" -> End(j) /\ UNCHANGED url
       [] j = "tick" -> Go(j, "local", "null") /\ url' = "null"
       [] OTHER -> Go(j, "claim", "null") /\ url' = "null"

(* The orphan whose files a stopChild() that kills nothing removes: no call  *)
(* has adopted it, and none has just spawned it.                            *)
Unadopted == {n \in Nodes : /\ n = files /\ Runs(n) /\ child = "null" /\ adopted = "null"
                            /\ \A k \in Jobs : job[k].pc = "poll" => job[k].on # n}

(* stopChild() up to its await. *)
StopChild(j) ==
  LET target == IF child # "null" THEN child ELSE adopted IN
  /\ child' = "null" /\ adopted' = "null"
  /\ strays' = strays \cup Unadopted
  /\ IF target = "null" THEN StopEnds(j) /\ UNCHANGED node
     ELSE /\ node' = IF Runs(target) THEN [node EXCEPT ![target].state = "dying"]
                                     ELSE node
          /\ Go(j, "stopping", target)
          /\ UNCHANGED <<files, pidfile, url>>

Stopped(j) ==
  /\ job[j].pc = "stopping"
  /\ StopEnds(j)
  /\ UNCHANGED <<node, outside, child, adopted, proxy, watch, strays, bounds>>

Start ==
  /\ job["start"].pc = "idle" /\ calls < MaxCalls /\ calls' = calls + 1
  /\ IF url = "null"
     THEN Go("start", "local", "null") /\ UNCHANGED <<supervising, fails>>
     ELSE /\ supervising' = (supervising \/ ~stopped)
          /\ fails' = IF supervising \/ stopped THEN fails ELSE 0
          /\ UNCHANGED job
  /\ UNCHANGED <<world, outside, self, recovering, stopped, strays, faults>>

(* The answer of the local node, for start() and for a recovery. *)
LocalProbed(j) ==
  /\ job[j].pc = "local"
  /\ IF answering THEN url' = "local" /\ Finished(j)
     ELSE SpawnBegins(j, files) /\ UNCHANGED <<url, supervising, fails, recovering>>
  /\ UNCHANGED <<world, outside, child, adopted, proxy, stopped, strays, bounds>>

(* The orphan's answer. Its pid is read when it has answered. One that does *)
(* not answer is lost to the node that is spawned instead.                  *)
OrphanProbed(j) ==
  /\ job[j].pc = "orphan"
  /\ \/ /\ node[job[j].on].state \in {"up", "dying"}
        /\ url' = job[j].on /\ adopted' = pidfile
        /\ Finished(j) /\ UNCHANGED strays
     \/ /\ node[job[j].on].state # "up"
        /\ Go(j, "claim", "null")
        /\ strays' = strays \cup {n \in Nodes : n = job[j].on /\ Runs(n)}
        /\ UNCHANGED <<url, adopted, supervising, fails, recovering>>
  /\ UNCHANGED <<world, outside, child, proxy, stopped, bounds>>

(* Identities of processes nothing refers to, and the one a spawn takes. *)
Fresh == {n \in Nodes : /\ node[n].state = "dead"
                        /\ n \notin {url, child, adopted, files, pidfile}
                        /\ \A j \in Jobs : job[j].on # n}
Newcomer == CHOOSE n \in Fresh : TRUE

Started(n) == node' = [node EXCEPT ![n] = [state |-> "starting", proxy |-> proxy]]
Fault == faults < MaxFaults /\ faults' = faults + 1

(* A slip: a spawn takes the proxy of the node it replaces. *)
ClaimedAsBefore(j) ==
  /\ job[j].pc = "claim" /\ Fresh # {}
  /\ LET n == Newcomer IN
       /\ node' = [node EXCEPT ![n].state = "starting"]
       /\ url' = n /\ child' = n /\ files' = n /\ pidfile' = n
       /\ strays' = IF Overlaps(j) THEN strays \cup {n} ELSE strays
       /\ Go(j, "poll", n)
  /\ UNCHANGED <<outside, adopted, proxy, watch, bounds>>

(* A slip: this.child is set once the node has answered. *)
ClaimedUnheld(j) ==
  /\ job[j].pc = "claim" /\ Fresh # {}
  /\ LET n == Newcomer IN
       /\ Started(n)
       /\ url' = n /\ files' = n /\ pidfile' = n
       /\ strays' = IF Overlaps(j) THEN strays \cup {n} ELSE strays
       /\ Go(j, "poll", n)
  /\ UNCHANGED <<outside, child, adopted, proxy, watch, bounds>>

(* Ports are claimed: key and ports are written, the process is spawned and *)
(* its pid written, in one synchronous piece in which all goes well.        *)
Claimed(j) ==
  /\ job[j].pc = "claim" /\ Fresh # {}
  /\ LET n == Newcomer IN
       /\ Started(n)
       /\ url' = n /\ child' = n /\ files' = n /\ pidfile' = n
       /\ strays' = IF Overlaps(j) THEN strays \cup {n} ELSE strays
       /\ Go(j, "poll", n)
  /\ UNCHANGED <<outside, adopted, proxy, watch, bounds>>

(* The ports or the pid are not written, which the code does not mind, or   *)
(* (with a crash to follow) the browser is killed between spawn and pid.    *)
ClaimedUnwritten(j) ==
  /\ job[j].pc = "claim" /\ Fresh # {} /\ Fault
  /\ LET n == Newcomer IN
       /\ Started(n)
       /\ url' = n /\ child' = n /\ strays' = strays \cup {n}
       /\ \/ files' = n /\ UNCHANGED pidfile
          \/ pidfile' = n /\ UNCHANGED files
          \/ UNCHANGED <<files, pidfile>>
       /\ Go(j, "poll", n)
  /\ UNCHANGED <<outside, adopted, proxy, watch, calls>>

(* The process does not start: `error' comes before any probe, and takes   *)
(* this.child with it.  What is written names nobody.                      *)
SpawnErrs(j) ==
  /\ job[j].pc = "claim" /\ Fresh # {} /\ Fault
  /\ url' = Newcomer /\ files' = Newcomer /\ pidfile' = "null" /\ child' = "null"
  /\ job' = [job EXCEPT ![j] = [pc |-> "poll", on |-> Newcomer, died |-> TRUE]]
  /\ UNCHANGED <<node, outside, adopted, proxy, watch, strays, calls>>

(* Making the directory or finding ports has failed; or, once this.url is  *)
(* set, writing the key, or finding what to spawn.                         *)
ClaimThrows(j) ==
  /\ job[j].pc = "claim" /\ Fault
  /\ Thrown(j)
  /\ \/ UNCHANGED <<url, files>>
     \/ Fresh # {} /\ url' = Newcomer /\ files' \in {files, Newcomer}
  /\ UNCHANGED <<node, pidfile, outside, child, adopted, proxy, stopped, strays, calls>>

Answers(u) == \/ u \in {"local", "configured"} /\ answering
              \/ u \in Nodes /\ node[u].state = "up"

(* The probes of a spawn. They ask this.url, whoever has set it. *)
Polled(j) ==
  /\ job[j].pc = "poll" /\ ~job[j].died /\ Answers(url)
  /\ Finished(j)
  /\ UNCHANGED <<world, outside, self, stopped, strays, bounds>>

PollThrows(j) ==
  /\ job[j].pc = "poll"
  /\ \/ /\ job[j].died \/ (~Answers(url) /\ ~Runs(url))
        /\ UNCHANGED faults
     \/ Runs(url) /\ ~Answers(url) /\ Fault
  /\ Thrown(j)
  /\ UNCHANGED <<world, outside, self, stopped, strays, calls>>

SetProxy ==
  /\ job["setProxy"].pc = "idle" /\ calls < MaxCalls /\ calls' = calls + 1
  /\ \E p \in Proxies :
       /\ proxy' = p
       /\ IF child # "null" /\ node[child].proxy # p
          THEN StopChild("setProxy")
          ELSE UNCHANGED <<world, url, child, adopted, job, strays>>
  /\ UNCHANGED <<outside, watch, faults>>

Stop ==
  /\ job["stop"].pc = "idle" /\ calls < MaxCalls /\ calls' = calls + 1
  /\ stopped' = TRUE /\ supervising' = FALSE
  /\ StopChild("stop")
  /\ UNCHANGED <<outside, proxy, fails, recovering, faults>>

-------------------------------------------------------------------------------
(* The supervisor's tick, every 30 s. *)
Tick ==
  /\ supervising /\ job["tick"].pc = "idle"
  /\ ~recovering /\ ~stopped /\ url # "null"
  /\ Go("tick", "probe", "null")
  /\ UNCHANGED <<world, outside, self, watch, strays, bounds>>

MayRecover(n) == n >= Strikes

Probed ==
  /\ job["tick"].pc = "probe"
  /\ LET n == IF fails < Strikes THEN fails + 1 ELSE fails IN
     \/ /\ Answers(url) /\ fails' = 0
        /\ End("tick")
        /\ UNCHANGED <<world, self, recovering, strays>>
     \/ /\ ~Answers(url) /\ fails' = n
        /\ ~MayRecover(n) \/ configured
        /\ End("tick")
        /\ UNCHANGED <<world, self, recovering, strays>>
     \/ /\ ~Answers(url) /\ fails' = n
        /\ MayRecover(n) /\ ~configured
        /\ recovering' = TRUE
        /\ StopChild("tick")
        /\ UNCHANGED proxy
  /\ UNCHANGED <<outside, supervising, stopped, bounds>>

-------------------------------------------------------------------------------
(* Processes and the browser itself. *)
NodeUp(n) ==
  /\ node[n].state = "starting"
  /\ node' = [node EXCEPT ![n].state = "up"]
  /\ UNCHANGED <<files, pidfile, outside, self, watch, job, strays, bounds>>

NodeDies(n) ==
  /\ \/ node[n].state = "dying" /\ UNCHANGED faults
     \/ Runs(n) /\ Fault
  /\ node' = [node EXCEPT ![n].state = "dead"] /\ strays' = strays \ {n}
  /\ job' = [j \in Jobs |-> IF job[j].on = n /\ job[j].pc = "poll"
                            THEN [job[j] EXCEPT !.died = TRUE] ELSE job[j]]
  /\ UNCHANGED <<files, pidfile, outside, self, watch, calls>>

OutsideDies == /\ answering /\ Fault
               /\ answering' = FALSE
               /\ UNCHANGED <<world, configured, self, watch, job, strays, calls>>

Crash ==
  /\ calls < MaxCalls /\ calls' = calls + 1
  /\ url' = IF configured THEN "configured" ELSE "null"
  /\ child' = "null" /\ adopted' = "null" /\ proxy' \in Proxies
  /\ supervising' = FALSE /\ fails' = 0 /\ recovering' = FALSE /\ stopped' = FALSE
  /\ job' = [j \in Jobs |-> Idle]
  /\ UNCHANGED <<world, outside, strays, faults>>

Continue(j) == \/ LocalProbed(j) \/ OrphanProbed(j) \/ Claimed(j)
               \/ ClaimedUnwritten(j) \/ SpawnErrs(j) \/ ClaimThrows(j)
               \/ Polled(j) \/ PollThrows(j) \/ Stopped(j)

Next == \/ Start \/ SetProxy \/ Stop \/ Crash \/ Tick \/ Probed
        \/ \E j \in Jobs : Continue(j)
        \/ \E n \in Nodes : NodeUp(n) \/ NodeDies(n)
        \/ OutsideDies

Spec == Init /\ [][Next]_vars

FairSpec == /\ Spec
            /\ WF_vars(Tick) /\ WF_vars(Probed)
            /\ \A j \in Jobs : WF_vars(Continue(j))
            /\ \A n \in Nodes : /\ WF_vars(NodeUp(n))
                                /\ WF_vars(node[n].state = "dying" /\ NodeDies(n))

-------------------------------------------------------------------------------
(* The node this browser runs sends its peer traffic where the last        *)
(* setProxy() said, from that call on, whatever spawn or recovery was      *)
(* under way: `the node's proof fetches leave through Tor'.                *)
ChildHonoursProxy == child # "null" => node[child].proxy = proxy

(* A crash between any two steps of start(), setProxy(), stop() and a      *)
(* recovery, overlapping or not, leaves no node that nothing will ever     *)
(* kill: the key, the ports and the pid beside a node that runs are its    *)
(* own.  stop() while start() still waits for its node is one such case.   *)
(* The code itself lets a node go, a `stray', when                         *)
(*   - its ports or its pid could not be written, or the browser was       *)
(*     killed before the pid was;                                          *)
(*   - it is an orphan that did not answer the one probe it is given;      *)
(*   - it is an orphan nobody adopted (a node of the machine answers, or   *)
(*     stop() comes first) when a stopChild() that kills nothing removes   *)
(*     the files of the prefix;                                            *)
(*   - it was spawned while another call was between letting go of the     *)
(*     last node and spawning the next (Overlaps).                         *)
NoNodeIsLost == \A n \in Nodes : Runs(n) /\ n \notin strays => files = n /\ pidfile = n

(* A supervised node that stops answering is replaced, unless the browser  *)
(* stops.  The one state in which nothing comes is that of a recovery, or  *)
(* a setProxy(), that threw before _spawn() had set this.url: `next tick   *)
(* retries' says the catch of spv.js (line 245), and the tick returns on   *)
(* !this.url (line 220).                                                   *)
Unanswered == supervising /\ ~configured /\ ~Answers(url)
LeftWithoutUrl == url = "null" /\ \A j \in Jobs : job[j].pc = "idle"
LostNodeIsReplaced == Unanswered ~> (Answers(url) \/ ~supervising \/ LeftWithoutUrl)
===============================================================================
