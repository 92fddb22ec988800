---------------------------- MODULE PrivateLookup -----------------------------
(***************************************************************************)
(* One lookup of a Handshake name over DNS-over-HTTPS (src/doh.js), with   *)
(* the oblivious transport it tries first (src/odoh.js).                   *)
(*                                                                         *)
(* A lookup is a series of questions; the pointer at the name and the one  *)
(* in its DNSLink are asked together, the rest one after another.  A       *)
(* question goes to every relay of every target before it is lost to the   *)
(* oblivious transport, and to every plain endpoint after that, unless     *)
(* Private was on when it was asked.  What anybody answers is arbitrary:   *)
(* nothing here is proven, only read.                                      *)
(*                                                                         *)
(* A target's key is current or old.  A fetched key that is old when it    *)
(* arrives is a key that was rotated right after it arrived.               *)
(***************************************************************************)
EXTENDS Naturals

CONSTANTS Targets,     \* number of oblivious targets, tried in order
          Relays,      \* number of relays, tried in order for each target
          Endpoints,   \* number of plain endpoints
          Attempts,    \* walks of one resolve(), 3 in the code
          MaxSwitches, \* bound on changes of the delivery mode
          MaxRotations,\* bound on key rotations
          MaxForgets   \* bound on forget() and clearCache()

ASSUME LookupAssumption ==
  /\ Targets \in Nat \ {0} /\ Relays \in Nat \ {0} /\ Endpoints \in Nat \ {0}
  /\ Attempts \in Nat \ {0}
  /\ MaxSwitches \in Nat /\ MaxRotations \in Nat /\ MaxForgets \in Nat

VARIABLES odoh,      \* an oblivious transport is configured
          private,   \* strictOblivious()
          key,       \* target -> what _cfgs holds: none, old or current
          call,      \* which method: resolve, txtRecords or addressOf
          phase,     \* the question or questions it is at
          ask,       \* the question at the name, and the one beside it
          attempt, overtaken,  \* resolve(): its attempt; epoch has moved
          outcome,   \* what the call returned
          lost,      \* history: the questions of the attempt that were lost
          exposed,   \* history: a question of this call was asked in the clear
          kept,      \* history: Private has been on during the whole call
          switches, rotations, forgets

bounds == <<switches, rotations, forgets>>
walk == <<call, phase, attempt, overtaken, outcome, lost>>
vars == <<odoh, private, key, walk, ask, exposed, kept, bounds>>

Questions == {"txt", "link", "a", "aaaa", "tlsa"}
Slots == {"name", "beside"}
NoAnswer == {"none", "lost"}
Answers == {"records", "empty", "nx"}

(* hurt, a history: something other than one rotation went wrong.          *)
Question == [pc : {"idle", "config", "relay", "refetch", "plain", "done"},
             strict : BOOLEAN, round : 1 .. 2, target : 1 .. Targets,
             relay : 1 .. Relays, retried : BOOLEAN, sealed : {"old", "current"},
             base : 1 .. Endpoints, empty : BOOLEAN,
             result : NoAnswer \cup Answers, hurt : BOOLEAN]

NotAsked == [pc |-> "idle", strict |-> FALSE, round |-> 1, target |-> 1,
             relay |-> 1, retried |-> FALSE, sealed |-> "current", base |-> 1,
             empty |-> FALSE, result |-> "none", hurt |-> FALSE]

Outcome == [kind : {"none", "pointer", "conflict", "site", "unregistered",
                    "unreachable", "text", "changed"},
            consent : BOOLEAN]
NoOutcome == [kind |-> "none", consent |-> FALSE]

TypeOK ==
  /\ odoh \in BOOLEAN /\ private \in BOOLEAN
  /\ key \in [1 .. Targets -> {"none", "old", "current"}]
  /\ call \in {"none", "resolve", "txtRecords", "addressOf"}
  /\ phase \in {"idle", "text", "a", "aaaa", "tlsa"}
  /\ ask \in [Slots -> Question]
  /\ attempt \in 1 .. Attempts /\ overtaken \in BOOLEAN
  /\ outcome \in Outcome /\ lost \subseteq Questions
  /\ exposed \in BOOLEAN /\ kept \in BOOLEAN
  /\ switches \in 0 .. MaxSwitches /\ rotations \in 0 .. MaxRotations
  /\ forgets \in 0 .. MaxForgets

Init ==
  /\ odoh \in BOOLEAN /\ private \in BOOLEAN
  /\ key = [t \in 1 .. Targets |-> "none"]
  /\ call = "none" /\ phase = "idle" /\ ask = [s \in Slots |-> NotAsked]
  /\ attempt = 1 /\ overtaken = FALSE /\ outcome = NoOutcome
  /\ lost = {} /\ exposed = FALSE /\ kept = FALSE
  /\ switches = 0 /\ rotations = 0 /\ forgets = 0

-------------------------------------------------------------------------------
(* A question on its way: OdohTransport.query() and DoHResolver._query().   *)

Answered(q, r) == [NotAsked EXCEPT !.pc = "done", !.result = r]

(* The first plain endpoint is asked. *)
Plain(q) == [NotAsked EXCEPT !.pc = "plain", !.strict = q.strict,
                             !.empty = q.empty, !.hurt = q.hurt]

(* _seal(): with the key that is known, or after fetching one. *)
Seal(q) == IF key[q.target] = "none" THEN [q EXCEPT !.pc = "config"]
           ELSE [q EXCEPT !.pc = "relay", !.sealed = key[q.target]]

(* A slip: an unconfirmed answer is worth a plain question. *)
FallBackToConfirm(q) ==
  IF q.strict /\ ~q.empty THEN Answered(q, "lost")
  ELSE Plain(q)

(* The oblivious path has not settled it. In Private nothing else may. *)
FallBack(q) == IF q.strict THEN Answered(q, "lost") ELSE Plain(q)

(* The transport gave up, or what it brought does not parse: in the second  *)
(* round the empty answer of the first is still there to be remembered.     *)
Unsettled(q) == FallBack([q EXCEPT !.empty = @ \/ q.round = 2])

(* The next relay, or the first one of the next target, which may be asked  *)
(* for its key again; after the last, query() throws.                       *)
NextHop(q) ==
  IF q.relay < Relays THEN Seal([q EXCEPT !.relay = @ + 1])
  ELSE IF q.target < Targets
       THEN Seal([q EXCEPT !.target = @ + 1, !.relay = 1, !.retried = FALSE])
  ELSE Unsettled(q)

Query(q, n) == Seal([q EXCEPT !.round = n, !.target = 1, !.relay = 1,
                              !.retried = FALSE])

(* _query() up to its first await. *)
Asked ==
  LET q == [NotAsked EXCEPT !.strict = private] IN
  IF odoh THEN Query(q, 1) ELSE FallBack(q)

Hurt(q) == [q EXCEPT !.hurt = TRUE]

(* A slip: after a refusal the next relay is asked. *)
RefusedOnward(q) == IF q.retried THEN NextHop(q)
                    ELSE NextHop([q EXCEPT !.retried = TRUE])

(* A slip: a key is fetched again as often as it is refused. *)
RefusedAgain(q) == [q EXCEPT !.pc = "refetch", !.retried = TRUE]

(* A relay's reply: none, an unusable one, a refusal of the key, an answer. *)
Refused(q) == IF q.retried THEN NextHop(q)
              ELSE [q EXCEPT !.pc = "refetch", !.retried = TRUE]

Replies(q) ==
  {NextHop(Hurt(q)), Unsettled(Hurt(q))}
    \cup (IF q.sealed = "old" THEN {Refused(q)}
          ELSE {Refused(Hurt(q)), Answered(q, "records"), Answered(q, "nx"),
                IF q.round = 1 THEN Query(q, 2) ELSE Answered(q, "empty")})

(* A plain endpoint's: lost or SERVFAIL, empty, or one that settles it.     *)
NextEndpoint(q) ==
  IF q.base < Endpoints THEN [q EXCEPT !.base = @ + 1]
  ELSE Answered(q, IF q.empty THEN "empty" ELSE "lost")

PlainReplies(q) == {NextEndpoint(q), NextEndpoint([q EXCEPT !.empty = TRUE]),
                    Answered(q, "records"), Answered(q, "nx")}

Put(s, q) == /\ ask' = [ask EXCEPT ![s] = q]
             /\ exposed' = (exposed \/ q.pc = "plain")

Ready(s) == /\ ask[s].pc \in {"config", "refetch"}
            /\ key' = [key EXCEPT ![ask[s].target] = "current"]
            /\ Put(s, [ask[s] EXCEPT !.pc = "relay", !.sealed = "current"])

NotReady(s) == /\ ask[s].pc \in {"config", "refetch"}
               /\ Put(s, NextHop(Hurt(ask[s])))
               /\ UNCHANGED key

RelayReplies(s) == /\ ask[s].pc = "relay"
                   /\ \E q \in Replies(ask[s]) : Put(s, q)
                   /\ UNCHANGED key

EndpointReplies(s) == /\ ask[s].pc = "plain"
                      /\ \E q \in PlainReplies(ask[s]) : Put(s, q)
                      /\ UNCHANGED key

Step(s) == /\ Ready(s) \/ NotReady(s) \/ RelayReplies(s) \/ EndpointReplies(s)
           /\ UNCHANGED <<odoh, private, walk, kept, bounds>>

-------------------------------------------------------------------------------
(* The lookup: _resolveTimed(), txtRecords() and addressOf().               *)

AskOne == [name |-> Asked, beside |-> NotAsked]
AskBoth == [s \in Slots |-> Asked]

(* The next question, or questions. *)
GoTo(p, a) == /\ phase' = p /\ ask' = a
              /\ exposed' = (exposed \/ \E s \in Slots : a[s].pc = "plain")

Begin(c) ==
  /\ call = "none" /\ call' = c
  /\ IF c = "addressOf" THEN GoTo("a", AskOne)
     ELSE IF c = "txtRecords" THEN GoTo("text", AskOne)
     ELSE GoTo("text", AskBoth)
  /\ kept' = private
  /\ UNCHANGED <<odoh, private, key, attempt, overtaken, outcome, lost, bounds>>

(* resolve(): a walk that was overtaken runs again. *)
Rerun == /\ attempt < Attempts /\ attempt' = attempt + 1
         /\ overtaken' = FALSE /\ lost' = {}
         /\ GoTo("text", AskBoth)
         /\ UNCHANGED outcome

(* The walk has its answer, and resolve() returns it or begins again; gone  *)
(* is what this step lost.                                                  *)
Return(kind, consent, gone) ==
  IF call = "resolve" /\ overtaken /\ attempt < Attempts THEN Rerun
  ELSE /\ outcome' = IF call = "resolve" /\ overtaken
                     THEN [kind |-> "changed", consent |-> FALSE]
                     ELSE [kind |-> kind, consent |-> consent]
       /\ lost' = lost \cup gone
       /\ phase' = "idle" /\ ask' = [s \in Slots |-> NotAsked]
       /\ UNCHANGED <<attempt, overtaken, exposed>>

Continue(p, gone) == /\ GoTo(p, AskOne)
                     /\ lost' = lost \cup gone
                     /\ UNCHANGED <<attempt, overtaken, outcome>>

Result(s) == ask[s].result
Gone(s, question) == IF Result(s) = "lost" THEN {question} ELSE {}

(* A TXT answer may hold no pointer; a lost one counts as none. *)
Text ==
  /\ phase = "text"
  /\ ask["name"].pc = "done" /\ ask["beside"].pc \in {"idle", "done"}
  /\ LET gone == Gone("name", "txt") \cup Gone("beside", "link")
         records == {s \in Slots : Result(s) = "records"}
     IN IF call = "txtRecords"
        THEN IF Result("name") = "lost" THEN Return("unreachable", FALSE, gone)
             ELSE \/ "name" \in records /\ Return("text", FALSE, gone)
                  \/ Return("unregistered", FALSE, gone)
        ELSE \/ records = Slots /\ Return("conflict", FALSE, gone)
             \/ records # {} /\ Return("pointer", FALSE, gone)
             \/ Continue("a", gone)

(* Without an A address AAAA is asked, and without that there is none. *)
Address ==
  /\ phase \in {"a", "aaaa"} /\ ask["name"].pc = "done"
  /\ \/ Result("name") = "lost" /\ Return("unreachable", FALSE, {phase})
     \/ /\ Result("name") = "records"
        /\ IF call = "addressOf" THEN Return("site", FALSE, {})
                                 ELSE Continue("tlsa", {})
     \/ /\ Result("name") # "lost"
        /\ IF phase = "a" THEN Continue("aaaa", {})
                          ELSE Return("unregistered", FALSE, {})

(* A slip: no pin was read, so none is published. *)
PinLossConsents ==
  /\ phase = "tlsa" /\ ask["name"].pc = "done"
  /\ \/ Result("name") = "records" /\ Return("site", FALSE, {})
     \/ Return("site", TRUE, Gone("name", "tlsa"))

(* Plaintext is consented to by a TLSA answer without a pin. *)
Pin ==
  /\ phase = "tlsa" /\ ask["name"].pc = "done"
  /\ \/ Result("name") \in {"lost", "records"}
        /\ Return("site", FALSE, Gone("name", "tlsa"))
     \/ Result("name") # "lost" /\ Return("site", TRUE, {})

Walk == /\ Text \/ Address \/ Pin
        /\ UNCHANGED <<odoh, private, key, call, kept, bounds>>

(* forget() of the name, or clearCache(). *)
Forget == /\ forgets < MaxForgets /\ forgets' = forgets + 1
          /\ overtaken' = (call # "none")
          /\ UNCHANGED <<odoh, private, key, call, phase, ask, attempt, outcome,
                         lost, exposed, kept, switches, rotations>>

Switch == /\ switches < MaxSwitches /\ switches' = switches + 1
          /\ private' = ~private /\ kept' = FALSE
          /\ UNCHANGED <<odoh, key, walk, ask, exposed, rotations, forgets>>

(* A target gets a new key: what is known, and what was sealed, is old. *)
Rotate(t) ==
  /\ rotations < MaxRotations /\ rotations' = rotations + 1
  /\ key' = [key EXCEPT ![t] = IF @ = "none" THEN @ ELSE "old"]
  /\ ask' = [s \in Slots |->
       IF ask[s].pc = "relay" /\ ask[s].target = t
       THEN [ask[s] EXCEPT !.sealed = "old", !.hurt = @ \/ ask[s].retried]
       ELSE ask[s]]
  /\ UNCHANGED <<odoh, private, walk, exposed, kept, switches, forgets>>

(* CONFIG_TTL_MS is over; a question that is sealed stays sealed. *)
Expire(t) == /\ key[t] # "none"
             /\ key' = [key EXCEPT ![t] = "none"]
             /\ UNCHANGED <<odoh, private, walk, ask, exposed, kept, bounds>>

Done == outcome.kind # "none"
Returned == Done /\ UNCHANGED vars

Next == \/ \E c \in {"resolve", "txtRecords", "addressOf"} : Begin(c)
        \/ \E s \in Slots : Step(s)
        \/ Walk \/ Forget \/ Switch
        \/ \E t \in 1 .. Targets : Rotate(t) \/ Expire(t)
        \/ Returned

Spec == Init /\ [][Next]_vars

(* Every request has a timeout. *)
FairSpec == Spec /\ WF_vars(Walk) /\ \A s \in Slots : WF_vars(Step(s))

-------------------------------------------------------------------------------
(* 9.3 of the handshake SPEC: while Private is on, a lookup is oblivious or *)
(* it fails. No question of a call during which Private was never off is    *)
(* asked in the clear, whatever the relays and targets answer.              *)
NoPlainInPrivate == kept => ~exposed

(* What could not be asked is no answer, but for the pointer.  A walk that  *)
(* says `unregistered' had A and AAAA answered, txtRecords() had TXT; and   *)
(* plaintext is consented to by answers about address and pin, never by a   *)
(* loss.  The exception: resolve() takes a lost TXT, or a lost DNSLink, for *)
(* one without a pointer (doh.js 345-348).  A name that publishes only a    *)
(* pointer, and whose TXT is lost, ends as `unregistered' (412), against    *)
(* the comment there (392-397): `an answer that could not be had is         *)
(* unreachable, never unregistered'.                                        *)
LossIsNoAnswer ==
  /\ outcome.kind = "unregistered" /\ call = "txtRecords" => "txt" \notin lost
  /\ outcome.kind = "unregistered" /\ call # "txtRecords" => lost \subseteq {"txt", "link"}
  /\ outcome.consent => lost \subseteq {"txt", "link"}

(* A key rotation costs no lookup: the oblivious transport gives a question *)
(* up only after a fault, or a second rotation while it was being asked.    *)
RotationIsRidden ==
  \A s \in Slots : odoh /\ ask[s].pc = "plain" => ask[s].hurt

(* Every call ends, with an answer or without, though keys are refused and  *)
(* names forgotten while it runs.                                           *)
CallsEnd == call # "none" ~> Done
===============================================================================
