-------------------------- MODULE PrivateLookupProofs --------------------------
(***************************************************************************)
(* A Private lookup stays oblivious, a lost address or pin is no answer    *)
(* and a rotation is ridden out, for any number of targets, relays,        *)
(* endpoints and attempts.                                                 *)
(*                                                                         *)
(* The three need one invariant of a question on its way (Sound): what it  *)
(* was told when it was asked stays with it, and the only way to run out   *)
(* of relays without a fault is a key that turns old after it was fetched  *)
(* again, which a question remembers.  WalkInv relates what was lost to    *)
(* how far the walk has come.                                              *)
(***************************************************************************)
EXTENDS PrivateLookup, TLAPS

(* A question that nothing but rotations happened to is not given up. *)
Sound(q) == /\ q \in Question
            /\ odoh /\ q.pc = "relay" /\ q.sealed = "old" /\ q.retried => q.hurt
            /\ odoh /\ q.pc = "plain" => q.hurt

(* A question asked in Private, or over. *)
Silent(q) == /\ q.pc # "plain"
             /\ q.pc \in {"config", "relay", "refetch"} => q.strict

WalkInv ==
  /\ call \in {"none", "resolve", "txtRecords", "addressOf"}
  /\ phase \in {"idle", "text", "a", "aaaa", "tlsa"}
  /\ call = "none" => phase = "idle" /\ ~Done
  /\ phase # "idle" => ~Done
  /\ ~Done => ~outcome.consent
  /\ call = "txtRecords" => phase \in {"idle", "text"}
  /\ phase = "text" \/ call = "none" => lost = {}
  /\ phase \in {"a", "aaaa", "tlsa"} => lost \subseteq {"txt", "link"}
  /\ LossIsNoAnswer

LookupInv ==
  /\ odoh \in BOOLEAN /\ private \in BOOLEAN
  /\ key \in [1 .. Targets -> {"none", "old", "current"}]
  /\ ask \in [Slots -> Question] /\ \A s \in Slots : Sound(ask[s])
  /\ call = "none" => ~exposed /\ \A s \in Slots : ask[s].pc = "idle"
  /\ kept => private /\ ~exposed /\ \A s \in Slots : Silent(ask[s])
  /\ WalkInv

-------------------------------------------------------------------------------
(* Operations on a question. *)

LEMMA FirstOfAll == 1 \in 1 .. Targets /\ 1 \in 1 .. Relays /\ 1 \in 1 .. Endpoints
  BY LookupAssumption

LEMMA NotAskedIsSound == /\ NotAsked \in Question /\ Sound(NotAsked) /\ Silent(NotAsked)
                         /\ NotAsked.pc = "idle"
<1>1. NotAsked \in Question
  BY FirstOfAll DEF NotAsked, Question, NoAnswer
<1> QED BY <1>1 DEF Sound, Silent, NotAsked

LEMMA AnsweredIsSound ==
  ASSUME NEW q, NEW r \in NoAnswer \cup Answers
  PROVE  Sound(Answered(q, r)) /\ Silent(Answered(q, r))
<1>1. Answered(q, r) \in Question
  BY NotAskedIsSound DEF Answered, Question
<1>2. Answered(q, r).pc = "done"
  BY NotAskedIsSound DEF Answered, Question
<1> QED BY <1>1, <1>2 DEF Sound, Silent

LEMMA SealIsSound ==
  ASSUME NEW q \in Question, key \in [1 .. Targets -> {"none", "old", "current"}],
         odoh => q.hurt \/ ~q.retried
  PROVE  Sound(Seal(q)) /\ (q.strict => Silent(Seal(q)))
<1>1. q.target \in 1 .. Targets /\ key[q.target] \in {"none", "old", "current"}
  BY DEF Question
<1>2. CASE key[q.target] = "none"
  BY <1>2 DEF Sound, Silent, Seal, Question
<1>3. CASE key[q.target] # "none"
  BY <1>1, <1>3 DEF Sound, Silent, Seal, Question
<1> QED BY <1>2, <1>3

LEMMA QueryIsSound ==
  ASSUME NEW q \in Question, key \in [1 .. Targets -> {"none", "old", "current"}],
         NEW n \in 1 .. 2
  PROVE  Sound(Query(q, n)) /\ (q.strict => Silent(Query(q, n)))
<1> DEFINE p == [q EXCEPT !.round = n, !.target = 1, !.relay = 1, !.retried = FALSE]
<1>1. p \in Question /\ ~p.retried /\ p.strict = q.strict
  BY FirstOfAll DEF Question
<1>2. Query(q, n) = Seal(p)
  BY DEF Query
<1> HIDE DEF p
<1> QED BY <1>1, <1>2, SealIsSound

LEMMA FallBackIsSound ==
  ASSUME NEW q \in Question, odoh => q.hurt
  PROVE  Sound(FallBack(q)) /\ (q.strict => Silent(FallBack(q)))
<1>1. CASE q.strict
  BY <1>1, AnsweredIsSound DEF FallBack, NoAnswer
<1>2. CASE ~q.strict
  <2>1. Plain(q) \in Question /\ Plain(q).pc = "plain" /\ Plain(q).hurt = q.hurt
    BY NotAskedIsSound DEF Plain, Question
  <2>2. Sound(Plain(q))
    BY <2>1 DEF Sound
  <2> QED BY <1>2, <2>2 DEF FallBack
<1> QED BY <1>1, <1>2

LEMMA UnsettledIsSound ==
  ASSUME NEW q \in Question, odoh => q.hurt
  PROVE  Sound(Unsettled(q)) /\ (q.strict => Silent(Unsettled(q)))
<1> DEFINE p == [q EXCEPT !.empty = @ \/ q.round = 2]
<1>1. p \in Question /\ p.strict = q.strict /\ p.hurt = q.hurt
  BY DEF Question
<1>2. Unsettled(q) = FallBack(p)
  BY DEF Unsettled
<1> HIDE DEF p
<1> QED BY <1>1, <1>2, FallBackIsSound

LEMMA NextHopIsSound ==
  ASSUME NEW q \in Question, key \in [1 .. Targets -> {"none", "old", "current"}],
         odoh => q.hurt
  PROVE  Sound(NextHop(q)) /\ (q.strict => Silent(NextHop(q)))
<1>1. CASE q.relay < Relays
  <2> DEFINE p == [q EXCEPT !.relay = @ + 1]
  <2>1. q.relay \in 1 .. Relays /\ q.relay + 1 \in 1 .. Relays
    BY <1>1, LookupAssumption DEF Question
  <2>2. p \in Question /\ p.strict = q.strict /\ p.hurt = q.hurt
    BY <2>1 DEF Question
  <2>3. NextHop(q) = Seal(p)
    BY <1>1 DEF NextHop
  <2> HIDE DEF p
  <2> QED BY <2>2, <2>3, SealIsSound
<1>2. CASE q.relay >= Relays /\ q.target < Targets
  <2> DEFINE p == [q EXCEPT !.target = @ + 1, !.relay = 1, !.retried = FALSE]
  <2>1. q.target + 1 \in 1 .. Targets /\ q.relay \in 1 .. Relays
    BY <1>2, LookupAssumption DEF Question
  <2>2. p \in Question /\ p.strict = q.strict /\ ~p.retried
    BY <2>1, FirstOfAll DEF Question
  <2>3. NextHop(q) = Seal(p)
    BY <1>2, <2>1, LookupAssumption DEF NextHop
  <2> HIDE DEF p
  <2> QED BY <2>2, <2>3, SealIsSound
<1>3. CASE q.relay >= Relays /\ q.target >= Targets
  <2>1. NextHop(q) = Unsettled(q)
    BY <1>3, LookupAssumption DEF NextHop, Question
  <2> QED BY <2>1, UnsettledIsSound
<1> QED BY <1>1, <1>2, <1>3, LookupAssumption DEF Question

LEMMA HurtIsMarked ==
  ASSUME NEW q \in Question
  PROVE  Hurt(q) \in Question /\ Hurt(q).hurt /\ Hurt(q).strict = q.strict
  BY DEF Hurt, Question

(* Whatever a relay says: a fault is marked, and a refusal of a key that    *)
(* was just fetched is a second rotation.                                   *)
LEMMA RepliesAreSound ==
  ASSUME NEW q, Sound(q), q.pc = "relay", NEW p \in Replies(q),
         key \in [1 .. Targets -> {"none", "old", "current"}]
  PROVE  Sound(p) /\ (q.strict => Silent(p))
<1>1. q \in Question /\ (odoh /\ q.sealed = "old" /\ q.retried => q.hurt)
  BY DEF Sound
<1>2. CASE p = NextHop(Hurt(q)) \/ p = Unsettled(Hurt(q))
  BY <1>1, <1>2, HurtIsMarked, NextHopIsSound, UnsettledIsSound
<1>3. ASSUME NEW r \in Question, r.strict = q.strict, p = Refused(r),
             odoh /\ r.retried => r.hurt
      PROVE  Sound(p) /\ (q.strict => Silent(p))
  <2>1. CASE r.retried
    BY <1>3, <2>1, NextHopIsSound DEF Refused
  <2>2. CASE ~r.retried
    BY <1>3, <2>2 DEF Refused, Sound, Silent, Question
  <2> QED BY <2>1, <2>2
<1>4. CASE q.sealed = "old" /\ p = Refused(q)
  BY <1>1, <1>3, <1>4
<1>5. CASE p = Refused(Hurt(q))
  BY <1>1, <1>3, <1>5, HurtIsMarked
<1>6. CASE p \in {Answered(q, "records"), Answered(q, "nx"), Answered(q, "empty")}
  BY <1>6, AnsweredIsSound DEF Answers
<1>7. CASE p = Query(q, 2)
  BY <1>1, <1>7, QueryIsSound
<1> QED BY <1>2, <1>4, <1>5, <1>6, <1>7 DEF Replies

LEMMA PlainRepliesAreSound ==
  ASSUME NEW q, Sound(q), q.pc = "plain", NEW p \in PlainReplies(q)
  PROVE  Sound(p)
<1>1. q \in Question /\ (odoh => q.hurt)
  BY DEF Sound
<1>2. ASSUME NEW r \in Question, odoh => r.hurt, r.pc = "plain"
      PROVE  Sound(NextEndpoint(r))
  <2>1. CASE r.base < Endpoints
    <3>1. r.base + 1 \in 1 .. Endpoints
      BY <2>1, LookupAssumption DEF Question
    <3> QED BY <1>2, <2>1, <3>1 DEF NextEndpoint, Sound, Question
  <2>2. CASE ~(r.base < Endpoints)
    BY <2>2, AnsweredIsSound DEF NextEndpoint, NoAnswer, Answers
  <2> QED BY <2>1, <2>2
<1>3. CASE p = NextEndpoint(q)
  BY <1>1, <1>2, <1>3
<1>4. CASE p = NextEndpoint([q EXCEPT !.empty = TRUE])
  <2> DEFINE r == [q EXCEPT !.empty = TRUE]
  <2>1. r \in Question /\ r.hurt = q.hurt /\ r.pc = "plain"
    BY <1>1 DEF Question
  <2> HIDE DEF r
  <2> QED BY <1>1, <1>2, <1>4, <2>1 DEF r
<1>5. CASE p \in {Answered(q, "records"), Answered(q, "nx")}
  BY <1>5, AnsweredIsSound DEF Answers
<1> QED BY <1>3, <1>4, <1>5 DEF PlainReplies

(* Whatever may be asked next. *)
Asks(a) == /\ a \in [Slots -> Question]
           /\ \A s \in Slots : Sound(a[s]) /\ (private => Silent(a[s]))

(* A question is sound when it is asked, and silent when Private is on. *)
LEMMA AskedIsSound ==
  ASSUME private \in BOOLEAN, key \in [1 .. Targets -> {"none", "old", "current"}]
  PROVE  Asks(AskOne) /\ Asks(AskBoth)
<1> DEFINE q == [NotAsked EXCEPT !.strict = private]
<1>1. q \in Question /\ q.strict = private
  BY NotAskedIsSound DEF Question
<1>2. Asked = IF odoh THEN Query(q, 1) ELSE FallBack(q)
  BY DEF Asked
<1>3. Sound(Asked) /\ (private => Silent(Asked))
  <2> HIDE DEF q
  <2> QED BY <1>1, <1>2, QueryIsSound, FallBackIsSound
<1>4. Asked \in Question /\ NotAsked \in Question
  BY <1>3, NotAskedIsSound DEF Sound
<1>5. \A s \in Slots : AskOne[s] \in {Asked, NotAsked} /\ AskBoth[s] = Asked
  BY DEF AskOne, AskBoth, Slots
<1>6. AskOne \in [Slots -> Question] /\ AskBoth \in [Slots -> Question]
  BY <1>4 DEF AskOne, AskBoth, Slots
<1>7. ASSUME NEW s \in Slots
      PROVE  /\ Sound(AskOne[s]) /\ (private => Silent(AskOne[s]))
             /\ Sound(AskBoth[s]) /\ (private => Silent(AskBoth[s]))
  <2>1. AskOne[s] = Asked \/ AskOne[s] = NotAsked
    BY <1>5
  <2>2. AskBoth[s] = Asked
    BY <1>5
  <2> QED BY <1>3, <2>1, <2>2, NotAskedIsSound
<1> QED BY <1>6, <1>7 DEF Asks

-------------------------------------------------------------------------------
(* Steps. *)

LEMMA GoToKeeps ==
  ASSUME LookupInv, NEW p, NEW a \in {AskOne, AskBoth}, GoTo(p, a),
         call # "none" \/ kept' = private, call' # "none", WalkInv',
         kept' => private, call # "none" => kept' = kept,
         UNCHANGED <<odoh, private, key>>
  PROVE  LookupInv'
<1>1. Asks(a)
  <2>1. private \in BOOLEAN /\ key \in [1 .. Targets -> {"none", "old", "current"}]
    BY DEF LookupInv
  <2> QED BY <2>1, AskedIsSound
<1>2. ask' = a /\ exposed' = (exposed \/ \E s \in Slots : a[s].pc = "plain")
  BY DEF GoTo
<1>3. ask' \in [Slots -> Question] /\ \A s \in Slots : Sound(ask[s])'
  BY <1>1, <1>2 DEF Asks, Sound
<1>4. kept' => ~exposed' /\ \A s \in Slots : Silent(ask'[s])
  <2> SUFFICES ASSUME kept' PROVE ~exposed' /\ \A s \in Slots : Silent(ask'[s])
    OBVIOUS
  <2>1. ~exposed
    BY DEF LookupInv
  <2>2. \A s \in Slots : Silent(a[s])
    BY <1>1 DEF Asks
  <2> QED BY <1>2, <2>1, <2>2 DEF Silent
<1>5. /\ odoh' \in BOOLEAN /\ private' \in BOOLEAN /\ (kept' => private')
      /\ key' \in [1 .. Targets -> {"none", "old", "current"}]
  BY DEF LookupInv
<1>6. (\A s \in Slots : Silent(ask'[s])) <=> (\A s \in Slots : Silent(ask[s]))'
  BY DEF Silent
<1> QED BY <1>3, <1>4, <1>5, <1>6 DEF LookupInv

LEMMA ContinueKeeps ==
  ASSUME LookupInv, NEW p \in {"a", "aaaa", "tlsa"}, NEW gone, Continue(p, gone),
         call \in {"resolve", "addressOf"}, phase # "idle",
         lost \cup gone \subseteq {"txt", "link"},
         UNCHANGED <<odoh, private, key, call, kept>>
  PROVE  LookupInv'
<1>1. /\ GoTo(p, AskOne) /\ phase' = p /\ lost' = lost \cup gone
      /\ outcome' = outcome /\ ~Done
  BY DEF Continue, GoTo, LookupInv, WalkInv
<1>2. outcome.kind = "none" /\ ~outcome.consent
  BY <1>1 DEF Done, LookupInv, WalkInv
<1>3. WalkInv'
  BY <1>1, <1>2 DEF WalkInv, LossIsNoAnswer, Done
<1> QED BY <1>1, <1>3, GoToKeeps DEF LookupInv

LEMMA ReturnKeeps ==
  ASSUME LookupInv, NEW kind, NEW consent \in BOOLEAN, NEW gone, Return(kind, consent, gone),
         call # "none", phase # "idle", kind # "none",
         kind = "unregistered" /\ call = "txtRecords" => "txt" \notin lost \cup gone,
         kind = "unregistered" /\ call # "txtRecords" => lost \cup gone \subseteq {"txt", "link"},
         consent => lost \cup gone \subseteq {"txt", "link"},
         UNCHANGED <<odoh, private, key, call, kept>>
  PROVE  LookupInv'
<1>1. CASE call = "resolve" /\ overtaken /\ attempt < Attempts
  <2>1. GoTo("text", AskBoth) /\ lost' = {} /\ outcome' = outcome /\ ~Done
    BY <1>1 DEF Return, Rerun, LookupInv, WalkInv
  <2>2. outcome.kind = "none" /\ ~outcome.consent /\ phase' = "text"
    BY <2>1 DEF Done, GoTo, LookupInv, WalkInv
  <2>3. WalkInv'
    BY <1>1, <2>1, <2>2 DEF WalkInv, LossIsNoAnswer, Done
  <2> QED BY <2>1, <2>3, GoToKeeps DEF LookupInv
<1>2. CASE ~(call = "resolve" /\ overtaken /\ attempt < Attempts)
  <2>1. /\ outcome' = IF call = "resolve" /\ overtaken
                      THEN [kind |-> "changed", consent |-> FALSE]
                      ELSE [kind |-> kind, consent |-> consent]
        /\ lost' = lost \cup gone /\ phase' = "idle" /\ exposed' = exposed
        /\ ask' = [s \in Slots |-> NotAsked]
    BY <1>2 DEF Return
  <2>2. LossIsNoAnswer' /\ outcome'.kind # "none"
    BY <2>1 DEF LossIsNoAnswer
  <2>3. WalkInv'
    BY <2>1, <2>2 DEF WalkInv, Done, LookupInv
  <2>4. \A s \in Slots : ask'[s] = NotAsked
    BY <2>1
  <2>5. ask' \in [Slots -> Question] /\ \A s \in Slots : Sound(ask[s])' /\ Silent(ask'[s])
    BY <2>1, <2>4, NotAskedIsSound DEF Sound
  <2> QED BY <2>1, <2>3, <2>5 DEF LookupInv
<1> QED BY <1>1, <1>2

LEMMA WalkKeeps ==
  ASSUME LookupInv, Walk
  PROVE  LookupInv'
<1>1. /\ UNCHANGED <<odoh, private, key, call, kept>>
      /\ call \in {"none", "resolve", "txtRecords", "addressOf"}
      /\ call = "none" => phase = "idle"
  BY DEF Walk, LookupInv, WalkInv
<1>2. CASE Text
  <2> DEFINE gone == Gone("name", "txt") \cup Gone("beside", "link")
  <2>1. phase = "text" /\ lost = {} /\ call # "none" /\ gone \subseteq {"txt", "link"}
    BY <1>1, <1>2 DEF Text, Gone, LookupInv, WalkInv
  <2>2. Result("name") # "lost" => "txt" \notin gone
    BY DEF Gone
  <2>3. CASE call = "txtRecords"
    <3>1. \/ Return("unreachable", FALSE, gone) \/ Return("text", FALSE, gone)
          \/ Result("name") # "lost" /\ Return("unregistered", FALSE, gone)
      BY <1>2, <2>3 DEF Text
    <3> HIDE DEF gone
    <3> QED BY <1>1, <2>1, <2>2, <2>3, <3>1, ReturnKeeps
  <2>4. CASE call # "txtRecords"
    <3>1. \/ Return("conflict", FALSE, gone) \/ Return("pointer", FALSE, gone)
          \/ Continue("a", gone)
      BY <1>2, <2>4 DEF Text
    <3> HIDE DEF gone
    <3> QED BY <1>1, <2>1, <2>4, <3>1, ReturnKeeps, ContinueKeeps
  <2> QED BY <2>3, <2>4
<1>3. CASE Address
  <2>1. /\ phase \in {"a", "aaaa"} /\ lost \subseteq {"txt", "link"} /\ call # "none"
        /\ call # "txtRecords"
    BY <1>1, <1>3 DEF Address, LookupInv, WalkInv
  <2>2. \/ Return("unreachable", FALSE, {phase}) \/ Return("site", FALSE, {})
        \/ Continue("tlsa", {}) \/ Continue("aaaa", {}) \/ Return("unregistered", FALSE, {})
    BY <1>3 DEF Address
  <2> QED BY <1>1, <2>1, <2>2, ReturnKeeps, ContinueKeeps
<1>4. CASE Pin
  <2>1. phase = "tlsa" /\ lost \subseteq {"txt", "link"} /\ call # "none"
    BY <1>1, <1>4 DEF Pin, LookupInv, WalkInv
  <2>2. \/ Return("site", FALSE, Gone("name", "tlsa")) \/ Return("site", TRUE, {})
    BY <1>4 DEF Pin
  <2> QED BY <1>1, <2>1, <2>2, ReturnKeeps
<1> QED BY <1>2, <1>3, <1>4 DEF Walk

(* One question goes on. *)
LEMMA PutKeeps ==
  ASSUME LookupInv, NEW s \in Slots, NEW q, Put(s, q), Sound(q),
         kept => Silent(q), call # "none",
         key' \in [1 .. Targets -> {"none", "old", "current"}],
         UNCHANGED <<odoh, private, walk, kept>>
  PROVE  LookupInv'
<1>1. /\ ask' = [ask EXCEPT ![s] = q] /\ exposed' = (exposed \/ q.pc = "plain")
      /\ ask \in [Slots -> Question]
  BY DEF Put, LookupInv
<1>2. \A t \in Slots : ask'[t] = IF t = s THEN q ELSE ask[t]
  BY <1>1
<1>3. ask' \in [Slots -> Question] /\ \A t \in Slots : Sound(ask[t])'
  BY <1>1, <1>2 DEF LookupInv, Sound
<1>4. kept => ~exposed' /\ \A t \in Slots : Silent(ask'[t])
  BY <1>1, <1>2 DEF LookupInv, Silent
<1>5. WalkInv'
  BY DEF LookupInv, WalkInv, walk, LossIsNoAnswer, Done
<1> QED BY <1>3, <1>4, <1>5 DEF LookupInv, walk

LEMMA StepKeeps ==
  ASSUME LookupInv, NEW s \in Slots, Step(s)
  PROVE  LookupInv'
<1> DEFINE q == ask[s]
<1>1. /\ UNCHANGED <<odoh, private, walk, kept>>
      /\ q \in Question /\ Sound(q) /\ (kept => Silent(q))
      /\ key \in [1 .. Targets -> {"none", "old", "current"}]
  BY DEF Step, LookupInv
<1>2. call # "none"
  BY DEF Step, Ready, NotReady, RelayReplies, EndpointReplies, LookupInv
<1>3. CASE Ready(s)
  <2> DEFINE p == [q EXCEPT !.pc = "relay", !.sealed = "current"]
  <2>1. Put(s, p) /\ key' = [key EXCEPT ![q.target] = "current"] /\ q.pc \in {"config", "refetch"}
    BY <1>3 DEF Ready
  <2>2. Sound(p) /\ (kept => Silent(p))
    BY <1>1, <2>1 DEF Sound, Silent, Question
  <2>3. key' \in [1 .. Targets -> {"none", "old", "current"}]
    BY <1>1, <2>1
  <2> HIDE DEF p
  <2> QED BY <1>1, <1>2, <2>1, <2>2, <2>3, PutKeeps
<1>4. CASE NotReady(s)
  <2>1. Put(s, NextHop(Hurt(q))) /\ key' = key /\ q.pc \in {"config", "refetch"}
    BY <1>4 DEF NotReady
  <2>2. Sound(NextHop(Hurt(q))) /\ (kept => Silent(NextHop(Hurt(q))))
    BY <1>1, <2>1, HurtIsMarked, NextHopIsSound DEF Silent
  <2> QED BY <1>1, <1>2, <2>1, <2>2, PutKeeps
<1>5. CASE RelayReplies(s)
  <2>1. PICK p \in Replies(q) : Put(s, p) /\ key' = key /\ q.pc = "relay"
    BY <1>5 DEF RelayReplies
  <2>2. Sound(p) /\ (kept => Silent(p))
    BY <1>1, <2>1, RepliesAreSound DEF Silent
  <2> QED BY <1>1, <1>2, <2>1, <2>2, PutKeeps
<1>6. CASE EndpointReplies(s)
  <2>1. PICK p \in PlainReplies(q) : Put(s, p) /\ key' = key /\ q.pc = "plain"
    BY <1>6 DEF EndpointReplies
  <2>2. Sound(p) /\ ~kept
    BY <1>1, <2>1, PlainRepliesAreSound DEF Silent
  <2> QED BY <1>1, <1>2, <2>1, <2>2, PutKeeps
<1> QED BY <1>3, <1>4, <1>5, <1>6 DEF Step

LEMMA LookupStarts == Init => LookupInv
<1> SUFFICES ASSUME Init PROVE LookupInv
  OBVIOUS
<1>1. \A s \in Slots : ask[s] = NotAsked
  BY DEF Init
<1>2. ask \in [Slots -> Question] /\ \A s \in Slots : Sound(ask[s]) /\ ask[s].pc = "idle"
  BY <1>1, NotAskedIsSound DEF Init
<1>3. WalkInv
  BY DEF Init, WalkInv, LossIsNoAnswer, Done, NoOutcome
<1>4. ~exposed /\ ~kept
  BY DEF Init
<1>5. odoh \in BOOLEAN /\ private \in BOOLEAN /\ key \in [1 .. Targets -> {"none", "old", "current"}]
  BY DEF Init
<1> QED BY <1>2, <1>3, <1>4, <1>5 DEF LookupInv

LEMMA BeginKeeps ==
  ASSUME LookupInv, NEW c \in {"resolve", "txtRecords", "addressOf"}, Begin(c)
  PROVE  LookupInv'
<1>1. /\ call = "none" /\ call' = c /\ kept' = private
      /\ outcome' = outcome /\ lost' = lost
      /\ UNCHANGED <<odoh, private, key>>
  BY DEF Begin
<1>2. PICK p \in {"text", "a"}, a \in {AskOne, AskBoth} :
        GoTo(p, a) /\ (c = "txtRecords" => p = "text")
  BY DEF Begin
<1>3. lost = {} /\ outcome.kind = "none" /\ ~outcome.consent /\ phase' = p
  BY <1>1, <1>2 DEF GoTo, LookupInv, WalkInv, Done
<1>4. WalkInv'
  BY <1>1, <1>2, <1>3 DEF WalkInv, LossIsNoAnswer, Done
<1> QED BY <1>1, <1>2, <1>4, GoToKeeps

(* What happens around a lookup. *)
LEMMA WorldKeeps ==
  ASSUME LookupInv, Forget \/ Switch \/ \E t \in 1 .. Targets : Rotate(t) \/ Expire(t)
  PROVE  LookupInv'
<1>0. UNCHANGED walk \/ Forget
  BY DEF Switch, Rotate, Expire
<1>1. WalkInv' /\ UNCHANGED <<odoh, exposed, call>>
  BY DEF LookupInv, WalkInv, LossIsNoAnswer, Done, Forget, Switch, Rotate, Expire, walk
<1>2. CASE Forget
  BY <1>1, <1>2 DEF Forget, LookupInv, Sound, Silent
<1>3. CASE Switch
  <2>1. ask' = ask /\ key' = key /\ kept' = FALSE /\ private' \in BOOLEAN
    BY <1>3 DEF Switch, LookupInv
  <2> QED BY <1>1, <2>1 DEF LookupInv, Sound
<1>4. ASSUME NEW t \in 1 .. Targets, Expire(t)
      PROVE  LookupInv'
  <2>1. ask' = ask /\ UNCHANGED <<private, kept>>
    BY <1>4 DEF Expire
  <2>2. key' \in [1 .. Targets -> {"none", "old", "current"}]
    BY <1>4 DEF Expire, LookupInv
  <2> QED BY <1>1, <2>1, <2>2 DEF LookupInv, Sound, Silent
<1>5. ASSUME NEW t \in 1 .. Targets, Rotate(t)
      PROVE  LookupInv'
  <2>1. UNCHANGED <<private, kept>>
    BY <1>5 DEF Rotate
  <2>2. key' \in [1 .. Targets -> {"none", "old", "current"}]
    BY <1>5 DEF Rotate, LookupInv
  <2>3. ASSUME NEW s \in Slots
        PROVE  /\ ask'[s] \in Question /\ Sound(ask'[s]) /\ ask'[s].pc = ask[s].pc
               /\ Silent(ask[s]) => Silent(ask'[s])
    <3> DEFINE q == [ask[s] EXCEPT !.sealed = "old", !.hurt = @ \/ ask[s].retried]
    <3>1. ask'[s] = IF ask[s].pc = "relay" /\ ask[s].target = t THEN q ELSE ask[s]
      BY <1>5 DEF Rotate
    <3>2. ask[s] \in Question /\ Sound(ask[s])
      BY DEF LookupInv
    <3>3. q \in Question /\ q.hurt = (ask[s].hurt \/ ask[s].retried)
          /\ q.pc = ask[s].pc /\ q.strict = ask[s].strict /\ q.retried = ask[s].retried
      BY <3>2 DEF Question
    <3>4. Sound(q) /\ (Silent(ask[s]) => Silent(q))
      <4> HIDE DEF q
      <4> QED BY <3>2, <3>3 DEF Sound, Silent
    <3> HIDE DEF q
    <3> QED BY <3>1, <3>2, <3>3, <3>4
  <2>4. ask' \in [Slots -> Question]
    BY <1>5, <2>3 DEF Rotate
  <2> QED BY <1>1, <2>1, <2>2, <2>3, <2>4 DEF LookupInv, Sound, Silent
<1> QED BY <1>2, <1>3, <1>4, <1>5

LEMMA LookupStep == LookupInv /\ [Next]_vars => LookupInv'
<1> SUFFICES ASSUME LookupInv, [Next]_vars PROVE LookupInv'
  OBVIOUS
<1>1. CASE UNCHANGED vars
  <2>1. WalkInv'
    BY <1>1 DEF LookupInv, WalkInv, LossIsNoAnswer, Done, vars, walk
  <2> QED BY <1>1, <2>1 DEF LookupInv, Sound, Silent, vars, walk
<1> QED BY <1>1, BeginKeeps, StepKeeps, WalkKeeps, WorldKeeps DEF Next, Returned

LEMMA LookupAlways == Spec => []LookupInv
  BY LookupStarts, LookupStep, PTL DEF Spec

(* doh.js, _query(): while Private is on no question of a lookup leaves in *)
(* the clear, however many relays and targets fail, keys rotate, answers   *)
(* come empty or walks are begun again.                                    *)
THEOREM PrivateIsOblivious == Spec => []NoPlainInPrivate
<1>1. LookupInv => NoPlainInPrivate
  BY DEF LookupInv, NoPlainInPrivate
<1> QED BY <1>1, LookupAlways, PTL

(* doh.js, _resolveTimed(): a lost A, AAAA or TLSA never becomes           *)
(* `unregistered' or a permission to go without TLS, nor a lost TXT the    *)
(* former in txtRecords(), for any number of targets, relays and           *)
(* endpoints.  A lost pointer does become `unregistered' in resolve().     *)
THEOREM LossesAreNoAnswers == Spec => []LossIsNoAnswer
<1>1. LookupInv => LossIsNoAnswer
  BY DEF LookupInv, WalkInv
<1> QED BY <1>1, LookupAlways, PTL

(* odoh.js, query(): the retry after a refused key rides out any rotation  *)
(* that is not followed by another while the question is being asked.      *)
THEOREM RotationsAreRidden == Spec => []RotationIsRidden
<1>1. LookupInv => RotationIsRidden
  BY DEF LookupInv, Sound, RotationIsRidden
<1> QED BY <1>1, LookupAlways, PTL
===============================================================================
