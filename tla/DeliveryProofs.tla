---------------------------- MODULE DeliveryProofs ----------------------------
(***************************************************************************)
(* For every number of sessions and every order of switches and Tor        *)
(* events: once the mode says tor every session is on Tor, and while       *)
(* protection is in force a direct session is one the blackhole is about   *)
(* to reach.  The argument is about the passes in flight: they stay in the *)
(* order they began, and only the last of them may still announce.         *)
(* And while set() calls do not overlap, the mode, the file and the        *)
(* anonymizer end in agreement: at most one call is at work, in one place. *)
(***************************************************************************)
EXTENDS DeliveryMode, TLAPS

Base == /\ passes \in Seq(Pass)
        /\ proxy \in [Session -> Rules]
        /\ awaiting \in {"none", "pending", "ready", "failed"}
        /\ starting \in BOOLEAN

(* A later pass is never ahead of an earlier one. *)
InOrder == \A i, j \in DOMAIN passes : i < j => passes[j].at <= passes[i].at

(* What the youngest pass has reached is its own. *)
YoungestDecides ==
  passes # <<>> =>
    \A s \in Session :
      s < passes[Len(passes)].at => proxy[s] = passes[Len(passes)].rules

(* A pass that will announce Tor is the youngest, and no call that could   *)
(* begin another one is in flight.                                         *)
OneAnnouncer ==
  /\ \A i \in DOMAIN passes :
       (passes[i].rules = "tor" /\ passes[i].current)
         => i = Len(passes) /\ ~starting /\ awaiting = "none"
  /\ starting => awaiting = "none"

(* With the mode tor, nothing on its way sends a session elsewhere. *)
OnlyTor ==
  mode = "tor" => /\ \A s \in Session : proxy[s] = "tor"
                  /\ \A i \in DOMAIN passes : passes[i].rules = "tor"

(* With the mode blocked, the blackhole comes after every direct pass and  *)
(* has yet to reach every direct session.                                  *)
BlockedLast ==
  mode = "blocked" =>
    /\ \A j \in DOMAIN passes :
         passes[j].rules = "direct" =>
           \E i \in DOMAIN passes : i > j /\ passes[i].rules = "blackhole"
    /\ \A s \in Session :
         proxy[s] = "direct" =>
           \E i \in DOMAIN passes :
             passes[i].rules = "blackhole" /\ passes[i].at <= s

ModeOK == mode \in {"off", "tor", "blocked"}

RouteInv == Base /\ InOrder /\ YoungestDecides /\ OneAnnouncer /\ OnlyTor
            /\ BlockedLast /\ ModeOK

-------------------------------------------------------------------------------
(* The three things that happen to the sequence of passes. *)

LEMMA PassFields ==
  ASSUME Base, NEW i \in DOMAIN passes
  PROVE  /\ i \in 1 .. Len(passes) /\ Len(passes) \in Nat
         /\ passes[i] \in Pass
         /\ passes[i].rules \in Rules
         /\ passes[i].at \in 1 .. Sessions + 1
         /\ passes[i].current \in BOOLEAN
<1>1. i \in 1 .. Len(passes) /\ Len(passes) \in Nat /\ passes[i] \in Pass
  BY DEF Base
<1> QED
  BY <1>1 DEF Pass

LEMMA SupersededShape ==
  ASSUME Base
  PROVE  /\ Superseded \in Seq(Pass)
         /\ Len(Superseded) = Len(passes)
         /\ \A i \in DOMAIN passes :
              /\ Superseded[i].rules = passes[i].rules
              /\ Superseded[i].at = passes[i].at
              /\ Superseded[i].current = FALSE
<1>1. ASSUME NEW i \in DOMAIN passes
      PROVE  [passes[i] EXCEPT !.current = FALSE] \in Pass
  <2>1. passes[i] \in Pass
    BY PassFields
  <2> QED
    BY <2>1 DEF Pass
<1>2. DOMAIN passes = 1 .. Len(passes) /\ Len(passes) \in Nat
  BY DEF Base
<1>3. Superseded \in [1 .. Len(passes) -> Pass]
  BY <1>1, <1>2 DEF Superseded
<1>4. Superseded \in Seq(Pass) /\ Len(Superseded) = Len(passes)
  BY <1>2, <1>3
<1>5. ASSUME NEW i \in DOMAIN passes
      PROVE  /\ Superseded[i].rules = passes[i].rules
             /\ Superseded[i].at = passes[i].at
             /\ Superseded[i].current = FALSE
  <2>1. Superseded[i] = [passes[i] EXCEPT !.current = FALSE]
    BY DEF Superseded
  <2>2. passes[i] \in Pass
    BY PassFields
  <2> QED
    BY <2>1, <2>2 DEF Pass
<1> QED
  BY <1>4, <1>5

LEMMA NewPassFields ==
  ASSUME AnonymizerAssumption, NEW r \in Rules, NEW b \in BOOLEAN
  PROVE  /\ NewPass(r, b) \in Pass
         /\ NewPass(r, b).rules = r
         /\ NewPass(r, b).at = 1
  BY DEF NewPass, Pass, AnonymizerAssumption

(* ps is the sequence of passes, perhaps superseded. *)
SamePasses(ps) ==
  /\ ps \in Seq(Pass)
  /\ Len(ps) = Len(passes)
  /\ \A i \in DOMAIN passes : /\ ps[i].rules = passes[i].rules
                              /\ ps[i].at = passes[i].at
                              /\ ps[i].current => passes[i].current

LEMMA PassesAreSame ==
  ASSUME Base
  PROVE  SamePasses(passes) /\ SamePasses(Superseded)
  BY SupersededShape DEF Base, SamePasses

LEMMA AppendPass ==
  ASSUME AnonymizerAssumption, Base, InOrder,
         NEW ps, SamePasses(ps),
         NEW r \in Rules, NEW b \in BOOLEAN,
         passes' = Append(ps, NewPass(r, b)), proxy' = proxy
  PROVE  /\ passes' \in Seq(Pass)
         /\ DOMAIN passes' = 1 .. Len(passes) + 1
         /\ Len(passes') = Len(passes) + 1
         /\ \A i \in DOMAIN passes :
              /\ passes'[i].rules = passes[i].rules
              /\ passes'[i].at = passes[i].at
              /\ passes'[i] = ps[i]
         /\ passes'[Len(passes) + 1].rules = r
         /\ passes'[Len(passes) + 1].at = 1
         /\ Len(passes) \in Nat /\ DOMAIN passes = 1 .. Len(passes)
         /\ \A i \in DOMAIN passes' : i \in DOMAIN passes \/ i = Len(passes) + 1
         /\ InOrder' /\ YoungestDecides'
<1> DEFINE n == Len(passes)
           p == NewPass(r, b)
<1>1. n \in Nat /\ DOMAIN passes = 1 .. n /\ ps \in Seq(Pass) /\ Len(ps) = n
  BY DEF Base, SamePasses
<1>2. p \in Pass /\ p.at = 1 /\ p.rules = r
  BY NewPassFields
<1> HIDE DEF p
<1>3. /\ passes' \in Seq(Pass) /\ Len(passes') = n + 1
      /\ DOMAIN passes' = 1 .. n + 1
      /\ passes'[n + 1] = p
      /\ \A i \in 1 .. n : passes'[i] = ps[i]
  <2>1. passes' = Append(ps, p)
    BY DEF p
  <2> QED
    BY <1>1, <1>2, <2>1
<1>4. \A i \in 1 .. n : /\ passes'[i].rules = passes[i].rules
                        /\ passes'[i].at = passes[i].at
  BY <1>1, <1>3 DEF SamePasses
<1>5. \A i \in 1 .. n : passes[i].at \in 1 .. Sessions + 1
  BY <1>1, PassFields
<1>6. InOrder'
  <2> SUFFICES ASSUME NEW i \in 1 .. n + 1, NEW j \in 1 .. n + 1, i < j
               PROVE  passes'[j].at <= passes'[i].at
    BY <1>3 DEF InOrder
  <2>1. CASE j = n + 1
    BY <1>1, <1>2, <1>3, <1>4, <1>5, <2>1, AnonymizerAssumption
       DEF AnonymizerAssumption
  <2>2. CASE j # n + 1
    <3>1. i \in 1 .. n /\ j \in 1 .. n
      BY <1>1, <2>2
    <3> QED
      BY <1>1, <1>4, <3>1 DEF InOrder
  <2> QED
    BY <2>1, <2>2
<1>7. YoungestDecides'
  <2>1. passes'[Len(passes')].at = 1
    BY <1>2, <1>3
  <2> QED
    BY <2>1 DEF YoungestDecides, Session
<1>8. \A i \in DOMAIN passes' : i \in DOMAIN passes \/ i = n + 1
  BY <1>1, <1>3
<1> QED
  BY <1>1, <1>2, <1>3, <1>4, <1>6, <1>7, <1>8

LEMMA TailPass ==
  ASSUME Base, InOrder, YoungestDecides, passes # <<>>,
         passes' = Tail(passes), proxy' = proxy
  PROVE  /\ passes' \in Seq(Pass)
         /\ Len(passes) \in Nat \ {0}
         /\ DOMAIN passes' = 1 .. Len(passes) - 1
         /\ Len(passes') = Len(passes) - 1
         /\ \A i \in DOMAIN passes' : i + 1 \in DOMAIN passes
                                      /\ passes'[i] = passes[i + 1]
         /\ InOrder' /\ YoungestDecides'
<1>1. /\ Len(passes) \in Nat \ {0} /\ DOMAIN passes = 1 .. Len(passes)
      /\ passes' \in Seq(Pass)
      /\ Len(passes') = Len(passes) - 1
      /\ DOMAIN passes' = 1 .. Len(passes) - 1
      /\ \A i \in 1 .. Len(passes) - 1 : passes'[i] = passes[i + 1]
  BY DEF Base
<1>2. InOrder'
  BY <1>1 DEF InOrder
<1>3. YoungestDecides'
  <2> SUFFICES ASSUME passes' # <<>>, NEW s \in Session,
                      s < passes'[Len(passes')].at
               PROVE  proxy[s] = passes'[Len(passes')].rules
    BY DEF YoungestDecides, Session
  <2>1. Len(passes') \in 1 .. Len(passes) - 1
    BY <1>1
  <2>2. passes'[Len(passes')] = passes[Len(passes)]
    BY <1>1, <2>1
  <2> QED
    BY <1>1, <2>2 DEF YoungestDecides
<1> QED
  BY <1>1, <1>2, <1>3

LEMMA RoutePass ==
  ASSUME AnonymizerAssumption, Base, InOrder, YoungestDecides,
         NEW i \in DOMAIN passes, Route(i)
  PROVE  /\ passes' \in Seq(Pass) /\ proxy' \in [Session -> Rules]
         /\ passes[i].at \in Session
         /\ Len(passes') = Len(passes) /\ DOMAIN passes' = DOMAIN passes
         /\ \A j \in DOMAIN passes :
              /\ passes'[j].rules = passes[j].rules
              /\ passes'[j].current = passes[j].current
              /\ passes'[j].at = IF j = i THEN passes[i].at + 1 ELSE passes[j].at
         /\ \A s \in Session :
              proxy'[s] = IF s = passes[i].at THEN passes[i].rules ELSE proxy[s]
         /\ InOrder' /\ YoungestDecides'
<1> DEFINE s == passes[i].at
           q == [passes[i] EXCEPT !.at = s + 1]
<1>1. /\ Len(passes) \in Nat /\ i \in 1 .. Len(passes)
      /\ DOMAIN passes = 1 .. Len(passes)
      /\ passes[i] \in Pass /\ passes[i].rules \in Rules
  BY PassFields DEF Base
<1>2. s \in Session /\ s + 1 \in 1 .. Sessions + 1
  BY AnonymizerAssumption DEF Route, Session, AnonymizerAssumption
<1>3. q \in Pass /\ q.at = s + 1 /\ q.rules = passes[i].rules
      /\ q.current = passes[i].current
  BY <1>1, <1>2 DEF Pass
<1>4. passes' = [passes EXCEPT ![i] = q]
  BY <1>1 DEF Route
<1>5. proxy' = [proxy EXCEPT ![s] = passes[i].rules]
  BY DEF Route
<1>6. i > 1 => s < passes[i - 1].at
  BY DEF Route
<1> HIDE DEF q
<1>7. /\ passes' \in Seq(Pass) /\ Len(passes') = Len(passes)
      /\ DOMAIN passes' = DOMAIN passes
      /\ \A j \in DOMAIN passes : passes'[j] = IF j = i THEN q ELSE passes[j]
  BY <1>1, <1>3, <1>4 DEF Base
<1>8. \A j \in DOMAIN passes :
        /\ passes'[j].rules = passes[j].rules
        /\ passes'[j].current = passes[j].current
        /\ passes'[j].at = IF j = i THEN s + 1 ELSE passes[j].at
  BY <1>3, <1>7
<1>9. /\ proxy' \in [Session -> Rules]
      /\ \A t \in Session :
           proxy'[t] = IF t = s THEN passes[i].rules ELSE proxy[t]
  BY <1>1, <1>2, <1>5 DEF Base
<1>10. \A j \in DOMAIN passes : passes[j].at \in Nat
  BY PassFields, AnonymizerAssumption DEF AnonymizerAssumption
<1>11. InOrder'
  <2> SUFFICES ASSUME NEW j \in DOMAIN passes, NEW k \in DOMAIN passes, j < k
               PROVE  passes'[k].at <= passes'[j].at
    BY <1>7 DEF InOrder
  <2>1. CASE k = i
    <3>1. i > 1 /\ i - 1 \in DOMAIN passes /\ j <= i - 1
      BY <1>1, <2>1
    <3>2. passes[i - 1].at <= passes[j].at
      BY <1>1, <1>10, <3>1 DEF InOrder
    <3>3. s + 1 <= passes[i - 1].at
      BY <1>2, <1>6, <1>10, <3>1 DEF Session
    <3> QED
      BY <1>1, <1>2, <1>8, <1>10, <2>1, <3>1, <3>2, <3>3 DEF Session
  <2>2. CASE k # i
    <3>1. passes[k].at <= passes[j].at
      BY <1>1 DEF InOrder
    <3> QED
      BY <1>8, <1>10, <2>2, <3>1
  <2> QED
    BY <2>1, <2>2
<1>12. YoungestDecides'
  <2> DEFINE n == Len(passes)
  <2> SUFFICES ASSUME NEW t \in Session, t < passes'[n].at
               PROVE  proxy'[t] = passes'[n].rules
    BY <1>7 DEF YoungestDecides, Session
  <2>1. n \in DOMAIN passes /\ passes # <<>>
    BY <1>1
  <2>2. CASE i = n
    <3>1. CASE t = s
      BY <1>8, <1>9, <2>1, <2>2, <3>1
    <3>2. CASE t # s
      <4>1. t < s
        BY <1>2, <1>8, <2>1, <2>2, <3>2 DEF Session
      <4> QED
        BY <1>8, <1>9, <2>1, <2>2, <3>2, <4>1 DEF YoungestDecides
    <3> QED
      BY <3>1, <3>2
  <2>3. CASE i # n
    <3>1. passes[n].at <= s /\ t < passes[n].at
      BY <1>1, <1>8, <2>1, <2>3 DEF InOrder
    <3>2. t # s
      BY <1>2, <1>10, <2>1, <3>1 DEF Session
    <3> QED
      BY <1>8, <1>9, <2>1, <2>3, <3>1, <3>2 DEF YoungestDecides
  <2> QED
    BY <2>2, <2>3
<1> QED
  BY <1>2, <1>7, <1>8, <1>9, <1>11, <1>12

-------------------------------------------------------------------------------
(* RouteInv is inductive: one lemma per kind of step. *)

LEMMA InitRoute == AnonymizerAssumption /\ AnonymizerInit => RouteInv
<1> SUFFICES ASSUME AnonymizerAssumption, AnonymizerInit PROVE RouteInv
  OBVIOUS
<1>1. passes = <<>> /\ DOMAIN passes = {} /\ passes \in Seq(Pass)
  BY DEF AnonymizerInit
<1>2. proxy \in [Session -> Rules]
  BY DEF AnonymizerInit, Rules
<1> QED
  BY <1>1, <1>2 DEF AnonymizerInit, RouteInv, Base, InOrder, YoungestDecides,
       OneAnnouncer, OnlyTor, BlockedLast, ModeOK

LEMMA SetOffRoute ==
  ASSUME AnonymizerAssumption, RouteInv, NEW b \in BOOLEAN, SetOff(b)
  PROVE  RouteInv'
<1>1. /\ passes' = Append(Superseded, NewPass("direct", b))
      /\ proxy' = proxy /\ mode' = "off" /\ starting' = FALSE /\ awaiting' = "none"
  BY DEF SetOff
<1>2. Base /\ InOrder
  BY DEF RouteInv
<1>3. SamePasses(Superseded) /\ "direct" \in Rules
  BY <1>2, PassesAreSame DEF Rules
<1>4. /\ passes' \in Seq(Pass) /\ InOrder' /\ YoungestDecides'
      /\ \A i \in DOMAIN passes : passes'[i] = Superseded[i]
      /\ passes'[Len(passes) + 1].rules = "direct"
      /\ \A i \in DOMAIN passes' : i \in DOMAIN passes \/ i = Len(passes) + 1
  BY <1>1, <1>2, <1>3, AppendPass
<1>5. \A i \in DOMAIN passes : passes'[i].current = FALSE
  BY <1>2, <1>4, SupersededShape
<1>6. \A i \in DOMAIN passes' : ~(passes'[i].rules = "tor" /\ passes'[i].current)
  BY <1>4, <1>5
<1> QED
  BY <1>1, <1>2, <1>4, <1>6 DEF RouteInv, Base, OneAnnouncer, OnlyTor,
       BlockedLast, ModeOK

LEMMA SetTorRoute ==
  ASSUME RouteInv, SetTor
  PROVE  RouteInv'
<1>1. /\ passes' = Superseded /\ proxy' = proxy /\ mode' = mode
      /\ starting' = TRUE /\ awaiting' = "none"
  BY DEF SetTor
<1>2. /\ passes' \in Seq(Pass) /\ Len(passes') = Len(passes)
      /\ DOMAIN passes' = DOMAIN passes /\ DOMAIN passes = 1 .. Len(passes)
      /\ Len(passes) \in Nat
      /\ \A i \in DOMAIN passes : /\ passes'[i].rules = passes[i].rules
                                  /\ passes'[i].at = passes[i].at
                                  /\ passes'[i].current = FALSE
  <2>1. Base
    BY DEF RouteInv
  <2>2. DOMAIN passes = 1 .. Len(passes) /\ Len(passes) \in Nat
    BY <2>1 DEF Base
  <2>3. DOMAIN Superseded = DOMAIN passes
    BY DEF Superseded
  <2> QED
    BY <1>1, <2>1, <2>2, <2>3, SupersededShape
<1>3. Base' /\ InOrder' /\ ModeOK'
  BY <1>1, <1>2 DEF RouteInv, Base, InOrder, ModeOK
<1>4. YoungestDecides'
  <2>1. passes' # <<>> => passes # <<>> /\ Len(passes) \in DOMAIN passes
    BY <1>2
  <2> QED
    BY <1>1, <1>2, <2>1 DEF RouteInv, YoungestDecides
<1>5. OneAnnouncer'
  BY <1>1, <1>2 DEF OneAnnouncer
<1>6. OnlyTor' /\ BlockedLast'
  BY <1>1, <1>2 DEF RouteInv, OnlyTor, BlockedLast
<1> QED
  BY <1>3, <1>4, <1>5, <1>6 DEF RouteInv

LEMMA StartReturnsRoute ==
  ASSUME AnonymizerAssumption, RouteInv, StartReturns
  PROVE  RouteInv'
<1>1. /\ passes' = Append(passes, NewPass("tor", FALSE))
      /\ proxy' = proxy /\ mode' = mode /\ starting' = FALSE
      /\ starting /\ awaiting' = awaiting
  BY DEF StartReturns
<1>2. Base /\ InOrder
  BY DEF RouteInv
<1>3. SamePasses(passes) /\ "tor" \in Rules
  BY <1>2, PassesAreSame DEF Rules
<1>4. /\ passes' \in Seq(Pass) /\ InOrder' /\ YoungestDecides'
      /\ DOMAIN passes' = 1 .. Len(passes) + 1
      /\ Len(passes') = Len(passes) + 1
      /\ \A i \in DOMAIN passes : passes'[i] = passes[i]
      /\ passes'[Len(passes) + 1].rules = "tor"
      /\ Len(passes) \in Nat /\ DOMAIN passes = 1 .. Len(passes)
      /\ \A i \in DOMAIN passes' : i \in DOMAIN passes \/ i = Len(passes) + 1
  BY <1>1, <1>2, <1>3, AppendPass
<1>5. Base' /\ ModeOK'
  BY <1>1, <1>2, <1>4 DEF RouteInv, Base, ModeOK
<1>6. OneAnnouncer'
  <2>1. awaiting = "none" /\ \A i \in DOMAIN passes :
          ~(passes[i].rules = "tor" /\ passes[i].current)
    BY <1>1 DEF RouteInv, OneAnnouncer
  <2> QED
    BY <1>1, <1>4, <2>1 DEF OneAnnouncer
<1>7. OnlyTor'
  <2> SUFFICES ASSUME mode = "tor" PROVE OnlyTor'
    BY <1>1 DEF OnlyTor
  <2>1. /\ \A s \in Session : proxy[s] = "tor"
        /\ \A i \in DOMAIN passes : passes[i].rules = "tor"
    BY DEF RouteInv, OnlyTor
  <2>2. \A i \in DOMAIN passes' : passes'[i].rules = "tor"
    BY <1>4, <2>1
  <2> QED
    BY <1>1, <2>1, <2>2 DEF OnlyTor, Session
<1>8. BlockedLast'
  <2> SUFFICES ASSUME mode = "blocked" PROVE BlockedLast'
    BY <1>1 DEF BlockedLast
  <2>1. DOMAIN passes \subseteq DOMAIN passes'
    BY <1>4
  <2>2. ASSUME NEW j \in DOMAIN passes', passes'[j].rules = "direct"
        PROVE  \E i \in DOMAIN passes' : i > j /\ passes'[i].rules = "blackhole"
    <3>1. j \in DOMAIN passes /\ passes[j].rules = "direct"
      BY <1>4, <2>2
    <3>2. PICK i \in DOMAIN passes : i > j /\ passes[i].rules = "blackhole"
      BY <3>1 DEF RouteInv, BlockedLast
    <3> QED
      BY <1>4, <2>1, <3>2
  <2>3. ASSUME NEW s \in Session, proxy[s] = "direct"
        PROVE  \E i \in DOMAIN passes' :
                 passes'[i].rules = "blackhole" /\ passes'[i].at <= s
    <3>1. PICK i \in DOMAIN passes :
            passes[i].rules = "blackhole" /\ passes[i].at <= s
      BY <2>3 DEF RouteInv, BlockedLast
    <3> QED
      BY <1>4, <2>1, <3>1
  <2> QED
    BY <1>1, <2>2, <2>3 DEF BlockedLast, Session
<1> QED
  BY <1>4, <1>5, <1>6, <1>7, <1>8 DEF RouteInv

(* _cannotRoute() with the passes as they are or superseded. *)
LEMMA CannotRouteRoute ==
  ASSUME AnonymizerAssumption, RouteInv,
         NEW ps, SamePasses(ps), CannotRoute(ps),
         awaiting' \in {"none", "pending", "ready", "failed"},
         starting' = FALSE,
         \A i \in DOMAIN passes : ~(ps[i].rules = "tor" /\ ps[i].current)
  PROVE  RouteInv'
<1> DEFINE r == IF FailClosed THEN "blackhole" ELSE "direct"
<1>1. /\ passes' = Append(ps, NewPass(r, FALSE)) /\ proxy' = proxy
      /\ mode' = IF FailClosed THEN "blocked" ELSE "off"
  BY DEF CannotRoute
<1>2. Base /\ InOrder
  BY DEF RouteInv
<1>3. r \in Rules /\ r # "tor"
  BY DEF Rules
<1>4. FailClosed => r = "blackhole"
  OBVIOUS
<1> HIDE DEF r
<1>5. /\ passes' \in Seq(Pass) /\ InOrder' /\ YoungestDecides'
      /\ DOMAIN passes' = 1 .. Len(passes) + 1
      /\ Len(passes') = Len(passes) + 1
      /\ \A i \in DOMAIN passes : passes'[i] = ps[i]
      /\ passes'[Len(passes) + 1].rules = r
      /\ passes'[Len(passes) + 1].at = 1
      /\ \A i \in DOMAIN passes' : i \in DOMAIN passes \/ i = Len(passes) + 1
  BY <1>1, <1>2, <1>3, AppendPass
<1>6. DOMAIN passes = 1 .. Len(passes) /\ Len(passes) \in Nat
  BY <1>2 DEF Base
<1>8. \A i \in DOMAIN passes' : ~(passes'[i].rules = "tor" /\ passes'[i].current)
  BY <1>3, <1>5
<1>9. Base' /\ ModeOK'
  BY <1>1, <1>2, <1>5 DEF Base, ModeOK
<1>10. OneAnnouncer'
  BY <1>8 DEF OneAnnouncer
<1>11. OnlyTor'
  BY <1>1 DEF OnlyTor
<1>12. BlockedLast'
  <2> SUFFICES ASSUME mode' = "blocked" PROVE BlockedLast'
    BY DEF BlockedLast
  <2>1. r = "blackhole"
    BY <1>1, <1>4
  <2>2. Len(passes) + 1 \in DOMAIN passes'
    BY <1>5, <1>6
  <2>3. ASSUME NEW j \in DOMAIN passes', passes'[j].rules = "direct"
        PROVE  Len(passes) + 1 > j
    <3>1. j \in DOMAIN passes
      BY <1>5, <2>1, <2>3
    <3> QED
      BY <1>6, <3>1
  <2> QED
    BY <1>5, <2>1, <2>2, <2>3 DEF BlockedLast, Session
<1> QED
  BY <1>5, <1>9, <1>10, <1>11, <1>12 DEF RouteInv

LEMMA RouteRoute ==
  ASSUME AnonymizerAssumption, RouteInv, NEW i \in DOMAIN passes, Route(i)
  PROVE  RouteInv'
<1>1. Base /\ InOrder /\ YoungestDecides
  BY DEF RouteInv
<1>2. UNCHANGED <<mode, starting, awaiting>>
  BY DEF Route, controller
<1> DEFINE s == passes[i].at
<1>3. /\ passes' \in Seq(Pass) /\ proxy' \in [Session -> Rules]
      /\ s \in Session
      /\ Len(passes') = Len(passes) /\ DOMAIN passes' = DOMAIN passes
      /\ \A j \in DOMAIN passes :
           /\ passes'[j].rules = passes[j].rules
           /\ passes'[j].current = passes[j].current
           /\ passes'[j].at = IF j = i THEN s + 1 ELSE passes[j].at
      /\ \A t \in Session :
           proxy'[t] = IF t = s THEN passes[i].rules ELSE proxy[t]
      /\ InOrder' /\ YoungestDecides'
  BY <1>1, RoutePass
<1> HIDE DEF s
<1>4. Base' /\ ModeOK' /\ OneAnnouncer'
  BY <1>1, <1>2, <1>3 DEF RouteInv, Base, ModeOK, OneAnnouncer
<1>5. OnlyTor'
  BY <1>2, <1>3 DEF RouteInv, OnlyTor, Session
<1>6. BlockedLast'
  <2> SUFFICES ASSUME mode = "blocked" PROVE BlockedLast'
    BY <1>2 DEF BlockedLast
  <2>1. \A j \in DOMAIN passes :
          passes[j].rules = "direct" =>
            \E k \in DOMAIN passes : k > j /\ passes[k].rules = "blackhole"
    BY DEF RouteInv, BlockedLast
  <2>2. ASSUME NEW t \in Session, proxy'[t] = "direct"
        PROVE  \E k \in DOMAIN passes :
                 passes'[k].rules = "blackhole" /\ passes'[k].at <= t
    <3>1. CASE t = s
      <4>1. passes[i].rules = "direct"
        BY <1>3, <2>2, <3>1
      <4>2. PICK k \in DOMAIN passes : k > i /\ passes[k].rules = "blackhole"
        BY <2>1, <4>1
      <4>3. passes[k].at <= s /\ k # i
        <5>1. DOMAIN passes \subseteq Nat
          BY <1>1 DEF Base
        <5> QED
          BY <1>1, <4>2, <5>1 DEF InOrder, s
      <4> QED
        BY <1>3, <3>1, <4>2, <4>3
    <3>2. CASE t # s
      <4>1. proxy[t] = "direct"
        BY <1>3, <2>2, <3>2
      <4>2. PICK k \in DOMAIN passes :
              passes[k].rules = "blackhole" /\ passes[k].at <= t
        BY <4>1 DEF RouteInv, BlockedLast
      <4>3. k = i => s + 1 <= t
        BY <1>3, <3>2, <4>2 DEF Session, s
      <4> QED
        BY <1>3, <4>2, <4>3
    <3> QED
      BY <3>1, <3>2
  <2> QED
    BY <1>2, <1>3, <2>1, <2>2 DEF BlockedLast, Session
<1> QED
  BY <1>3, <1>4, <1>5, <1>6 DEF RouteInv

LEMMA SettleRoute ==
  ASSUME AnonymizerAssumption, RouteInv, Settle
  PROVE  RouteInv'
<1>1. Base /\ InOrder /\ YoungestDecides /\ passes # <<>>
  BY DEF RouteInv, Settle
<1>2. UNCHANGED <<starting, proxy>> /\ passes' = Tail(passes)
  BY DEF Settle
<1>3. /\ passes' \in Seq(Pass)
      /\ Len(passes) \in Nat \ {0}
      /\ DOMAIN passes' = 1 .. Len(passes) - 1
      /\ Len(passes') = Len(passes) - 1
      /\ \A i \in DOMAIN passes' : i + 1 \in DOMAIN passes
                                   /\ passes'[i] = passes[i + 1]
      /\ InOrder' /\ YoungestDecides'
  BY <1>1, <1>2, TailPass
<1>4. 1 \in DOMAIN passes /\ Head(passes) = passes[1]
      /\ DOMAIN passes = 1 .. Len(passes)
  BY <1>1 DEF Base
<1>5. CASE Head(passes).rules = "tor" /\ Head(passes).current /\ Announce
  <2>1. Len(passes) = 1 /\ ~starting
    BY <1>4, <1>5 DEF RouteInv, OneAnnouncer
  <2>2. DOMAIN passes' = {}
    BY <1>3, <2>1
  <2>3. \A s \in Session : proxy[s] = "tor"
    <3>1. passes[1].at > Sessions
      BY <1>4 DEF Settle
    <3>2. \A s \in Session : s < passes[1].at
      BY <1>4, <3>1, PassFields, <1>1 DEF Session
    <3> QED
      BY <1>1, <1>4, <1>5, <2>1, <3>2 DEF YoungestDecides
  <2>4. mode' = "tor" /\ awaiting' \in {"none", "pending", "ready", "failed"}
    BY <1>5 DEF Announce
  <2> QED
    BY <1>1, <1>2, <1>3, <2>1, <2>2, <2>3, <2>4 DEF RouteInv, Base, OneAnnouncer,
         OnlyTor, BlockedLast, ModeOK, Session
<1>6. CASE ~(Head(passes).rules = "tor" /\ Head(passes).current /\ Announce)
  <2>1. UNCHANGED <<mode, awaiting>>
    BY <1>6 DEF Settle
  <2>2. Base' /\ ModeOK'
    BY <1>1, <1>2, <1>3, <2>1 DEF RouteInv, Base, ModeOK
  <2>3. OneAnnouncer'
    <3>1. ASSUME NEW i \in DOMAIN passes',
                 passes'[i].rules = "tor" /\ passes'[i].current
          PROVE  i = Len(passes') /\ ~starting /\ awaiting = "none"
      <4>1. i + 1 \in DOMAIN passes /\ passes'[i] = passes[i + 1]
        BY <1>3
      <4>2. i + 1 = Len(passes) /\ ~starting /\ awaiting = "none"
        BY <3>1, <4>1 DEF RouteInv, OneAnnouncer
      <4> QED
        BY <1>3, <4>2
    <3> QED
      BY <1>2, <2>1, <3>1 DEF RouteInv, OneAnnouncer
  <2>4. OnlyTor'
    BY <1>2, <1>3, <2>1 DEF RouteInv, OnlyTor, Session
  <2>5. BlockedLast'
    <3> SUFFICES ASSUME mode = "blocked" PROVE BlockedLast'
      BY <2>1 DEF BlockedLast
    <3>1. ASSUME NEW j \in DOMAIN passes', passes'[j].rules = "direct"
          PROVE  \E i \in DOMAIN passes' : i > j /\ passes'[i].rules = "blackhole"
      <4>1. j + 1 \in DOMAIN passes /\ passes[j + 1].rules = "direct"
        BY <1>3, <3>1
      <4>2. PICK k \in DOMAIN passes : k > j + 1 /\ passes[k].rules = "blackhole"
        BY <4>1 DEF RouteInv, BlockedLast
      <4>3. k - 1 \in DOMAIN passes' /\ k - 1 > j /\ (k - 1) + 1 = k
        BY <1>3, <1>4, <3>1, <4>1, <4>2
      <4>4. passes'[k - 1] = passes[(k - 1) + 1]
        BY <1>3, <4>3
      <4> QED
        BY <4>2, <4>3, <4>4
    <3>2. ASSUME NEW s \in Session, proxy[s] = "direct"
          PROVE  \E i \in DOMAIN passes' :
                   passes'[i].rules = "blackhole" /\ passes'[i].at <= s
      <4>1. PICK k \in DOMAIN passes :
              passes[k].rules = "blackhole" /\ passes[k].at <= s
        BY <3>2 DEF RouteInv, BlockedLast
      <4>2. k # 1
        BY <1>4, <4>1, PassFields, <1>1, AnonymizerAssumption
           DEF Settle, Session, AnonymizerAssumption
      <4>3. k - 1 \in DOMAIN passes' /\ (k - 1) + 1 = k
        BY <1>3, <1>4, <4>2
      <4>4. passes'[k - 1] = passes[(k - 1) + 1]
        BY <1>3, <4>3
      <4> QED
        BY <4>1, <4>3, <4>4
    <3> QED
      BY <1>2, <2>1, <3>1, <3>2 DEF BlockedLast, Session
  <2> QED
    BY <1>3, <2>2, <2>3, <2>4, <2>5 DEF RouteInv
<1> QED
  BY <1>5, <1>6

(* The passes and the proxies stay, and so does the mode. *)
LEMMA StillRoute ==
  ASSUME RouteInv, UNCHANGED <<mode, starting, net>>,
         awaiting' \in {"none", "pending", "ready", "failed"},
         awaiting = "none" => awaiting' = "none"
  PROVE  RouteInv'
<1>1. UNCHANGED <<passes, proxy>>
  BY DEF net
<1> QED
  BY <1>1 DEF RouteInv, Base, InOrder, YoungestDecides, OneAnnouncer, OnlyTor,
       BlockedLast, ModeOK, Session

LEMMA BackgroundRoute ==
  ASSUME AnonymizerAssumption, RouteInv, Background
  PROVE  RouteInv'
<1>1. Base /\ awaiting \in {"none", "pending", "ready", "failed"}
  BY DEF RouteInv, Base
<1>2. SamePasses(passes) /\ SamePasses(Superseded)
  BY <1>1, PassesAreSame
<1>3. CASE StartUnavailable
  <2>1. \A i \in DOMAIN passes : ~(passes[i].rules = "tor" /\ passes[i].current)
    BY <1>3 DEF StartUnavailable, RouteInv, OneAnnouncer
  <2>2. CannotRoute(passes) /\ starting' = FALSE /\ awaiting' = awaiting
    BY <1>3 DEF StartUnavailable
  <2> QED
    BY <1>1, <1>2, <2>1, <2>2, CannotRouteRoute
<1>4. CASE AwaitFailed
  <2>1. \A i \in DOMAIN passes : ~(passes[i].rules = "tor" /\ passes[i].current)
    BY <1>4 DEF AwaitFailed, RouteInv, OneAnnouncer
  <2>2. CannotRoute(passes) /\ awaiting' = "none" /\ starting' = starting
    BY <1>4 DEF AwaitFailed
  <2>3. starting = FALSE
    BY <1>4 DEF AwaitFailed, RouteInv, OneAnnouncer, Base
  <2> QED
    BY <1>2, <2>1, <2>2, <2>3, CannotRouteRoute
<1>5. CASE RevokeHeard
  <2>1. CannotRoute(Superseded) /\ awaiting' = "none" /\ starting' = FALSE
    BY <1>5 DEF RevokeHeard
  <2>2. \A i \in DOMAIN passes : Superseded[i].current = FALSE
    BY <1>1, SupersededShape
  <2> QED
    BY <1>2, <2>1, <2>2, CannotRouteRoute
<1>6. CASE AwaitReady \/ Offer \/ Bootstrap \/ RevokeUnheard
  <2>1. /\ UNCHANGED <<mode, starting, net>>
        /\ awaiting' \in {"none", "pending", "ready", "failed"}
        /\ awaiting = "none" => awaiting' = "none"
    BY <1>1, <1>6 DEF AwaitReady, Offer, Bootstrap, RevokeUnheard, controller
  <2> QED
    BY <2>1, StillRoute
<1> QED
  BY <1>3, <1>4, <1>5, <1>6, StartReturnsRoute, RouteRoute DEF Background, Client

LEMMA StepRoute ==
  ASSUME AnonymizerAssumption, RouteInv, [Next]_vars
  PROVE  RouteInv'
<1>1. CASE SetPrivate \/ UNCHANGED vars
  <2>1. UNCHANGED <<mode, starting, net, awaiting>>
    BY <1>1 DEF SetPrivate, vars, anonymizerVars, controller
  <2>2. awaiting \in {"none", "pending", "ready", "failed"}
    BY DEF RouteInv, Base
  <2> QED
    BY <2>1, <2>2, StillRoute
<1>2. CASE SetFast
  BY <1>2, SetOffRoute DEF SetFast
<1>3. ASSUME NEW i \in DOMAIN saving, Saved(i)
      PROVE  RouteInv'
  <2>1. CASE UNCHANGED anonymizerVars
    <3>1. UNCHANGED <<mode, starting, net, awaiting>>
      BY <2>1 DEF anonymizerVars, controller
    <3>2. awaiting \in {"none", "pending", "ready", "failed"}
      BY DEF RouteInv, Base
    <3> QED
      BY <3>1, <3>2, StillRoute
  <2>2. CASE Apply
    BY <2>2, SetOffRoute, SetTorRoute DEF Apply
  <2> QED
    BY <1>3, <2>1, <2>2 DEF Saved
<1>4. CASE Routed
  BY <1>4, SettleRoute DEF Routed
<1>5. CASE Background
  BY <1>5, BackgroundRoute
<1> QED
  BY <1>1, <1>2, <1>3, <1>4, <1>5 DEF Next

LEMMA AlwaysRouteInv == Spec => []RouteInv
<1>1. Init => RouteInv
  BY InitRoute, AnonymizerAssumption DEF Init
<1>2. RouteInv /\ [Next]_vars => RouteInv'
  BY StepRoute, AnonymizerAssumption
<1> QED
  BY <1>1, <1>2, PTL DEF Spec

(* Whatever the order of switches, Tor events and passes: once the mode is  *)
(* tor, every session's proxy is Tor.                                       *)
THEOREM TorIsRouted == Spec => []TorMeansRouted
<1>1. RouteInv => TorMeansRouted
  BY DEF RouteInv, OnlyTor, TorMeansRouted
<1> QED
  BY <1>1, AlwaysRouteInv, PTL

(* While isOn() holds, a session that is still direct is about to be        *)
(* blackholed by a pass already in flight.                                  *)
THEOREM DirectIsBrief == Spec => []DirectOnlyUntilBlocked
<1>1. RouteInv => DirectOnlyUntilBlocked
  BY DEF RouteInv, OnlyTor, BlockedLast, ModeOK, DirectOnlyUntilBlocked, IsOn
<1> QED
  BY <1>1, AlwaysRouteInv, PTL

-------------------------------------------------------------------------------
(* The mode, the file and the anonymizer.  While set() calls do not        *)
(* overlap, at most one of them is at work, and it is in one place: its    *)
(* write, its pass, or the start of Tor.  SetInv says what each place has  *)
(* left undone.                                                            *)
Leaves(ps) == \E i \in DOMAIN ps : ps[i].leaving
ToTor(ps) == \E i \in DOMAIN ps : ps[i].rules = "tor"
Announcing(ps) == \E i \in DOMAIN ps : ps[i].rules = "tor" /\ ps[i].current
OneLeaves(ps) ==
  \A i, j \in DOMAIN ps : ps[i].leaving /\ ps[j].leaving => i = j

Out == mode = "off" /\ ~starting /\ awaiting = "none" /\ ~ToTor(passes)

OneAtATime ==
  /\ saving \in {<<>>, <<"launch">>, <<"private">>, <<"fast">>}
  /\ saving # <<>> => ~starting /\ ~Leaves(passes) /\ ~ToTor(passes)
  /\ OneLeaves(passes)
  /\ Leaves(passes) => want = "fast"

Wanted ==
  /\ saving = <<>> /\ ~Leaves(passes) => delivery = want /\ saved = want
  /\ saving = <<"launch">> => delivery = want /\ saved = want
  /\ saving \in {<<"private">>, <<"fast">>} => saving = <<want>> /\ delivery = want

Driven ==
  /\ want = "fast" \/ saving = <<"launch">> => Out
  /\ want = "private" /\ saving = <<>> => IsOn \/ starting \/ Announcing(passes)

SetInv == /\ want \in DeliveryModes
          /\ (FailClosed /\ ~overlap) => OneAtATime /\ Wanted /\ Driven

LEMMA SupersededSays ==
  ASSUME Base
  PROVE  /\ Superseded \in Seq(Pass)
         /\ Leaves(Superseded) <=> Leaves(passes)
         /\ ToTor(Superseded) <=> ToTor(passes)
         /\ OneLeaves(passes) => OneLeaves(Superseded)
<1>0. DOMAIN Superseded = DOMAIN passes
  BY DEF Superseded
<1>1. /\ Superseded \in Seq(Pass)
      /\ \A i \in DOMAIN passes : Superseded[i].rules = passes[i].rules
  BY SupersededShape
<1>2. ASSUME NEW i \in DOMAIN passes
      PROVE  Superseded[i].leaving = passes[i].leaving
  <2>1. Superseded[i] = [passes[i] EXCEPT !.current = FALSE]
    BY DEF Superseded
  <2>2. passes[i] \in Pass
    BY PassFields
  <2> QED
    BY <2>1, <2>2 DEF Pass
<1> QED
  BY <1>0, <1>1, <1>2 DEF Leaves, ToTor, OneLeaves

LEMMA AppendSays ==
  ASSUME NEW ps \in Seq(Pass), NEW r \in Rules, NEW b \in BOOLEAN
  PROVE  /\ Append(ps, NewPass(r, b)) \in Seq(Pass) \/ ~AnonymizerAssumption
         /\ Leaves(Append(ps, NewPass(r, b))) <=> Leaves(ps) \/ b
         /\ ToTor(Append(ps, NewPass(r, b))) <=> ToTor(ps) \/ r = "tor"
         /\ Announcing(Append(ps, NewPass(r, b))) <=> Announcing(ps) \/ r = "tor"
         /\ OneLeaves(ps) /\ (b => ~Leaves(ps))
              => OneLeaves(Append(ps, NewPass(r, b)))
<1> DEFINE p == NewPass(r, b)
           qs == Append(ps, p)
           n == Len(ps)
<1>1. /\ p.rules = r /\ p.current = TRUE /\ p.leaving = b
  BY DEF NewPass
<1>2. AnonymizerAssumption => p \in Pass
  BY NewPassFields
<1>3. /\ n \in Nat /\ DOMAIN ps = 1 .. n /\ DOMAIN qs = 1 .. n + 1
      /\ \A i \in DOMAIN ps : qs[i] = ps[i]
      /\ qs[n + 1] = p
      /\ AnonymizerAssumption => qs \in Seq(Pass)
  BY <1>2
<1>4. /\ n + 1 \in DOMAIN qs /\ n + 1 \notin DOMAIN ps
      /\ \A i : i \in DOMAIN qs <=> i \in DOMAIN ps \/ i = n + 1
  BY <1>3
<1> HIDE DEF p, n, qs
<1>5. Leaves(qs) <=> Leaves(ps) \/ b
  BY <1>1, <1>3, <1>4 DEF Leaves
<1>6. ToTor(qs) <=> ToTor(ps) \/ r = "tor"
  BY <1>1, <1>3, <1>4 DEF ToTor
<1>7. Announcing(qs) <=> Announcing(ps) \/ r = "tor"
  BY <1>1, <1>3, <1>4 DEF Announcing
<1>8. OneLeaves(ps) /\ (b => ~Leaves(ps)) => OneLeaves(qs)
  BY <1>1, <1>3, <1>4 DEF OneLeaves, Leaves
<1> QED
  BY <1>3, <1>5, <1>6, <1>7, <1>8 DEF p, qs

LEMMA TailSays ==
  ASSUME NEW ps \in Seq(Pass), ps # <<>>
  PROVE  /\ Leaves(Tail(ps)) => Leaves(ps)
         /\ Leaves(ps) => Head(ps).leaving \/ Leaves(Tail(ps))
         /\ Head(ps).leaving => Leaves(ps)
         /\ ToTor(Tail(ps)) => ToTor(ps)
         /\ Head(ps).rules = "tor" => ToTor(ps)
         /\ Announcing(ps) => \/ Head(ps).rules = "tor" /\ Head(ps).current
                              \/ Announcing(Tail(ps))
         /\ OneLeaves(ps) => /\ OneLeaves(Tail(ps))
                             /\ Head(ps).leaving => ~Leaves(Tail(ps))
<1> DEFINE qs == Tail(ps)
           n == Len(ps)
           h == Head(ps)
<1>1. /\ n \in Nat \ {0} /\ DOMAIN ps = 1 .. n /\ DOMAIN qs = 1 .. n - 1
      /\ h = ps[1] /\ 1 \in DOMAIN ps
      /\ \A i \in DOMAIN qs : qs[i] = ps[i + 1] /\ i + 1 \in DOMAIN ps
  OBVIOUS
<1>2. \A i \in DOMAIN ps : i = 1 \/ (i - 1 \in DOMAIN qs /\ (i - 1) + 1 = i)
  BY <1>1
<1>3. \A i \in DOMAIN ps : i = 1 \/ (i - 1 \in DOMAIN qs /\ qs[i - 1] = ps[i])
  BY <1>1, <1>2
<1>4. \A i, j \in DOMAIN qs : i + 1 = j + 1 => i = j
  BY <1>1
<1>5. \A i \in DOMAIN qs : i + 1 # 1
  BY <1>1
<1> HIDE DEF qs, n, h
<1>6. /\ Leaves(qs) => Leaves(ps)
      /\ Leaves(ps) => h.leaving \/ Leaves(qs)
      /\ h.leaving => Leaves(ps)
  BY <1>1, <1>3 DEF Leaves
<1>7. /\ ToTor(qs) => ToTor(ps)
      /\ h.rules = "tor" => ToTor(ps)
  BY <1>1 DEF ToTor
<1>8. Announcing(ps) => (h.rules = "tor" /\ h.current) \/ Announcing(qs)
  BY <1>1, <1>3 DEF Announcing
<1>9. ASSUME OneLeaves(ps)
      PROVE  OneLeaves(qs) /\ (h.leaving => ~Leaves(qs))
  <2>1. OneLeaves(qs)
    BY <1>1, <1>4, <1>9 DEF OneLeaves
  <2>2. h.leaving => ~Leaves(qs)
    BY <1>1, <1>5, <1>9 DEF OneLeaves, Leaves
  <2> QED
    BY <2>1, <2>2
<1> QED
  BY <1>6, <1>7, <1>8, <1>9 DEF qs, h

LEMMA RouteSays ==
  ASSUME Base, NEW i \in DOMAIN passes, Route(i)
  PROVE  /\ Leaves(passes)' <=> Leaves(passes)
         /\ ToTor(passes)' <=> ToTor(passes)
         /\ Announcing(passes)' <=> Announcing(passes)
         /\ OneLeaves(passes)' <=> OneLeaves(passes)
<1>1. /\ passes' = [passes EXCEPT ![i].at = passes[i].at + 1]
  BY DEF Route
<1>2. DOMAIN passes' = DOMAIN passes
  BY <1>1
<1>3. ASSUME NEW j \in DOMAIN passes
      PROVE  /\ passes'[j].leaving = passes[j].leaving
             /\ passes'[j].rules = passes[j].rules
             /\ passes'[j].current = passes[j].current
  <2>1. passes[j] \in Pass
    BY PassFields
  <2>2. passes'[j] = IF j = i THEN [passes[j] EXCEPT !.at = passes[i].at + 1]
                              ELSE passes[j]
    BY <1>1 DEF Base
  <2> QED
    BY <2>1, <2>2 DEF Pass
<1> QED
  BY <1>2, <1>3 DEF Leaves, ToTor, Announcing, OneLeaves

(* A step of the anonymizer or of its client while no pass ends: what is   *)
(* saved and wanted stays.                                                 *)
LEMMA SetStays ==
  ASSUME SetInv, UNCHANGED <<delivery, saved, saving, want, overlap>>,
         OneLeaves(passes) => OneLeaves(passes)',
         Leaves(passes)' <=> Leaves(passes),
         ToTor(passes)' => ToTor(passes) \/ starting,
         starting' => starting,
         awaiting = "none" => awaiting' = "none",
         mode' = mode \/ (mode' = "blocked" /\ (starting \/ mode # "off" \/ awaiting # "none"))
           \/ ~FailClosed,
         mode' # "off" \/ (mode' = mode
             /\ (starting => starting' \/ Announcing(passes)')
             /\ (Announcing(passes) => Announcing(passes)')) \/ ~FailClosed
  PROVE  SetInv'
<1> SUFFICES ASSUME FailClosed, ~overlap
             PROVE  OneAtATime' /\ Wanted' /\ Driven'
  BY DEF SetInv
<1>1. OneAtATime /\ Wanted /\ Driven /\ want \in DeliveryModes
  BY DEF SetInv
<1>2. OneAtATime'
  BY <1>1 DEF OneAtATime
<1>3. Wanted'
  BY <1>1 DEF Wanted
<1>4. Driven'
  BY <1>1 DEF Driven, Out, IsOn
<1> QED
  BY <1>2, <1>3, <1>4

(* _cannotRoute(), for whoever calls it. *)
LEMMA CannotRouteSet ==
  ASSUME AnonymizerAssumption, Base, SetInv, UNCHANGED deliveryVars,
         NEW ps \in Seq(Pass), CannotRoute(ps),
         Leaves(ps) <=> Leaves(passes), ToTor(ps) <=> ToTor(passes),
         OneLeaves(passes) => OneLeaves(ps),
         starting' => starting, awaiting' \in {awaiting, "none"},
         starting \/ mode # "off" \/ awaiting # "none"
  PROVE  SetInv'
<1> DEFINE r == IF FailClosed THEN "blackhole" ELSE "direct"
<1>1. r \in Rules /\ r # "tor" /\ FALSE \in BOOLEAN
  BY DEF Rules
<1>2. passes' = Append(ps, NewPass(r, FALSE)) /\ (FailClosed => mode' = "blocked")
  BY DEF CannotRoute
<1> HIDE DEF r
<1>3. /\ Leaves(passes)' <=> Leaves(passes)
      /\ ToTor(passes)' => ToTor(passes)
      /\ OneLeaves(passes) => OneLeaves(passes)'
  BY <1>1, <1>2, AppendSays DEF Leaves, ToTor, OneLeaves
<1>4. UNCHANGED <<delivery, saved, saving, want, overlap>>
  BY DEF deliveryVars
<1>5. /\ awaiting = "none" => awaiting' = "none"
      /\ mode' = "blocked" \/ ~FailClosed
  BY <1>2
<1> QED
  BY <1>3, <1>4, <1>5, SetStays

LEMMA BackgroundSet ==
  ASSUME AnonymizerAssumption, Base, SetInv, Background, UNCHANGED deliveryVars
  PROVE  SetInv'
<1>1. UNCHANGED <<delivery, saved, saving, want, overlap>> /\ passes \in Seq(Pass)
  BY DEF deliveryVars, Base
<1>2. CASE StartReturns
  <2>1. /\ passes' = Append(passes, NewPass("tor", FALSE)) /\ starting
        /\ UNCHANGED <<mode, awaiting>> /\ starting' = FALSE
    BY <1>2 DEF StartReturns
  <2>2. /\ Leaves(passes)' <=> Leaves(passes)
        /\ Announcing(passes)'
        /\ OneLeaves(passes) => OneLeaves(passes)'
    BY <1>1, <2>1, AppendSays DEF Leaves, Announcing, OneLeaves, Rules
  <2> QED
    BY <1>1, <2>1, <2>2, SetStays
<1>3. CASE StartUnavailable
  BY <1>1, <1>3, CannotRouteSet DEF StartUnavailable
<1>4. CASE AwaitFailed
  BY <1>1, <1>4, CannotRouteSet DEF AwaitFailed
<1>5. CASE RevokeHeard
  BY <1>5, SupersededSays, CannotRouteSet DEF RevokeHeard
<1>6. ASSUME NEW i \in DOMAIN passes, Route(i)
      PROVE  SetInv'
  <2>1. UNCHANGED <<mode, starting, awaiting>>
    BY <1>6 DEF Route, controller
  <2> QED
    BY <1>1, <1>6, <2>1, RouteSays, SetStays
<1>7. CASE AwaitReady \/ Offer \/ Bootstrap \/ RevokeUnheard
  <2>1. /\ UNCHANGED <<mode, starting, passes>>
        /\ awaiting = "none" => awaiting' = "none"
    BY <1>7 DEF AwaitReady, Offer, Bootstrap, RevokeUnheard, controller, net
  <2>2. /\ Leaves(passes)' <=> Leaves(passes)
        /\ ToTor(passes)' <=> ToTor(passes)
        /\ Announcing(passes)' <=> Announcing(passes)
        /\ OneLeaves(passes)' <=> OneLeaves(passes)
    BY <2>1 DEF Leaves, ToTor, Announcing, OneLeaves
  <2> QED
    BY <1>1, <2>1, <2>2, SetStays
<1> QED
  BY <1>2, <1>3, <1>4, <1>5, <1>6, <1>7 DEF Background, Client

(* set() up to its await. *)
LEMMA SetPrivateSet ==
  ASSUME SetInv, SetPrivate
  PROVE  SetInv'
<1> SUFFICES ASSUME FailClosed, ~overlap'
             PROVE  OneAtATime' /\ Wanted' /\ Driven'
  BY DEF SetInv, SetPrivate, Request, DeliveryModes
<1>1. /\ want' = "private" /\ delivery' = "private"
      /\ saving = <<>> /\ ~starting /\ ~Leaves(passes) /\ ~ToTor(passes)
      /\ saving' = Append(saving, "private")
      /\ UNCHANGED <<passes, starting>>
  BY DEF SetPrivate, Request, SetInFlight, Leaves, ToTor, anonymizerVars,
         controller, net
<1>2. saving' = <<"private">>
  BY <1>1
<1>3. ~Leaves(passes)' /\ ~ToTor(passes)' /\ OneLeaves(passes)'
  BY <1>1 DEF Leaves, ToTor, OneLeaves
<1>4. <<"private">> # <<>> /\ <<"private">> # <<"launch">>
  OBVIOUS
<1> QED
  BY <1>1, <1>2, <1>3, <1>4 DEF OneAtATime, Wanted, Driven

(* setMode('off') with no pass of Tor's in flight. *)
LEMMA SetOffLeaves ==
  ASSUME AnonymizerAssumption, Base, NEW b \in BOOLEAN, SetOff(b),
         ~Leaves(passes), ~ToTor(passes)
  PROVE  Out' /\ OneLeaves(passes)' /\ (Leaves(passes)' <=> b)
<1>1. /\ passes' = Append(Superseded, NewPass("direct", b))
      /\ mode' = "off" /\ ~starting' /\ awaiting' = "none"
  BY DEF SetOff
<1>2. /\ Superseded \in Seq(Pass) /\ ~Leaves(Superseded) /\ ~ToTor(Superseded)
      /\ OneLeaves(Superseded)
  BY SupersededSays DEF OneLeaves, Leaves
<1>3. "direct" \in Rules /\ "direct" # "tor"
  BY DEF Rules
<1>4. /\ Leaves(passes)' <=> b
      /\ ~ToTor(passes)'
      /\ OneLeaves(passes)'
  BY <1>1, <1>2, <1>3, AppendSays DEF Leaves, ToTor, OneLeaves
<1> QED
  BY <1>1, <1>4 DEF Out

LEMMA SetFastSet ==
  ASSUME AnonymizerAssumption, Base, SetInv, SetFast
  PROVE  SetInv'
<1> SUFFICES ASSUME FailClosed, ~overlap'
             PROVE  OneAtATime' /\ Wanted' /\ Driven'
  BY DEF SetInv, SetFast, Request, DeliveryModes
<1>1. /\ want' = "fast" /\ SetOff(TRUE)
      /\ saving = <<>> /\ saving' = saving /\ ~Leaves(passes) /\ ~ToTor(passes)
  BY DEF SetFast, Request, SetInFlight, Leaves, ToTor
<1>2. Out' /\ OneLeaves(passes)' /\ Leaves(passes)'
  BY <1>1, SetOffLeaves
<1>3. <<>> # <<"launch">> /\ <<>> # <<"private">> /\ <<>> # <<"fast">>
  OBVIOUS
<1> QED
  BY <1>1, <1>2, <1>3 DEF OneAtATime, Wanted, Driven

(* A write is over. *)
LEMMA RemoveOnly ==
  ASSUME NEW x, NEW i \in DOMAIN <<x>>
  PROVE  RemoveAt(<<x>>, i) = <<>> /\ <<x>>[i] = x
BY DEF RemoveAt

LEMMA SavedSet ==
  ASSUME AnonymizerAssumption, Base, SetInv, NEW i \in DOMAIN saving, Saved(i)
  PROVE  SetInv'
<1> SUFFICES ASSUME FailClosed, ~overlap
             PROVE  OneAtATime' /\ Wanted' /\ Driven'
  BY DEF SetInv, Saved
<1>1. OneAtATime /\ Wanted /\ Driven /\ want \in DeliveryModes
  BY DEF SetInv
<1>2. saving # <<>>
  OBVIOUS
<1>3. ~starting /\ ~Leaves(passes) /\ ~ToTor(passes)
  BY <1>1, <1>2 DEF OneAtATime
<1>4. PICK x \in {"launch", "private", "fast"} : saving = <<x>>
  BY <1>1, <1>2 DEF OneAtATime
<1>5. saving' = <<>> /\ saving[i] = x /\ UNCHANGED <<delivery, want>>
  BY <1>4, RemoveOnly DEF Saved
<1>6. delivery = want /\ saved' = want
  <2>1. <<"launch">> # <<"private">> /\ <<"launch">> # <<"fast">>
        /\ \A y, z : <<y>> = <<z>> => y = z
    OBVIOUS
  <2>2. CASE x = "launch"
    BY <1>1, <1>4, <1>5, <2>2 DEF Wanted, Saved
  <2>3. CASE x # "launch"
    <3>1. delivery = want /\ <<x>> = <<want>>
      BY <1>1, <1>4, <2>3 DEF Wanted
    <3>2. saved' = x
      BY <1>5, <2>3 DEF Saved
    <3> QED
      BY <2>1, <3>1, <3>2
  <2> QED
    BY <2>2, <2>3
<1>7. <<>> # <<"launch">> /\ <<>> # <<"private">> /\ <<>> # <<"fast">>
  OBVIOUS
<1>8. CASE UNCHANGED anonymizerVars /\ x = "fast"
  <2>1. want = "fast"
    <3>1. <<"fast">> = <<want>>
      BY <1>1, <1>4, <1>8 DEF Wanted
    <3> QED
      BY <3>1
  <2>2. UNCHANGED <<mode, starting, awaiting, passes>>
    BY <1>8 DEF anonymizerVars, controller, net
  <2>3. Out
    BY <1>1, <2>1 DEF Driven
  <2>4. Out' /\ OneLeaves(passes)' /\ ~Leaves(passes)'
    BY <1>1, <1>3, <2>2, <2>3 DEF Out, ToTor, OneLeaves, Leaves, OneAtATime
  <2> QED
    BY <1>5, <1>6, <1>7, <2>1, <2>4 DEF OneAtATime, Wanted, Driven
<1>9. CASE SetTor /\ delivery = "private"
  <2>1. /\ Superseded \in Seq(Pass) /\ ~Leaves(Superseded) /\ ~ToTor(Superseded)
        /\ OneLeaves(Superseded)
    BY <1>1, <1>3, SupersededSays DEF OneAtATime
  <2>2. passes' = Superseded /\ starting' = TRUE
    BY <1>9 DEF SetTor
  <2>3. ~Leaves(passes)' /\ OneLeaves(passes)' /\ starting'
    BY <2>1, <2>2 DEF Leaves, OneLeaves
  <2> QED
    BY <1>5, <1>6, <1>7, <1>9, <2>3 DEF OneAtATime, Wanted, Driven
<1>10. CASE SetOff(FALSE) /\ delivery = "fast"
  <2>1. Out' /\ OneLeaves(passes)' /\ ~Leaves(passes)'
    BY <1>3, <1>10, SetOffLeaves
  <2> QED
    BY <1>5, <1>6, <1>7, <1>10, <2>1 DEF OneAtATime, Wanted, Driven
<1>11. delivery \in DeliveryModes
  BY <1>1, <1>6
<1> QED
  BY <1>4, <1>5, <1>8, <1>9, <1>10, <1>11 DEF Saved, Apply, DeliveryModes
(* A pass is over. *)
LEMMA RoutedSet ==
  ASSUME AnonymizerAssumption, Base, SetInv, Routed
  PROVE  SetInv'
<1> SUFFICES ASSUME FailClosed, ~overlap
             PROVE  OneAtATime' /\ Wanted' /\ Driven'
  BY DEF SetInv, Routed
<1> DEFINE h == Head(passes)
           rest == Tail(passes)
<1>1. OneAtATime /\ Wanted /\ Driven /\ want \in DeliveryModes
  BY DEF SetInv
<1>2. /\ passes # <<>> /\ passes \in Seq(Pass) /\ passes' = rest
      /\ UNCHANGED <<starting, saved, want>>
  BY DEF Routed, Settle, Base
<1>3. \/ h.rules = "tor" /\ mode' = "tor"
      \/ UNCHANGED <<mode, awaiting>> /\ ~(h.rules = "tor" /\ h.current)
  BY DEF Routed, Settle, Announce
<1>4. /\ Leaves(rest) => Leaves(passes)
      /\ Leaves(passes) => h.leaving \/ Leaves(rest)
      /\ h.leaving => Leaves(passes) /\ ~Leaves(rest)
      /\ ToTor(rest) => ToTor(passes)
      /\ h.rules = "tor" => ToTor(passes)
      /\ Announcing(passes) => (h.rules = "tor" /\ h.current) \/ Announcing(rest)
      /\ OneLeaves(rest)
  BY <1>1, <1>2, TailSays DEF OneAtATime
<1>5. \/ h.leaving /\ delivery' = "fast" /\ saving' = Append(saving, "fast")
      \/ ~h.leaving /\ UNCHANGED <<delivery, saving>>
  BY DEF Routed
<1>6. /\ Leaves(passes)' <=> Leaves(rest)
      /\ ToTor(passes)' <=> ToTor(rest)
      /\ Announcing(passes)' <=> Announcing(rest)
      /\ OneLeaves(passes)'
  BY <1>2, <1>4 DEF Leaves, ToTor, Announcing, OneLeaves
<1> HIDE DEF h, rest
<1>7. Out => Out'
  BY <1>2, <1>3, <1>4, <1>6 DEF Out
<1>8. CASE h.leaving
  <2>1. want = "fast" /\ saving = <<>> /\ Out
    BY <1>1, <1>4, <1>8 DEF OneAtATime, Driven
  <2>2. delivery' = "fast" /\ saving' = <<"fast">>
    BY <1>5, <1>8, <2>1
  <2>3. Out' /\ ~Leaves(passes)' /\ want' = "fast"
    BY <1>2, <1>4, <1>6, <1>7, <1>8, <2>1
  <2>4. <<"fast">> # <<>> /\ <<"fast">> # <<"launch">>
    OBVIOUS
  <2>5. OneAtATime'
    BY <1>6, <2>2, <2>3 DEF OneAtATime, Out
  <2> QED
    BY <2>2, <2>3, <2>4, <2>5 DEF Wanted, Driven
<1>9. CASE ~h.leaving
  <2>1. UNCHANGED <<delivery, saving>> /\ (Leaves(passes)' <=> Leaves(passes))
    BY <1>4, <1>5, <1>6, <1>9
  <2>2. OneAtATime'
    BY <1>1, <1>2, <1>4, <1>6, <2>1 DEF OneAtATime
  <2>3. Wanted'
    BY <1>1, <1>2, <2>1 DEF Wanted
  <2>4. IsOn \/ starting \/ Announcing(passes)
          => (IsOn \/ starting \/ Announcing(passes))'
    BY <1>2, <1>3, <1>4, <1>6 DEF IsOn
  <2>5. Driven'
    BY <1>1, <1>2, <1>7, <2>1, <2>4 DEF Driven
  <2> QED
    BY <2>2, <2>3, <2>5
<1> QED
  BY <1>8, <1>9

LEMMA InitSet == Init => SetInv
<1> SUFFICES ASSUME Init PROVE SetInv
  OBVIOUS
<1>1. /\ saving = <<"launch">> /\ passes = <<>> /\ delivery = want /\ saved = want
      /\ want \in DeliveryModes /\ mode = "off" /\ ~starting /\ awaiting = "none"
  BY DEF Init, AnonymizerInit
<1>2. <<"launch">> # <<>> /\ <<"launch">> # <<"private">> /\ <<"launch">> # <<"fast">>
  OBVIOUS
<1>3. ~Leaves(passes) /\ ~ToTor(passes) /\ OneLeaves(passes)
  BY <1>1 DEF Leaves, ToTor, OneLeaves
<1> QED
  BY <1>1, <1>2, <1>3 DEF SetInv, OneAtATime, Wanted, Driven, Out

LEMMA StepSet == Base /\ SetInv /\ [Next]_vars => SetInv'
<1> SUFFICES ASSUME Base, SetInv, [Next]_vars PROVE SetInv'
  OBVIOUS
<1>1. CASE UNCHANGED vars
  <2>1. UNCHANGED <<mode, starting, awaiting, passes, delivery, saved, saving,
                    want, overlap>>
    BY <1>1 DEF vars, anonymizerVars, controller, net, deliveryVars
  <2> QED
    BY <2>1 DEF SetInv, OneAtATime, Wanted, Driven, Out, IsOn, Leaves, ToTor,
                Announcing, OneLeaves
<1>2. CASE \E i \in DOMAIN saving : Saved(i)
  BY <1>2, SavedSet, AnonymizerAssumption
<1> QED
  BY <1>1, <1>2, SetPrivateSet, SetFastSet, RoutedSet, BackgroundSet,
     AnonymizerAssumption DEF Next

(* `They must move TOGETHER' (src/delivery-mode.js), however many sessions  *)
(* and switches there are and whatever Tor does: while no set() is called   *)
(* during another one, at rest what was last asked for is what the mode     *)
(* says and what the file holds, and the anonymizer is on in Private only.  *)
THEOREM DeliveryAgrees == Spec => []Agreement
<1>1. ASSUME SetInv PROVE Agreement
  <2> SUFFICES ASSUME FailClosed, ~overlap, AtRest, saving = <<>>
               PROVE  delivery = want /\ saved = want /\ (delivery = "private" <=> IsOn)
    BY DEF Agreement
  <2>1. Wanted /\ Driven /\ want \in DeliveryModes
    BY <1>1 DEF SetInv
  <2>2. ~starting /\ ~Leaves(passes) /\ ~Announcing(passes)
    BY DEF AtRest, Leaves, Announcing
  <2>3. delivery = want /\ saved = want
    BY <2>1, <2>2 DEF Wanted
  <2>4. want = "private" <=> IsOn
    BY <2>1, <2>2 DEF Driven, Out, IsOn, DeliveryModes
  <2> QED
    BY <2>3, <2>4
<1>2. RouteInv => Base
  BY DEF RouteInv
<1>3. SetInv /\ RouteInv /\ [Next]_vars => SetInv'
  BY <1>2, StepSet
<1> QED
  BY <1>1, <1>3, InitSet, AlwaysRouteInv, PTL DEF Spec
===============================================================================
