----------------------------- MODULE HnsWalkProofs -----------------------------
(***************************************************************************)
(* What one walk of the chain resolver returns, for every tree of zones,   *)
(* every number of labels, servers and delegations.                        *)
(*                                                                         *)
(* The walk's result is put together in several steps from several         *)
(* replies, so that it is true cannot be proved of the last step alone.    *)
(* WalkInv says what holds between the steps: the anchor is the truth      *)
(* about the zone, the pointer read is the one the zone publishes, no      *)
(* pointer was overlooked when the address is asked for, and the address   *)
(* found is the name's own.  LossInv says the same of what lost replies    *)
(* leave, and Outcome what the panel's lock is drawn over.                 *)
(***************************************************************************)
EXTENDS SecurityPanel, TLAPS

InZone == {"text", "link", "address", "pin"}

(* The bookkeeping of the walk. *)
Steady ==
  /\ pc \in InZone => server <= NameServers
  /\ pc \in {"link", "address", "pin"} => anchor # "odd"
  /\ pc # "done" => result = Refusal("none")

TextIsTrue ==
  (pc \in {"link", "address", "pin"} /\ anchor = "good")
    => text \in Provable(world.text, Host)

NoPointerMissed ==
  (pc \in {"address", "pin"} /\ anchor = "good" /\ Holds(zone))
    => Merge(world.text, world.link) = "none"

(* The addresses a true answer may give for the name. *)
Own == IF Alias THEN {"other", "icann"} ELSE {Four, Six}

FoundIsTrue ==
  (pc = "pin" /\ anchor = "good" /\ "alias" \notin trusted)
    => Holds(zone) /\ found.address \in Own

ResultIsTrue ==
  pc = "done" =>
    /\ result.validated => anchor = "good" /\ Signed(zone)
    /\ result.validated \/ (Signed(Labels) /\ "referral" \notin trusted)
         => AsPublished(result)
    /\ result.validated /\ (result.kind # "site" \/ result.pin # "none")
         => TrueContent(result)

WalkInv == /\ TypeOK /\ Steady /\ AnchorIsTrue
           /\ TextIsTrue /\ NoPointerMissed /\ FoundIsTrue /\ ResultIsTrue

Result == [kind : Kinds,
           value : Links \cup {"conflict", "onchain", "four", "six", "other",
                               "icann"},
           validated : BOOLEAN, pin : {"none", "own", "other"},
           insecure : BOOLEAN]

-------------------------------------------------------------------------------
(* The world is well formed. *)
LEMMA WorldShape ==
  ASSUME world \in Worlds
  PROVE  /\ Labels \in Nat \ {0} /\ MaxDelegations \in Nat /\ NameServers \in Nat
         /\ world \in World /\ Host \in 1 .. Labels
         /\ Apexes \subseteq 1 .. Labels /\ 1 \in Apexes
         /\ \A z \in 1 .. Labels : world.ds[z] \in Ds
         /\ world.text \in Links /\ world.link \in Links /\ "none" \in Links
BY WalkAssumption DEF World, Host, Apexes

(* In a tree of zones that is signed throughout, a walk that trusted       *)
(* no unproven referral holds a good anchor wherever it is.                *)
LEMMA SignedIsAnchored ==
  ASSUME TypeOK, AnchorIsTrue, pc \in InZone, "referral" \notin trusted, Signed(Labels)
  PROVE  anchor = "good"
<1>1. \A a \in Apexes : a \in 1 .. Labels
  BY WorldShape DEF TypeOK
<1>2. \A a \in Apexes : world.ds[a] = "good"
  BY <1>1 DEF Signed
<1> QED
  BY <1>2 DEF TypeOK, AnchorIsTrue, Ds, InZone

(* A step into a child's zone. *)
LEMMA SignedBelow ==
  ASSUME world \in Worlds, NEW z \in 1 .. Labels, NEW c \in 1 .. Labels,
         Signed(z), NextCut(z, c), world.ds[c] = "good"
  PROVE  Signed(c)
<1>1. \A a \in Apexes : a \in 1 .. Labels
  BY WorldShape
<1>2. \A a \in Apexes : a <= c => a <= z \/ a = c
  BY <1>1 DEF NextCut, Apexes
<1> QED
  BY <1>2 DEF Signed

(* No refusal says anything of the name. *)
LEMMA RefusalIsTrue ==
  ASSUME NEW k \in Kinds \ {"txt", "pointer", "pointer-conflict", "site"}
  PROVE  /\ Refusal(k) \in Result
         /\ TrueAnswer(Refusal(k)) /\ ~Refusal(k).validated
BY WalkAssumption DEF Refusal, Result, TrueAnswer, TrueContent, TrueAddress, Kinds

(* A step that ends the walk with the result r. *)
LEMMA Ends ==
  ASSUME WalkInv, NEW r \in Result,
         world' = world, node' \in {"syncing", "synced"}, asks' = asks,
         pc' = "done", result' = r,
         UNCHANGED <<server, ctx>>,
         silent' \in SUBSET (1 .. NameServers), honest' \in BOOLEAN,
         unasked' \in SUBSET {"chain", "alias", "error"},
         trusted' \in SUBSET {"alias", "referral"},
         r.validated => anchor = "good" /\ Signed(zone),
         r.validated \/ (Signed(Labels) /\ "referral" \notin trusted') =>
           /\ TrueAddress(r) \/ "alias" \in trusted'
           /\ TrueContent(r) \/ ("alias" \in trusted' /\ ~Holds(zone)),
         r.validated /\ (r.kind # "site" \/ r.pin # "none") => TrueContent(r)
  PROVE  WalkInv'
<1>1. /\ zone' = zone /\ anchor' = anchor /\ depth' = depth
      /\ text' = text /\ found' = found /\ server' = server
  BY DEF ctx
<1>2. TypeOK'
  BY <1>1 DEF WalkInv, TypeOK, Result
<1>3. Steady' /\ AnchorIsTrue' /\ TextIsTrue' /\ NoPointerMissed' /\ FoundIsTrue'
  BY DEF Steady, InZone, AnchorIsTrue, TextIsTrue, NoPointerMissed, FoundIsTrue
<1>4. ResultIsTrue'
  <2>1. /\ Signed(Labels)' = Signed(Labels) /\ Signed(zone)' = Signed(zone)
        /\ Holds(zone)' = Holds(zone)
    BY <1>1 DEF Signed, Apexes, Holds
  <2>2. TrueContent(r)' = TrueContent(r) /\ TrueAddress(r)' = TrueAddress(r)
    BY DEF TrueContent, TrueAddress, Alias, Four, Six
  <2> QED
    BY <1>1, <2>1, <2>2 DEF ResultIsTrue, AsPublished
<1> QED
  BY <1>2, <1>3, <1>4 DEF WalkInv

(* A step that leaves the zone for the next server, or for _absent. *)
LEMMA Leaves ==
  ASSUME WalkInv, pc # "done",
         world' = world, node' \in {"syncing", "synced"}, asks' = asks,
         pc' \in {"absent", "server"}, UNCHANGED <<ctx, result>>,
         server' \in 1 .. NameServers + 1,
         silent' \in SUBSET (1 .. NameServers), honest' \in BOOLEAN,
         unasked' \in SUBSET {"chain", "alias", "error"},
         trusted' \in SUBSET {"alias", "referral"}
  PROVE  WalkInv'
<1>1. /\ zone' = zone /\ anchor' = anchor /\ depth' = depth
      /\ text' = text /\ found' = found
  BY DEF ctx
<1>2. TypeOK'
  BY <1>1 DEF WalkInv, TypeOK
<1>3. Steady'
  BY DEF WalkInv, Steady, InZone
<1>4. AnchorIsTrue' /\ TextIsTrue' /\ NoPointerMissed' /\ FoundIsTrue' /\ ResultIsTrue'
  BY DEF AnchorIsTrue, TextIsTrue, NoPointerMissed, FoundIsTrue, ResultIsTrue
<1> QED
  BY <1>2, <1>3, <1>4 DEF WalkInv

-------------------------------------------------------------------------------
Silent == {"none", "threw", "unregistered", "unreachable", "blocked",
           "dnssec-fail", "dnssec-unsupported", "op"}

(* The answers taken from the chain alone. *)
LEMMA OnchainIsTrue ==
  /\ Content("pointer", "onchain", FALSE) \in Result
  /\ TrueAnswer(Content("pointer", "onchain", FALSE))
  /\ Site("onchain", FALSE, "none", TRUE) \in Result
  /\ TrueAnswer(Site("onchain", FALSE, "none", TRUE))
  /\ ~Content("pointer", "onchain", FALSE).validated
  /\ ~Site("onchain", FALSE, "none", TRUE).validated
BY DEF Content, Site, Result, TrueAnswer, TrueContent, TrueAddress, Kinds

LEMMA Refuses ==
  ASSUME WalkInv, NEW k \in Silent, Refuse(k),
         world' = world, node' \in {"syncing", "synced"}, asks' = asks,
         honest' \in BOOLEAN,
         unasked' \in SUBSET {"chain", "alias", "error"},
         trusted' \in SUBSET {"alias", "referral"}
  PROVE  WalkInv'
<1>1. k \in Kinds \ {"txt", "pointer", "pointer-conflict", "site"}
  BY DEF Silent, Kinds
<1>2. /\ Refusal(k) \in Result
      /\ TrueAnswer(Refusal(k)) /\ ~Refusal(k).validated
  BY <1>1, RefusalIsTrue
<1>3. /\ pc' = "done" /\ result' = Refusal(k)
      /\ UNCHANGED <<server, ctx>> /\ silent' \in SUBSET (1 .. NameServers)
  BY DEF Refuse, Finish, WalkInv, TypeOK
<1> HIDE DEF Refuse
<1> QED
  BY <1>2, <1>3, Ends DEF TrueAnswer

LEMMA ChainWalk ==
  ASSUME WalkInv, AskChain
  PROVE  WalkInv'
<1>1. /\ world' = world /\ node' \in {"syncing", "synced"} /\ asks' = asks
      /\ honest' \in BOOLEAN /\ trusted' \in SUBSET {"alias", "referral"}
      /\ pc = "chain"
  BY DEF AskChain, WalkInv, TypeOK
<1>2. unasked' \in SUBSET {"chain", "alias", "error"}
  BY DEF AskChain
<1>3. \/ \E k \in Silent : Refuse(k)
      \/ Finish(Content("pointer", "onchain", FALSE))
      \/ Finish(Site("onchain", FALSE, "none", TRUE))
      \/ (Goto("absent") \/ Goto("server")) /\ UNCHANGED ctx
  <2> DEFINE Outcomes == \/ \E k \in Silent : Refuse(k)
                         \/ Finish(Content("pointer", "onchain", FALSE))
                         \/ Finish(Site("onchain", FALSE, "none", TRUE))
                         \/ (Goto("absent") \/ Goto("server")) /\ UNCHANGED ctx
  <2>1. /\ "unreachable" \in Silent /\ "unregistered" \in Silent
        /\ "dnssec-unsupported" \in Silent /\ "blocked" \in Silent
        /\ "op" \in Silent
    BY DEF Silent
  <2>2. ASSUME NEW got, NEW ds, WithRecords(got, ds) PROVE Outcomes
    BY <2>1, <2>2, Zenon DEF WithRecords
  <2>3. ASSUME NEW got, WithRecordsForTxt(got) PROVE Outcomes
    BY <2>1, <2>3, Zenon DEF WithRecordsForTxt
  <2> HIDE DEF Outcomes
  <2>4. Refuse("unreachable") \/ (Goto("absent") /\ UNCHANGED ctx) => Outcomes
    BY <2>1, Zenon DEF Outcomes
  <2>5. \E got, ds : \/ Refuse("unreachable") \/ (Goto("absent") /\ UNCHANGED ctx)
                    \/ WithRecords(got, ds) \/ WithRecordsForTxt(got)
    <3> HIDE DEF Refuse, Goto, WithRecords, WithRecordsForTxt
    <3> QED
      BY DEF AskChain
  <2>6. Outcomes
    BY <2>2, <2>3, <2>4, <2>5, Zenon
  <2> QED
    BY <2>6, Zenon DEF Outcomes
<1>4. CASE \E k \in Silent : Refuse(k)
  BY <1>1, <1>2, <1>4, Refuses
<1>5. CASE Finish(Content("pointer", "onchain", FALSE))
  <2>1. /\ pc' = "done" /\ result' = Content("pointer", "onchain", FALSE)
        /\ UNCHANGED <<server, ctx>> /\ silent' \in SUBSET (1 .. NameServers)
    BY <1>5 DEF Finish, WalkInv, TypeOK
  <2> QED
    BY <1>1, <1>2, <2>1, OnchainIsTrue, Ends DEF TrueAnswer
<1>6. CASE Finish(Site("onchain", FALSE, "none", TRUE))
  <2>1. /\ pc' = "done" /\ result' = Site("onchain", FALSE, "none", TRUE)
        /\ UNCHANGED <<server, ctx>> /\ silent' \in SUBSET (1 .. NameServers)
    BY <1>6 DEF Finish, WalkInv, TypeOK
  <2> QED
    BY <1>1, <1>2, <2>1, OnchainIsTrue, Ends DEF TrueAnswer
<1>7. CASE (Goto("absent") \/ Goto("server")) /\ UNCHANGED ctx
  <2>1. /\ pc' \in {"absent", "server"} /\ UNCHANGED <<ctx, result>>
        /\ server' \in 1 .. NameServers + 1
        /\ silent' \in SUBSET (1 .. NameServers)
    BY <1>7 DEF Goto, WalkInv, TypeOK
  <2> QED
    BY <1>1, <1>2, <2>1, Leaves
<1> QED
  BY <1>3, <1>4, <1>5, <1>6, <1>7

LEMMA AbsentWalk ==
  ASSUME WalkInv, Absent
  PROVE  WalkInv'
<1>1. /\ world' = world /\ node' \in {"syncing", "synced"} /\ asks' = asks
      /\ honest' \in BOOLEAN /\ trusted' \in SUBSET {"alias", "referral"}
      /\ unasked' \in SUBSET {"chain", "alias", "error"}
  BY DEF Absent, WalkInv, TypeOK
<1>2. Refuse("unregistered") \/ Refuse("unreachable")
  BY DEF Absent
<1>3. "unregistered" \in Silent /\ "unreachable" \in Silent
  BY DEF Silent
<1> QED
  BY <1>1, <1>2, <1>3, Refuses

(* Each server is asked from the top: the TLD's zone under its DS on chain. *)
LEMMA CandidateWalk ==
  ASSUME WalkInv, Candidate
  PROVE  WalkInv'
<1>1. /\ world' = world /\ node' \in {"syncing", "synced"} /\ asks' = asks
      /\ honest' \in BOOLEAN /\ trusted' \in SUBSET {"alias", "referral"}
      /\ unasked' \in SUBSET {"chain", "alias", "error"} /\ pc = "server"
      /\ server \in 1 .. NameServers + 1 /\ NameServers \in Nat
      /\ silent \in SUBSET (1 .. NameServers)
  BY WalkAssumption DEF Candidate, WalkInv, TypeOK
<1>2. \/ Refuse("threw") \/ Refuse("blocked")
      \/ /\ server <= NameServers /\ server' = server + 1
         /\ UNCHANGED <<pc, ctx, result, silent>>
      \/ /\ server <= NameServers /\ pc' = "text"
         /\ zone' = 1 /\ anchor' = world.ds[1] /\ depth' = 0
         /\ text' = "none" /\ found' = [address |-> "none", valid |-> FALSE]
         /\ UNCHANGED <<server, result, silent>>
  BY DEF Candidate
<1>3. CASE Refuse("threw") \/ Refuse("blocked")
  BY <1>1, <1>3, Refuses DEF Silent
<1>4. CASE /\ server <= NameServers /\ server' = server + 1
           /\ UNCHANGED <<pc, ctx, result, silent>>
  <2>1. server' \in 1 .. NameServers + 1
    BY <1>1, <1>4
  <2> QED
    BY <1>1, <1>4, <2>1, Leaves
<1>5. CASE /\ server <= NameServers /\ pc' = "text"
           /\ zone' = 1 /\ anchor' = world.ds[1] /\ depth' = 0
           /\ text' = "none" /\ found' = [address |-> "none", valid |-> FALSE]
           /\ UNCHANGED <<server, result, silent>>
  <2>1. /\ Labels \in Nat \ {0} /\ MaxDelegations \in Nat
        /\ Apexes \subseteq 1 .. Labels /\ 1 \in Apexes
        /\ world.ds[1] \in Ds /\ "none" \in Links
    BY WorldShape DEF WalkInv, TypeOK
  <2>2. TypeOK'
    BY <1>1, <1>5, <2>1 DEF WalkInv, TypeOK
  <2>3. Steady'
    BY <1>1, <1>5 DEF WalkInv, Steady, InZone
  <2>4. AnchorIsTrue'
    <3>1. \A a \in Apexes : a <= 1 => a = 1
      BY <2>1
    <3>2. Apexes' = Apexes
      BY <1>1 DEF Apexes
    <3>3. world.ds[1] = "good" => Signed(1)
      BY <3>1 DEF Signed
    <3>4. anchor' = "good" => 1 \in Apexes /\ Signed(1)'
      BY <1>1, <1>5, <2>1, <3>2, <3>3 DEF Signed
    <3>5. anchor' = "none" => \E a \in Apexes' : a <= 1 /\ world'.ds[a] = "none"
      <4>1. world'.ds[1] = anchor' /\ 1 \in Apexes' /\ 1 <= 1
        BY <1>1, <1>5, <2>1, <3>2
      <4> QED
        BY <4>1
    <3> QED
      BY <1>1, <1>5, <2>1, <3>2, <3>4, <3>5 DEF AnchorIsTrue
  <2>5. TextIsTrue' /\ NoPointerMissed' /\ FoundIsTrue' /\ ResultIsTrue'
    BY <1>5 DEF TextIsTrue, NoPointerMissed, FoundIsTrue, ResultIsTrue
  <2> QED
    BY <2>2, <2>3, <2>4, <2>5 DEF WalkInv
<1> QED
  BY <1>2, <1>3, <1>4, <1>5

-------------------------------------------------------------------------------
(* A lost question, to a server that is one of the zone's. *)
LEMMA LostWalk ==
  ASSUME WalkInv, pc \in InZone, Lost, UNCHANGED <<world, node, asks>>,
         honest' \in BOOLEAN,
         unasked' \in SUBSET {"chain", "alias", "error"},
         trusted' \in SUBSET {"alias", "referral"}
  PROVE  WalkInv'
<1>1. /\ server \in 1 .. NameServers /\ NameServers \in Nat
      /\ silent \in SUBSET (1 .. NameServers) /\ node \in {"syncing", "synced"}
      /\ pc # "done"
  BY WalkAssumption DEF WalkInv, TypeOK, Steady, InZone
<1>2. /\ pc' = "server" /\ server' = server + 1 /\ silent' = silent \cup {server}
      /\ UNCHANGED <<ctx, result>>
  BY DEF Lost
<1>3. server' \in 1 .. NameServers + 1 /\ silent' \in SUBSET (1 .. NameServers)
  BY <1>1, <1>2
<1>4. world' = world /\ node' \in {"syncing", "synced"} /\ asks' = asks
  BY <1>1
<1> QED
  BY <1>1, <1>2, <1>3, <1>4, Leaves

(* A step that stays in the zone keeps its anchor. *)
LEMMA AnchorStays ==
  ASSUME WalkInv, pc \in InZone,
         UNCHANGED <<world, zone, anchor>>, trusted \subseteq trusted'
  PROVE  AnchorIsTrue'
<1>1. Apexes' = Apexes /\ Signed(zone)' = Signed(zone)
  BY DEF Apexes, Signed
<1> QED
  BY <1>1 DEF WalkInv, AnchorIsTrue, InZone

LEMMA FailsWalk ==
  ASSUME WalkInv, FailsValidation, UNCHANGED <<world, node, asks>>,
         honest' \in BOOLEAN,
         unasked' \in SUBSET {"chain", "alias", "error"},
         trusted' \in SUBSET {"alias", "referral"}
  PROVE  WalkInv'
<1>1. /\ world' = world /\ node' \in {"syncing", "synced"} /\ asks' = asks
  BY DEF WalkInv, TypeOK
<1>2. Refuse("dnssec-fail") \/ Refuse("dnssec-unsupported")
  BY DEF FailsValidation
<1>3. "dnssec-fail" \in Silent /\ "dnssec-unsupported" \in Silent
  BY DEF Silent
<1> QED
  BY <1>1, <1>2, <1>3, Refuses

(* Down a referral: the child's anchor is what its parent publishes of it. *)
LEMMA DescendWalk ==
  ASSUME WalkInv, pc = "text", NEW c \in zone + 1 .. Host, Descend(c),
         UNCHANGED <<world, node, asks, unasked>>
  PROVE  WalkInv'
<1>1. /\ Labels \in Nat \ {0} /\ MaxDelegations \in Nat /\ NameServers \in Nat
      /\ world \in Worlds /\ zone \in 1 .. Labels /\ Host \in 1 .. Labels
      /\ c \in 1 .. Labels /\ zone < c
      /\ depth \in 0 .. MaxDelegations /\ world.ds[c] \in Ds
      /\ Apexes \subseteq 1 .. Labels
  BY WorldShape DEF WalkInv, TypeOK
<1>2. /\ world' = world /\ node' \in {"syncing", "synced"} /\ asks' = asks
      /\ unasked' \in SUBSET {"chain", "alias", "error"}
      /\ server \in 1 .. NameServers
      /\ silent \in SUBSET (1 .. NameServers)
      /\ honest \in BOOLEAN /\ trusted \in SUBSET {"alias", "referral"}
  BY <1>1 DEF WalkInv, TypeOK, Steady, InZone
<1> DEFINE Follow ==
         /\ MayDescend /\ anchor' \in ChildAnchors(c)
         /\ zone' = c /\ depth' = depth + 1
         /\ Goto("text") /\ UNCHANGED <<text, found>>
         /\ honest' = (honest /\ NextCut(zone, c))
         /\ trusted' = IF anchor # "none" /\ ~NextCut(zone, c)
                       THEN trusted \cup {"referral"} ELSE trusted
<1>3. \/ /\ Refuse("unreachable") \/ Refuse("blocked") \/ Refuse("dnssec-fail")
         /\ UNCHANGED <<honest, trusted>>
      \/ /\ pc' = "done" /\ result' = Refusal("unreachable")
         /\ silent' = silent \cup {server}
         /\ UNCHANGED <<server, ctx, honest, trusted>>
      \/ Follow
  BY DEF Descend
<1>4. CASE /\ Refuse("unreachable") \/ Refuse("blocked") \/ Refuse("dnssec-fail")
           /\ UNCHANGED <<honest, trusted>>
  <2>1. "unreachable" \in Silent /\ "blocked" \in Silent /\ "dnssec-fail" \in Silent
    BY DEF Silent
  <2> QED
    BY <1>2, <1>4, <2>1, Refuses
<1>5. CASE /\ pc' = "done" /\ result' = Refusal("unreachable")
           /\ silent' = silent \cup {server}
           /\ UNCHANGED <<server, ctx, honest, trusted>>
  <2>1. "unreachable" \in Kinds \ {"txt", "pointer", "pointer-conflict", "site"}
    BY DEF Kinds
  <2>2. silent' \in SUBSET (1 .. NameServers) /\ honest' \in BOOLEAN
        /\ trusted' \in SUBSET {"alias", "referral"}
    BY <1>2, <1>5
  <2> QED
    BY <1>2, <1>5, <2>1, <2>2, RefusalIsTrue, Ends DEF TrueAnswer
<1>6. CASE Follow
  <2>1. /\ zone' = c /\ depth' = depth + 1 /\ pc' = "text" /\ text' = text
        /\ found' = found /\ server' = server /\ result' = result
        /\ silent' = silent /\ anchor' \in ChildAnchors(c)
        /\ depth < MaxDelegations
        /\ honest' = (honest /\ NextCut(zone, c))
        /\ trusted' = IF anchor # "none" /\ ~NextCut(zone, c)
                      THEN trusted \cup {"referral"} ELSE trusted
    BY <1>6 DEF Goto, MayDescend
  <2>2. anchor' \in Ds
    BY <1>1, <2>1 DEF ChildAnchors, Ds
  <2>3. honest' \in BOOLEAN /\ trusted' \in SUBSET {"alias", "referral"}
    BY <1>2, <2>1
  <2>4. TypeOK'
    BY <1>1, <1>2, <2>1, <2>2, <2>3 DEF WalkInv, TypeOK
  <2>5. Steady'
    BY <2>1, <1>2 DEF WalkInv, Steady, InZone
  <2>6. AnchorIsTrue'
    <3>1. Apexes' = Apexes /\ Signed(c)' = Signed(c)
      BY <1>2 DEF Apexes, Signed
    <3>2. /\ anchor = "good" => zone \in Apexes /\ Signed(zone)
          /\ (anchor = "none" /\ "referral" \notin trusted)
               => \E a \in Apexes : a <= zone /\ world.ds[a] = "none"
      BY DEF WalkInv, AnchorIsTrue
    <3>3. CASE anchor = "none"
      <4>1. anchor' = "none" /\ trusted' = trusted
        BY <2>1, <3>3 DEF ChildAnchors
      <4>2. ASSUME "referral" \notin trusted
            PROVE  \E a \in Apexes : a <= c /\ world.ds[a] = "none"
        <5>1. PICK a \in Apexes : a <= zone /\ world.ds[a] = "none"
          BY <3>2, <3>3, <4>2
        <5>2. a <= c
          BY <1>1, <5>1
        <5> QED
          BY <5>1, <5>2
      <4> QED
        BY <1>2, <2>1, <3>1, <4>1, <4>2 DEF AnchorIsTrue
    <3>4. CASE anchor = "good" /\ NextCut(zone, c)
      <4>1. anchor' = world.ds[c] /\ c \in Apexes
        BY <2>1, <3>4 DEF ChildAnchors, NextCut, Apexes
      <4>2. anchor' = "good" => Signed(c)
        BY <1>1, <3>2, <3>4, <4>1, SignedBelow
      <4>3. world'.ds[c] = world.ds[c]
        BY <1>2
      <4> QED
        BY <1>1, <1>2, <2>1, <3>1, <4>1, <4>2, <4>3 DEF AnchorIsTrue
    <3>5. CASE anchor # "none" /\ ~NextCut(zone, c)
      <4>1. "referral" \in trusted' /\ anchor' = "none"
        BY <2>1, <3>5 DEF ChildAnchors
      <4> QED
        BY <4>1 DEF AnchorIsTrue
    <3>6. anchor # "odd"
      BY <2>1 DEF ChildAnchors
    <3> QED
      BY <3>3, <3>4, <3>5, <3>6 DEF WalkInv, TypeOK, Ds
  <2>7. TextIsTrue' /\ NoPointerMissed' /\ FoundIsTrue' /\ ResultIsTrue'
    BY <2>1 DEF TextIsTrue, NoPointerMissed, FoundIsTrue, ResultIsTrue
  <2> QED
    BY <2>4, <2>5, <2>6, <2>7 DEF WalkInv
<1> QED
  BY <1>3, <1>4, <1>5, <1>6

(* The pointer in the reply that is read is the zone's own, or the walk     *)
(* holds no anchor.                                                         *)
LEMMA TextWalk ==
  ASSUME WalkInv, AskText
  PROVE  WalkInv'
<1>1. /\ pc = "text" /\ pc \in InZone /\ UNCHANGED <<world, node, asks>>
      /\ node' \in {"syncing", "synced"}
      /\ world \in Worlds /\ world.text \in Links
      /\ honest \in BOOLEAN /\ unasked \in SUBSET {"chain", "alias", "error"}
      /\ trusted \in SUBSET {"alias", "referral"}
      /\ silent \in SUBSET (1 .. NameServers)
      /\ asks = "site" => anchor # "odd"
  BY WorldShape DEF AskText, WalkInv, TypeOK, InZone
<1>2. CASE Lost /\ UNCHANGED <<honest, unasked, trusted>>
  BY <1>1, <1>2, LostWalk
<1>3. CASE \E c \in zone + 1 .. Host : Descend(c) /\ UNCHANGED unasked
  BY <1>1, <1>3, DescendWalk
<1> DEFINE Read(v, err) ==
         \/ asks = "txt" /\ v = "none" /\ Refuse("unregistered")
         \/ FailsValidation
         \/ /\ asks = "txt" /\ v # "none"
            /\ Believed(world.text, v, Host, err)
            /\ Finish(Content("txt", v, anchor = "good"))
         \/ /\ asks = "site" /\ Believed(world.text, v, Host, err)
            /\ Goto("link") /\ text' = v /\ UNCHANGED <<zone, anchor, depth, found>>
<1>4. ASSUME NEW v \in Links, NEW err \in BOOLEAN,
             Reply(world.text, v, err), Read(v, err)
      PROVE  WalkInv'
  <2>1. /\ honest' \in BOOLEAN /\ trusted' = trusted
        /\ unasked' \in SUBSET {"chain", "alias", "error"}
    BY <1>1, <1>4 DEF Reply
  <2>2. CASE asks = "txt" /\ v = "none" /\ Refuse("unregistered")
    <3>1. "unregistered" \in Silent
      BY DEF Silent
    <3> QED
      BY <1>1, <2>1, <2>2, <3>1, Refuses
  <2>3. CASE FailsValidation
    BY <1>1, <2>1, <2>3, FailsWalk
  <2>4. CASE /\ asks = "txt" /\ v # "none"
             /\ Believed(world.text, v, Host, err)
             /\ Finish(Content("txt", v, anchor = "good"))
    <3> DEFINE r == Content("txt", v, anchor = "good")
    <3>1. r \in Result /\ r.kind = "txt" /\ r.value = v /\ (r.validated <=> anchor = "good")
      BY DEF Content, Result, Kinds
    <3>2. /\ pc' = "done" /\ result' = r /\ UNCHANGED <<server, ctx>>
          /\ silent' \in SUBSET (1 .. NameServers)
      BY <1>1, <2>4 DEF Finish
    <3>3. anchor = "good" => v = world.text
      BY <2>4 DEF Believed, Provable
    <3>4. "referral" \notin trusted' /\ Signed(Labels) => anchor = "good"
      BY <1>1, <2>1, SignedIsAnchored DEF WalkInv
    <3>5. anchor = "good" => TrueContent(r) /\ TrueAddress(r) /\ Signed(zone)
      BY <1>1, <3>1, <3>3 DEF TrueContent, TrueAddress, WalkInv, AnchorIsTrue
    <3> HIDE DEF r
    <3> QED
      BY <1>1, <2>1, <3>1, <3>2, <3>4, <3>5, Ends
  <2>5. CASE /\ asks = "site" /\ Believed(world.text, v, Host, err)
             /\ Goto("link") /\ text' = v /\ UNCHANGED <<zone, anchor, depth, found>>
    <3>1. pc' = "link" /\ UNCHANGED <<server, result, silent>>
      BY <2>5 DEF Goto
    <3>2. TypeOK'
      BY <1>1, <2>1, <2>5, <3>1 DEF WalkInv, TypeOK
    <3>3. Steady'
      BY <1>1, <2>5, <3>1 DEF WalkInv, Steady, InZone
    <3>4. AnchorIsTrue'
      BY <1>1, <2>1, <2>5, AnchorStays
    <3>5. Provable(world.text, Host)' = Provable(world.text, Host)
      BY <1>1, <2>5 DEF Provable, Holds, Apexes, Host
    <3>6. TextIsTrue'
      BY <2>5, <3>5 DEF TextIsTrue, Believed
    <3>7. NoPointerMissed' /\ FoundIsTrue' /\ ResultIsTrue'
      BY <3>1 DEF NoPointerMissed, FoundIsTrue, ResultIsTrue
    <3> QED
      BY <3>2, <3>3, <3>4, <3>6, <3>7 DEF WalkInv
  <2> QED
    BY <1>4, <2>2, <2>3, <2>4, <2>5
<1>5. \/ Lost /\ UNCHANGED <<honest, unasked, trusted>>
      \/ \E c \in zone + 1 .. Host : Descend(c) /\ UNCHANGED unasked
      \/ \E v \in Links, err \in BOOLEAN : Reply(world.text, v, err) /\ Read(v, err)
  <2> HIDE DEF Lost, Descend, Reply, Believed
  <2> QED
    BY Zenon DEF AskText
<1> HIDE DEF Read
<1> QED
  BY <1>2, <1>3, <1>4, <1>5

LEMMA UnsupportedWalk ==
  ASSUME WalkInv, Unsupported
  PROVE  WalkInv'
<1>1. /\ world' = world /\ node' \in {"syncing", "synced"} /\ asks' = asks
      /\ honest' \in BOOLEAN /\ trusted' \in SUBSET {"alias", "referral"}
      /\ unasked' \in SUBSET {"chain", "alias", "error"}
      /\ Refuse("dnssec-unsupported")
  BY DEF Unsupported, WalkInv, TypeOK
<1>2. "dnssec-unsupported" \in Silent
  BY DEF Silent
<1> QED
  BY <1>1, <1>2, Refuses

(* Both pointers are the zone's own, so what they merge to is. *)
LEMMA LinkWalk ==
  ASSUME WalkInv, AskLink
  PROVE  WalkInv'
<1>1. /\ pc = "link" /\ pc \in InZone /\ UNCHANGED <<world, node, asks>>
      /\ node' \in {"syncing", "synced"}
      /\ world \in Worlds /\ world.text \in Links /\ world.link \in Links
      /\ text \in Links /\ "none" \in Links
      /\ honest \in BOOLEAN /\ unasked \in SUBSET {"chain", "alias", "error"}
      /\ trusted \in SUBSET {"alias", "referral"}
      /\ silent \in SUBSET (1 .. NameServers)
      /\ anchor # "odd"
  BY WorldShape DEF AskLink, WalkInv, TypeOK, InZone, Steady
<1>2. CASE Lost /\ UNCHANGED <<honest, unasked, trusted>>
  BY <1>1, <1>2, LostWalk
<1> DEFINE Settled(m) ==
         \/ m = "none" /\ Goto("address") /\ UNCHANGED ctx
         \/ /\ m \notin {"none", "conflict"}
            /\ Finish(Content("pointer", m, anchor = "good"))
         \/ /\ m = "conflict"
            /\ Finish(Content("pointer-conflict", m, anchor = "good"))
<1>3. ASSUME NEW v \in Links, NEW err \in BOOLEAN, Reply(world.link, v, err),
             \/ FailsValidation
             \/ /\ Believed(world.link, v, Host + 1, err)
                /\ Settled(Merge(text, v))
      PROVE  WalkInv'
  <2> DEFINE m == Merge(text, v)
  <2>1. /\ honest' \in BOOLEAN /\ trusted' = trusted
        /\ unasked' \in SUBSET {"chain", "alias", "error"}
    BY <1>1, <1>3 DEF Reply
  <2>2. CASE FailsValidation
    BY <1>1, <2>1, <2>2, FailsWalk
  <2>3. ASSUME Believed(world.link, v, Host + 1, err), anchor = "good"
        PROVE  /\ Holds(zone) => m = Merge(world.text, world.link)
               /\ ~Holds(zone) => m = "none"
    <3>1. v \in Provable(world.link, Host + 1) /\ text \in Provable(world.text, Host)
      BY <1>1, <2>3 DEF Believed, WalkInv, TextIsTrue
    <3> QED
      BY <3>1 DEF Provable, Merge
  <2>4. m \in Links \cup {"conflict"}
    BY <1>1 DEF Merge
  <2> HIDE DEF m
  <2>5. CASE Believed(world.link, v, Host + 1, err) /\ m = "none"
             /\ Goto("address") /\ UNCHANGED ctx
    <3>1. /\ pc' = "address" /\ UNCHANGED <<server, result, silent>>
          /\ UNCHANGED <<zone, anchor, depth, text, found>>
      BY <2>5 DEF Goto, ctx
    <3>2. TypeOK'
      BY <1>1, <2>1, <3>1 DEF WalkInv, TypeOK
    <3>3. Steady'
      BY <1>1, <3>1 DEF WalkInv, Steady, InZone
    <3>4. AnchorIsTrue'
      BY <1>1, <2>1, <3>1, AnchorStays
    <3>5. /\ Provable(world.text, Host)' = Provable(world.text, Host)
          /\ Holds(zone)' = Holds(zone)
          /\ Merge(world.text, world.link)' = Merge(world.text, world.link)
      BY <1>1, <3>1 DEF Provable, Holds, Apexes, Host, Merge
    <3>6. TextIsTrue'
      BY <1>1, <3>1, <3>5 DEF WalkInv, TextIsTrue
    <3>7. NoPointerMissed'
      BY <2>3, <2>5, <3>1, <3>5 DEF NoPointerMissed
    <3>8. FoundIsTrue' /\ ResultIsTrue'
      BY <3>1 DEF FoundIsTrue, ResultIsTrue
    <3> QED
      BY <3>2, <3>3, <3>4, <3>6, <3>7, <3>8 DEF WalkInv
  <2>6. ASSUME NEW k \in {"pointer", "pointer-conflict"},
               Believed(world.link, v, Host + 1, err), m # "none",
               Finish(Content(k, m, anchor = "good"))
        PROVE  WalkInv'
    <3> DEFINE r == Content(k, m, anchor = "good")
    <3>1. /\ r \in Result /\ r.kind = k /\ r.value = m
          /\ (r.validated <=> anchor = "good")
      BY <2>4, <2>6 DEF Content, Result, Kinds
    <3>2. /\ pc' = "done" /\ result' = r /\ UNCHANGED <<server, ctx>>
          /\ silent' \in SUBSET (1 .. NameServers)
      BY <1>1, <2>6 DEF Finish
    <3>3. anchor = "good" => m = Merge(world.text, world.link)
      BY <2>3, <2>6
    <3>4. "referral" \notin trusted' /\ Signed(Labels) => anchor = "good"
      BY <1>1, <2>1, SignedIsAnchored DEF WalkInv
    <3>5. anchor = "good" => TrueContent(r) /\ TrueAddress(r) /\ Signed(zone)
      BY <1>1, <2>6, <3>1, <3>3 DEF TrueContent, TrueAddress, WalkInv, AnchorIsTrue
    <3> HIDE DEF r
    <3> QED
      BY <1>1, <2>1, <3>1, <3>2, <3>4, <3>5, Ends
  <2>7. \/ FailsValidation
        \/ Believed(world.link, v, Host + 1, err) /\ m = "none"
           /\ Goto("address") /\ UNCHANGED ctx
        \/ Believed(world.link, v, Host + 1, err) /\ m # "none"
           /\ \E k \in {"pointer", "pointer-conflict"} :
                Finish(Content(k, m, anchor = "good"))
    <3> HIDE DEF Believed, Finish, Goto
    <3> QED
      BY <1>3 DEF m
  <2> QED
    BY <2>2, <2>5, <2>6, <2>7
<1>4. \/ Lost /\ UNCHANGED <<honest, unasked, trusted>>
      \/ \E v \in Links, err \in BOOLEAN :
           /\ Reply(world.link, v, err)
           /\ \/ FailsValidation
              \/ /\ Believed(world.link, v, Host + 1, err)
                 /\ Settled(Merge(text, v))
  <2> HIDE DEF Lost, Reply, Believed, Finish, Goto, Merge
  <2> QED
    BY Zenon DEF AskLink
<1> HIDE DEF Settled
<1> QED
  BY <1>2, <1>3, <1>4

(* An address taken: in an anchored zone it is the name's own, or the end  *)
(* of an alias.                                                            *)
LEMMA TakeWalk ==
  ASSUME WalkInv, pc = "address", anchor # "odd",
         NEW x \in {"four", "six", "other", "private", "icann"},
         NEW valid \in BOOLEAN, Take(x, valid),
         UNCHANGED <<world, node, asks>>, honest' \in BOOLEAN,
         unasked' \in SUBSET {"chain", "alias", "error"},
         trusted' \in SUBSET {"alias", "referral"}, trusted \subseteq trusted',
         (anchor = "good" /\ "alias" \notin trusted' /\ x # "private")
           => Holds(zone) /\ x \in Own
  PROVE  WalkInv'
<1>1. /\ world' = world /\ node' \in {"syncing", "synced"} /\ asks' = asks
      /\ pc \in InZone
  BY DEF WalkInv, TypeOK, InZone
<1>2. CASE x = "private" /\ Refuse("blocked")
  <2>1. "blocked" \in Silent
    BY DEF Silent
  <2> QED
    BY <1>1, <1>2, <2>1, Refuses
<1>3. CASE /\ x # "private" /\ Goto("pin")
           /\ found' = [address |-> x, valid |-> valid]
           /\ UNCHANGED <<zone, anchor, depth, text>>
  <2>1. pc' = "pin" /\ UNCHANGED <<server, result, silent>>
    BY <1>3 DEF Goto
  <2>2. TypeOK'
    BY <1>1, <1>3, <2>1 DEF WalkInv, TypeOK
  <2>3. Steady'
    BY <1>3, <2>1 DEF WalkInv, Steady, InZone
  <2>4. AnchorIsTrue'
    BY <1>1, <1>3, AnchorStays
  <2>5. /\ Provable(world.text, Host)' = Provable(world.text, Host)
        /\ Holds(zone)' = Holds(zone) /\ Own' = Own
        /\ Merge(world.text, world.link)' = Merge(world.text, world.link)
    BY <1>1, <1>3 DEF Provable, Holds, Apexes, Host, Merge, Own, Alias, Four, Six
  <2>6. TextIsTrue' /\ NoPointerMissed'
    BY <1>3, <2>5 DEF WalkInv, TextIsTrue, NoPointerMissed
  <2>7. FoundIsTrue'
    BY <1>3, <2>5 DEF FoundIsTrue
  <2>8. ResultIsTrue'
    BY <2>1 DEF ResultIsTrue
  <2> QED
    BY <2>2, <2>3, <2>4, <2>6, <2>7, <2>8 DEF WalkInv
<1> QED
  BY <1>2, <1>3 DEF Take

LEMMA AddressWalk ==
  ASSUME WalkInv, AskAddress
  PROVE  WalkInv'
<1>1. /\ pc = "address" /\ pc \in InZone /\ UNCHANGED <<world, node, asks>>
      /\ node' \in {"syncing", "synced"} /\ anchor # "odd"
      /\ anchor \in {"none", "good"}
      /\ honest \in BOOLEAN /\ unasked \in SUBSET {"chain", "alias", "error"}
      /\ trusted \in SUBSET {"alias", "referral"}
  BY DEF AskAddress, WalkInv, TypeOK, InZone, Steady, Ds
<1> DEFINE As == {"lost", "error", "none", "four", "other", "private"}
           Bs == {"lost", "error", "none", "six", "other"}
<1>2. \/ Lost /\ UNCHANGED <<honest, unasked, trusted>>
      \/ \E a \in As, b \in Bs, cname \in BOOLEAN :
           /\ WithAddress(a, b) \/ WithoutAddress(a, b, cname)
           /\ honest' \in BOOLEAN
  <2>1. ASSUME NEW a, NEW b, NEW cname PROVE StillHonest(a, b, cname) \in BOOLEAN
    BY Zenon DEF StillHonest
  <2> HIDE DEF Lost, WithAddress, WithoutAddress
  <2>2. \/ Lost /\ UNCHANGED <<honest, unasked, trusted>>
        \/ \E a \in As, b \in Bs, cname \in BOOLEAN :
             /\ WithAddress(a, b) \/ WithoutAddress(a, b, cname)
             /\ honest' = StillHonest(a, b, cname)
    BY DEF AskAddress
  <2> QED
    BY <2>1, <2>2
<1>3. CASE Lost /\ UNCHANGED <<honest, unasked, trusted>>
  BY <1>1, <1>3, LostWalk
<1>4. ASSUME NEW a \in As, NEW b \in Bs, WithAddress(a, b), honest' \in BOOLEAN
      PROVE  WalkInv'
  <2> DEFINE used == IF a \in Given THEN a ELSE b
             own == IF a \in Given THEN Four ELSE Six
  <2>1. /\ used \in Given /\ UNCHANGED unasked
        /\ \/ anchor = "none" /\ Take(used, FALSE) /\ UNCHANGED trusted
           \/ FailsValidation /\ UNCHANGED trusted
           \/ /\ anchor = "good" /\ used \in Provable(own, Host)
              /\ Take(used, TRUE) /\ UNCHANGED trusted
           \/ /\ anchor = "good"
              /\ Take(used, TRUE)
              /\ trusted' = trusted \cup {"alias"}
    BY <1>4 DEF WithAddress
  <2>2. used \in {"four", "six", "other", "private", "icann"}
    BY <2>1 DEF Given
  <2>3. own \in {Four, Six} /\ used # "none"
    BY <2>1 DEF Given
  <2> HIDE DEF used, own
  <2>4. CASE anchor = "none" /\ Take(used, FALSE) /\ UNCHANGED trusted
    BY <1>1, <1>4, <2>1, <2>2, <2>4, TakeWalk
  <2>5. CASE FailsValidation /\ UNCHANGED trusted
    BY <1>1, <1>4, <2>1, <2>5, FailsWalk
  <2>6. CASE /\ anchor = "good" /\ used \in Provable(own, Host)
             /\ Take(used, TRUE) /\ UNCHANGED trusted
    <3>1. Holds(zone) /\ used \in Own
      BY <2>3, <2>6 DEF Provable, Own, Alias, Four, Six
    <3> QED
      BY <1>1, <1>4, <2>1, <2>2, <2>3, <2>6, <3>1, TakeWalk
  <2>7. CASE /\ anchor = "good" /\ Take(used, TRUE)
             /\ trusted' = trusted \cup {"alias"}
    <3>1. "alias" \in trusted' /\ trusted \subseteq trusted'
          /\ trusted' \in SUBSET {"alias", "referral"}
      BY <1>1, <2>7
    <3> QED
      BY <1>1, <1>4, <2>1, <2>2, <2>7, <3>1, TakeWalk
  <2> QED
    BY <2>1, <2>4, <2>5, <2>6, <2>7
<1>5. ASSUME NEW a \in As, NEW b \in Bs, NEW cname \in BOOLEAN,
             WithoutAddress(a, b, cname), honest' \in BOOLEAN
      PROVE  WalkInv'
  <2>1. /\ trusted' \in {trusted, trusted \cup {"alias"}}
        /\ unasked' \in SUBSET {"chain", "alias", "error"}
        /\ \/ FailsValidation
           \/ /\ Take("icann", FALSE) \/ Take("private", FALSE)
              /\ \/ anchor = "none" \/ (Alias /\ Holds(zone))
                 \/ "alias" \in trusted'
           \/ Lost
           \/ Refuse("unregistered")
    <3> HIDE DEF FailsValidation, Take, Lost, Refuse
    <3> QED
      BY <1>1, <1>5 DEF WithoutAddress
  <2>6. /\ trusted \subseteq trusted'
        /\ trusted' \in SUBSET {"alias", "referral"}
    BY <1>1, <2>1
  <2>2. CASE FailsValidation
    BY <1>1, <1>5, <2>1, <2>2, <2>6, FailsWalk
  <2>3. CASE /\ Take("icann", FALSE) \/ Take("private", FALSE)
             /\ \/ anchor = "none" \/ (Alias /\ Holds(zone))
                \/ "alias" \in trusted'
    <3>1. (anchor = "good" /\ "alias" \notin trusted')
            => Holds(zone) /\ "icann" \in Own
      BY <2>3 DEF Own
    <3> QED
      BY <1>1, <1>5, <2>1, <2>3, <2>6, <3>1, TakeWalk
  <2>4. CASE Lost
    BY <1>1, <1>5, <2>1, <2>4, <2>6, LostWalk
  <2>5. CASE Refuse("unregistered")
    <3>1. "unregistered" \in Silent
      BY DEF Silent
    <3> QED
      BY <1>1, <1>5, <2>1, <2>5, <2>6, <3>1, Refuses
  <2> QED
    BY <2>1, <2>2, <2>3, <2>4, <2>5
<1> QED
  BY <1>2, <1>3, <1>4, <1>5

(* The answer is put together: its address, its pin, and what is claimed.  *)
LEMMA PinWalk ==
  ASSUME WalkInv, AskPin
  PROVE  WalkInv'
<1> DEFINE own == IF world.pin THEN "own" ELSE "none"
<1>1. /\ pc = "pin" /\ pc \in InZone /\ UNCHANGED <<world, node, asks, unasked, trusted>>
      /\ node' \in {"syncing", "synced"} /\ anchor \in {"none", "good"}
      /\ honest \in BOOLEAN /\ unasked \in SUBSET {"chain", "alias", "error"}
      /\ trusted \in SUBSET {"alias", "referral"}
      /\ silent \in SUBSET (1 .. NameServers)
      /\ found \in [address : {"none", "four", "six", "other", "icann"}, valid : BOOLEAN]
  BY DEF AskPin, WalkInv, TypeOK, InZone, Steady, Ds
<1>2. /\ honest' \in BOOLEAN
      /\ \/ FailsValidation
         \/ \E p \in {"none", "own", "other"}, valid, plain \in BOOLEAN :
              /\ Finish(Site(found.address, valid, p, plain))
              /\ anchor = "none" => ~valid
              /\ anchor = "good" /\ (p # "none" \/ plain)
                    => p \in Provable(own, Host + 1) /\ (plain => p = "none")
  <2> HIDE DEF Finish, FailsValidation, Provable
  <2> QED
    BY <1>1 DEF AskPin
<1>3. CASE FailsValidation
  BY <1>1, <1>2, <1>3, FailsWalk
<1>4. ASSUME NEW p \in {"none", "own", "other"}, NEW valid \in BOOLEAN,
             NEW plain \in BOOLEAN,
             Finish(Site(found.address, valid, p, plain)),
             anchor = "none" => ~valid,
             anchor = "good" /\ (p # "none" \/ plain)
               => p \in Provable(own, Host + 1) /\ (plain => p = "none")
      PROVE  WalkInv'
  <2> DEFINE r == Site(found.address, valid, p, plain)
  <2>1. /\ r \in Result /\ r.kind = "site" /\ r.value = found.address
        /\ (r.validated <=> valid) /\ r.pin = p /\ (r.insecure <=> plain)
    BY <1>1, WalkAssumption DEF Site, Result, Kinds
  <2>2. /\ pc' = "done" /\ result' = r /\ UNCHANGED <<server, ctx>>
        /\ silent' \in SUBSET (1 .. NameServers)
    BY <1>1, <1>4 DEF Finish
  <2>3. "referral" \notin trusted' /\ Signed(Labels) => anchor = "good"
    BY <1>1, SignedIsAnchored DEF WalkInv
  <2>4. ASSUME anchor = "good"
        PROVE  /\ Signed(zone)
               /\ TrueAddress(r) \/ "alias" \in trusted
               /\ TrueContent(r) \/ ("alias" \in trusted /\ ~Holds(zone))
               /\ p # "none" => TrueContent(r)
    <3>1. "alias" \in trusted \/ (Holds(zone) /\ found.address \in Own)
      BY <1>1, <2>4 DEF WalkInv, FoundIsTrue
    <3>2. Holds(zone) => Merge(world.text, world.link) = "none"
      BY <1>1, <2>4 DEF WalkInv, NoPointerMissed
    <3>3. Holds(zone) /\ (p # "none" \/ plain) => p = own /\ (plain => p = "none")
      BY <1>4, <2>4 DEF Provable
    <3>4. Signed(zone)
      BY <1>1, <2>4 DEF WalkInv, AnchorIsTrue
    <3> HIDE DEF r
    <3>5. found.address \in Own => TrueAddress(r)
      BY <2>1 DEF TrueAddress, Own
    <3>6. Holds(zone) => TrueContent(r)
      BY <2>1, <3>2, <3>3 DEF TrueContent
    <3>7. p # "none" => Holds(zone)
      BY <1>4, <2>4 DEF Provable
    <3> QED
      BY <3>1, <3>4, <3>5, <3>6, <3>7
  <2>5. valid => anchor = "good"
    BY <1>1, <1>4
  <2> HIDE DEF r
  <2> QED
    BY <1>1, <1>2, <2>1, <2>2, <2>3, <2>4, <2>5, Ends
<1> HIDE DEF own
<1> QED
  BY <1>2, <1>3, <1>4

-------------------------------------------------------------------------------
(* The node reaches the tip while the walk waits. *)
LEMMA TipWalk ==
  ASSUME WalkInv, UNCHANGED <<world, asks, pc, server, ctx, result, history>>,
         node' \in {"syncing", "synced"}
  PROVE  WalkInv'
<1>1. /\ world' = world /\ asks' = asks /\ pc' = pc /\ server' = server
      /\ zone' = zone /\ anchor' = anchor /\ depth' = depth /\ text' = text
      /\ found' = found /\ result' = result /\ honest' = honest
      /\ silent' = silent /\ unasked' = unasked /\ trusted' = trusted
  BY DEF ctx, history
<1>2. TypeOK'
  BY <1>1 DEF WalkInv, TypeOK
<1>3. Steady'
  BY <1>1 DEF WalkInv, Steady
<1>4. AnchorIsTrue'
  BY <1>1 DEF WalkInv, AnchorIsTrue, Signed, Apexes
<1>5. TextIsTrue' /\ NoPointerMissed' /\ FoundIsTrue'
  BY <1>1 DEF WalkInv, TextIsTrue, NoPointerMissed, FoundIsTrue, Provable,
              Holds, Apexes, Host, Merge, Own, Alias, Four, Six
<1>6. ResultIsTrue'
  <2>1. /\ Signed(Labels)' = Signed(Labels) /\ Signed(zone)' = Signed(zone)
        /\ TrueContent(result)' = TrueContent(result)
        /\ TrueAddress(result)' = TrueAddress(result)
        /\ Holds(zone)' = Holds(zone)
    BY <1>1 DEF Signed, Apexes, Holds, TrueContent, TrueAddress, Merge, Alias,
                Four, Six
  <2> QED
    BY <1>1, <2>1 DEF WalkInv, ResultIsTrue, AsPublished
<1> QED
  BY <1>2, <1>3, <1>4, <1>5, <1>6 DEF WalkInv

(* A walk starts with nothing read and nothing said. *)
LEMMA InitWalk == Init => WalkInv
<1> SUFFICES ASSUME Init PROVE WalkInv
  OBVIOUS
<1>1. /\ Labels \in Nat \ {0} /\ MaxDelegations \in Nat /\ NameServers \in Nat
      /\ "none" \in Links
  BY WalkAssumption
<1>2. Refusal("none") \in Result
  BY RefusalIsTrue DEF Kinds
<1>3. TypeOK
  BY <1>1, <1>2 DEF Init, TypeOK, Result, Ds
<1>4. Steady /\ AnchorIsTrue /\ TextIsTrue /\ NoPointerMissed /\ FoundIsTrue
  BY DEF Init, Steady, InZone, AnchorIsTrue, TextIsTrue, NoPointerMissed,
         FoundIsTrue
<1>5. ResultIsTrue
  BY DEF Init, ResultIsTrue
<1> QED
  BY <1>3, <1>4, <1>5 DEF WalkInv

(* Every step keeps it. *)
LEMMA StepWalk == WalkInv /\ [Next]_vars => WalkInv'
<1> SUFFICES ASSUME WalkInv, [Next]_vars PROVE WalkInv'
  OBVIOUS
<1>1. CASE AskChain
  BY <1>1, ChainWalk
<1>2. CASE Absent
  BY <1>2, AbsentWalk
<1>3. CASE Candidate
  BY <1>3, CandidateWalk
<1>4. CASE AskText
  BY <1>4, TextWalk
<1>5. CASE Unsupported
  BY <1>5, UnsupportedWalk
<1>6. CASE AskLink
  BY <1>6, LinkWalk
<1>7. CASE AskAddress
  BY <1>7, AddressWalk
<1>8. CASE AskPin
  BY <1>8, PinWalk
<1>9. CASE CatchUp
  BY <1>9, TipWalk DEF CatchUp
<1>10. CASE UNCHANGED vars
  <2>1. /\ UNCHANGED <<world, asks, pc, server, ctx, result, history>>
        /\ node' \in {"syncing", "synced"}
    BY <1>10 DEF vars, WalkInv, TypeOK
  <2> QED
    BY <2>1, TipWalk
<1> QED
  BY <1>1, <1>2, <1>3, <1>4, <1>5, <1>6, <1>7, <1>8, <1>9, <1>10, Zenon
     DEF Next, Ask

LEMMA WalkInvHolds == Spec => []WalkInv
BY InitWalk, StepWalk, PTL DEF Spec

-------------------------------------------------------------------------------
(* The walk's state is well typed: never more than MaxDelegations referrals *)
(* followed, never a server asked that is not there.                       *)
THEOREM WalkIsTyped == Spec => []TypeOK
<1>1. WalkInv => TypeOK
  BY DEF WalkInv
<1> QED
  BY <1>1, WalkInvHolds, PTL

(* The DS the walk of _fromZone and _descend carries is always the truth    *)
(* about the zone it is in, whatever the servers on the way replied.       *)
THEOREM AnchorsAreTrue == Spec => []AnchorIsTrue
<1>1. WalkInv => AnchorIsTrue
  BY DEF WalkInv
<1> QED
  BY <1>1, WalkInvHolds, PTL

(* In a tree signed throughout, resolve() and txtRecords() return only what *)
(* the zone publishes, for every reply a server may send that claims no    *)
(* alias and refers to no name that is not a cut; a claimed alias can      *)
(* change the address alone, or, above the cut, the lack of a pointer.     *)
THEOREM SignedTreesAnswerTruly == Spec => []SignedAnswersAreTrue
<1>1. WalkInv => SignedAnswersAreTrue
  BY DEF WalkInv, ResultIsTrue, SignedAnswersAreTrue
<1> QED
  BY <1>1, WalkInvHolds, PTL

(* dnssecValidated is never set on an answer reached through an unsigned    *)
(* zone, nor on one with a part in it that the zone does not publish,      *)
(* except what an alias claimed by the reply brings.                       *)
THEOREM ValidatedAnswersAreGenuine == Spec => []ValidatedIsGenuine
<1>1. WalkInv => ValidatedIsGenuine
  <2> SUFFICES ASSUME WalkInv, result.validated
               PROVE  AsPublished(result) /\ anchor = "good" /\ Signed(zone)
    BY DEF ValidatedIsGenuine
  <2>1. pc = "done"
    <3> SUFFICES ASSUME pc # "done" PROVE FALSE
      OBVIOUS
    <3>1. result = Refusal("none")
      BY DEF WalkInv, Steady
    <3> QED
      BY <3>1 DEF Refusal
  <2> QED
    BY <2>1 DEF WalkInv, ResultIsTrue
<1> QED
  BY <1>1, WalkInvHolds, PTL
-------------------------------------------------------------------------------
(* Losses never change what a walk says.  "Unregistered" is said at three  *)
(* places, of what was asked at several steps before them, over several    *)
(* servers.  LossInv says what those steps leave: as long as every reply   *)
(* that came was the truth, the pointer read is the name's own, an address *)
(* is only asked for when there is no pointer, and the address found is    *)
(* the name's own or its alias's.                                          *)


(* Every reply that came was the truth. *)
Fair == honest /\ "error" \notin unasked

Absence == Unpublished \/ Shadowed

(* Where the walk is says what the chain holds. *)
ChainRead ==
  /\ pc = "chain" => unasked = {}
  /\ pc \in {"server"} \cup InZone => "ns" \in world.chain
  /\ pc = "absent" /\ unasked = {} => Absence

NameRead ==
  /\ pc \in {"link", "address", "pin"} => text = world.text
  /\ pc \in {"address", "pin"} => Merge(world.text, world.link) = "none"
  /\ pc = "pin" => found.address \in Own

Said(r) ==
  /\ TrueAnswer(r)
  /\ r.kind = "unregistered" /\ unasked = {} => Absence

LossInv == /\ ChainRead
           /\ Fair => NameRead /\ (pc = "done" => Said(result))

-------------------------------------------------------------------------------
(* What the world says of the name does not change with the walk. *)
LEMMA WorldStays ==
  ASSUME world' = world, asks' = asks
  PROVE  /\ Absence' = Absence /\ Alias' = Alias /\ Four' = Four /\ Six' = Six
         /\ Merge(world.text, world.link)' = Merge(world.text, world.link)
         /\ world.text' = world.text /\ world.chain' = world.chain
         /\ Own' = Own
         /\ \A r : TrueAnswer(r)' = TrueAnswer(r)
BY DEF Absence, Unpublished, Shadowed, Host, Own, Alias, Four, Six, Merge,
       TrueAnswer, TrueContent, TrueAddress

(* A step that ends the walk with the result r. *)
LEMMA LossEnds ==
  ASSUME NEW r, UNCHANGED <<world, asks>>, pc' = "done", result' = r,
         Fair' => /\ TrueAnswer(r)
                  /\ r.kind = "unregistered" /\ unasked' = {} => Absence
  PROVE  LossInv'
<1>1. ChainRead'
  BY DEF ChainRead, InZone
<1>2. NameRead'
  BY DEF NameRead
<1>3. Fair' => Said(result)'
  <2>1. /\ Absence' = Absence /\ TrueAnswer(r)' = TrueAnswer(r)
    BY WorldStays
  <2>2. ASSUME Fair'
        PROVE  /\ TrueAnswer(r)'
               /\ r.kind = "unregistered" /\ unasked' = {} => Absence'
    BY <2>1, <2>2
  <2>3. TrueAnswer(result)' <=> TrueAnswer(r)'
    BY DEF TrueAnswer, TrueContent, TrueAddress
  <2> QED
    BY <2>2, <2>3 DEF Said
<1> QED
  BY <1>1, <1>2, <1>3 DEF LossInv

Mute == Silent \ {"unregistered"}

LEMMA LossRefuses ==
  ASSUME UNCHANGED <<world, asks>>, NEW k \in Mute, Refuse(k)
  PROVE  LossInv'
<1>1. /\ k \in Kinds \ {"txt", "pointer", "pointer-conflict", "site"}
      /\ k # "unregistered"
  BY DEF Mute, Silent, Kinds
<1>2. pc' = "done" /\ result' = Refusal(k)
  BY DEF Refuse, Finish
<1>3. Refusal(k).kind = k
  BY DEF Refusal
<1>4. TrueAnswer(Refusal(k))
  BY <1>1, RefusalIsTrue
<1> QED
  BY <1>1, <1>2, <1>3, <1>4, LossEnds

LEMMA LossAbsence ==
  ASSUME UNCHANGED <<world, asks>>, Refuse("unregistered"),
         Fair' /\ unasked' = {} => Absence
  PROVE  LossInv'
<1>1. pc' = "done" /\ result' = Refusal("unregistered")
  BY DEF Refuse, Finish
<1>2. TrueAnswer(Refusal("unregistered"))
  BY RefusalIsTrue DEF Kinds
<1> QED
  BY <1>1, <1>2, LossEnds

(* A step to a place where nothing of the name has been read. *)
LEMMA LossLeaves ==
  ASSUME UNCHANGED <<world, asks>>, pc' \in {"server", "text"},
         "ns" \in world.chain
  PROVE  LossInv'
<1>1. ChainRead'
  BY DEF ChainRead, InZone
<1>2. NameRead'
  BY DEF NameRead
<1> QED
  BY <1>1, <1>2 DEF LossInv

LEMMA LossFails ==
  ASSUME UNCHANGED <<world, asks>>, FailsValidation
  PROVE  LossInv'
<1>1. Refuse("dnssec-fail") \/ Refuse("dnssec-unsupported")
  BY DEF FailsValidation
<1>2. "dnssec-fail" \in Mute /\ "dnssec-unsupported" \in Mute
  BY DEF Mute, Silent
<1> QED
  BY <1>1, <1>2, LossRefuses

-------------------------------------------------------------------------------
(* Nothing published, by all of what the chain says. *)
LEMMA ChainAbsence ==
  ASSUME "ns" \notin world.chain,
         \/ asks = "txt" \/ world.chain = {} \/ Host # 1
         \/ "pointer" \notin world.chain
            /\ ("synth" \in world.chain => "op" \in world.chain)
  PROVE  Absence
BY DEF Absence, Unpublished, Shadowed

LEMMA ChainLoss ==
  ASSUME WalkInv, LossInv, AskChain
  PROVE  LossInv'
<1>1. /\ UNCHANGED <<world, asks>> /\ pc = "chain"
      /\ asks \in {"site", "txt"}
  BY DEF AskChain, WalkInv, TypeOK
<1> DEFINE Out(got) ==
      \/ \E k \in Mute : Refuse(k)
      \/ /\ Refuse("unregistered") \/ Goto("absent")
         /\ got = world.chain => Absence
      \/ Finish(Content("pointer", "onchain", FALSE))
      \/ Finish(Site("onchain", FALSE, "none", TRUE))
      \/ Goto("server") /\ "ns" \in got
<1>2. ASSUME NEW got, NEW ds, WithRecords(got, ds)
      PROVE  Out(got)
  <2>1. /\ "dnssec-unsupported" \in Mute /\ "blocked" \in Mute /\ "op" \in Mute
    BY DEF Mute, Silent
  <2>2. ASSUME "ns" \notin got, ~(Host = 1 /\ "pointer" \in got),
               ~(Host = 1 /\ got \cap {"ns", "op"} = {} /\ "synth" \in got),
               got = world.chain
        PROVE  Absence
    BY <2>2, ChainAbsence
  <2> HIDE DEF Absence
  <2>3. \/ Refuse("dnssec-unsupported") \/ Refuse("blocked") \/ Refuse("op")
        \/ Finish(Content("pointer", "onchain", FALSE))
        \/ Finish(Site("onchain", FALSE, "none", TRUE))
        \/ Goto("server") /\ "ns" \in got
        \/ /\ Goto("absent") /\ "ns" \notin got
           /\ ~(Host = 1 /\ "pointer" \in got)
           /\ ~(Host = 1 /\ got \cap {"ns", "op"} = {} /\ "synth" \in got)
    <3> HIDE DEF Refuse, Finish, Goto
    <3> QED
      BY <1>2 DEF WithRecords
  <2> HIDE DEF Refuse, Finish, Goto
  <2> QED
    BY <2>1, <2>2, <2>3
<1>3. ASSUME NEW got, WithRecordsForTxt(got), asks = "txt"
      PROVE  Out(got)
  <2>1. ASSUME "ns" \notin got, got = world.chain PROVE Absence
    BY <1>3, <2>1, ChainAbsence
  <2> HIDE DEF Refuse, Finish, Goto, Absence
  <2> QED
    BY <1>3, <2>1 DEF WithRecordsForTxt
<1>4. ASSUME NEW got, got = {}, Refuse("unreachable") \/ Goto("absent")
      PROVE  Out(got)
  <2>1. "unreachable" \in Mute
    BY DEF Mute, Silent
  <2>2. got = world.chain => Absence
    BY <1>4, ChainAbsence
  <2> HIDE DEF Refuse, Finish, Goto, Absence
  <2> QED
    BY <1>4, <2>1, <2>2
<1>5. \E got : /\ got \subseteq world.chain
               /\ unasked' = IF got = world.chain THEN {} ELSE {"chain"}
               /\ \/ got = {} /\ (Refuse("unreachable") \/ Goto("absent"))
                  \/ \E ds : WithRecords(got, ds)
                  \/ asks = "txt" /\ WithRecordsForTxt(got)
  <2> HIDE DEF Refuse, Goto, WithRecords, WithRecordsForTxt
  <2> QED
    BY DEF AskChain
<1> HIDE DEF Out
<1>6. PICK got : /\ got \subseteq world.chain
                 /\ unasked' = IF got = world.chain THEN {} ELSE {"chain"}
                 /\ Out(got)
  <2> HIDE DEF Refuse, Goto, WithRecords, WithRecordsForTxt
  <2> QED
    BY <1>2, <1>3, <1>4, <1>5
<1>7. CASE \E k \in Mute : Refuse(k)
  BY <1>1, <1>7, LossRefuses
<1>8. CASE Refuse("unregistered") /\ (got = world.chain => Absence)
  <2>1. unasked' = {} => Absence
    BY <1>6, <1>8
  <2> QED
    BY <1>1, <1>8, <2>1, LossAbsence
<1>9. CASE Goto("absent") /\ (got = world.chain => Absence)
  <2>1. pc' = "absent"
    BY <1>9 DEF Goto
  <2>2. unasked' = {} => Absence
    BY <1>6, <1>9
  <2>3. Absence' = Absence
    BY <1>1, WorldStays
  <2>4. ChainRead'
    BY <2>1, <2>2, <2>3 DEF ChainRead, InZone
  <2>5. NameRead'
    BY <2>1 DEF NameRead
  <2> QED
    BY <2>1, <2>4, <2>5 DEF LossInv
<1>10. CASE Finish(Content("pointer", "onchain", FALSE))
  <2>1. /\ pc' = "done" /\ result' = Content("pointer", "onchain", FALSE)
        /\ Content("pointer", "onchain", FALSE).kind # "unregistered"
    BY <1>10 DEF Finish, Content
  <2> QED
    BY <1>1, <2>1, OnchainIsTrue, LossEnds
<1>11. CASE Finish(Site("onchain", FALSE, "none", TRUE))
  <2>1. /\ pc' = "done" /\ result' = Site("onchain", FALSE, "none", TRUE)
        /\ Site("onchain", FALSE, "none", TRUE).kind # "unregistered"
    BY <1>11 DEF Finish, Site
  <2> QED
    BY <1>1, <2>1, OnchainIsTrue, LossEnds
<1>12. CASE Goto("server") /\ "ns" \in got
  <2>1. pc' = "server" /\ "ns" \in world.chain
    BY <1>6, <1>12 DEF Goto
  <2> QED
    BY <1>1, <2>1, LossLeaves
<1> QED
  BY <1>6, <1>7, <1>8, <1>9, <1>10, <1>11, <1>12 DEF Out

LEMMA AbsentLoss ==
  ASSUME LossInv, Absent
  PROVE  LossInv'
<1>1. UNCHANGED <<world, asks>> /\ pc = "absent" /\ unasked' = unasked
  BY DEF Absent
<1>2. Refuse("unregistered") \/ Refuse("unreachable")
  BY DEF Absent
<1>3. unasked' = {} => Absence
  BY <1>1 DEF LossInv, ChainRead
<1>4. "unreachable" \in Mute
  BY DEF Mute, Silent
<1> QED
  BY <1>1, <1>2, <1>3, <1>4, LossRefuses, LossAbsence

LEMMA CandidateLoss ==
  ASSUME LossInv, Candidate
  PROVE  LossInv'
<1>1. UNCHANGED <<world, asks>> /\ pc = "server" /\ "ns" \in world.chain
  BY DEF Candidate, LossInv, ChainRead
<1>2. Refuse("threw") \/ Refuse("blocked") \/ pc' \in {"server", "text"}
  <2> HIDE DEF Refuse
  <2> QED
    BY <1>1 DEF Candidate
<1>3. "threw" \in Mute /\ "blocked" \in Mute
  BY DEF Mute, Silent
<1> QED
  BY <1>1, <1>2, <1>3, LossRefuses, LossLeaves

-------------------------------------------------------------------------------
(* A reply believed fair is what the name publishes. *)
LEMMA FairReply ==
  ASSUME NEW own, NEW v, NEW err \in BOOLEAN, Reply(own, v, err), Fair'
  PROVE  Fair /\ ~err /\ v = own
BY DEF Reply, Fair

LEMMA TextLoss ==
  ASSUME LossInv, AskText
  PROVE  LossInv'
<1>1. UNCHANGED <<world, asks>> /\ pc = "text" /\ "ns" \in world.chain
  BY DEF AskText, LossInv, ChainRead, InZone
<1>2. CASE Lost
  BY <1>1, <1>2, LossLeaves DEF Lost
<1>3. ASSUME NEW c, Descend(c)
      PROVE  LossInv'
  <2>1. \/ Refuse("unreachable") \/ Refuse("dnssec-fail") \/ Refuse("blocked")
        \/ pc' = "done" /\ result' = Refusal("unreachable")
        \/ Goto("text")
    <3> HIDE DEF Refuse, Goto
    <3> QED
      BY <1>3, Zenon DEF Descend
  <2>2. /\ "unreachable" \in Mute /\ "dnssec-fail" \in Mute /\ "blocked" \in Mute
        /\ Refusal("unreachable").kind # "unregistered"
        /\ TrueAnswer(Refusal("unreachable"))
    BY RefusalIsTrue DEF Mute, Silent, Refusal, Kinds
  <2>3. CASE pc' = "done" /\ result' = Refusal("unreachable")
    BY <1>1, <2>2, <2>3, LossEnds
  <2>4. CASE Goto("text")
    BY <1>1, <2>4, LossLeaves DEF Goto
  <2> QED
    BY <1>1, <2>1, <2>2, <2>3, <2>4, LossRefuses
<1>4. ASSUME NEW v \in Links, NEW err \in BOOLEAN, Reply(world.text, v, err)
      PROVE  /\ asks = "txt" /\ v = "none" /\ Refuse("unregistered") => LossInv'
             /\ FailsValidation => LossInv'
             /\ Finish(Content("txt", v, anchor = "good")) => LossInv'
             /\ Goto("link") /\ text' = v => LossInv'
  <2>1. Fair' => v = world.text
    BY <1>4, FairReply
  <2>2. ASSUME asks = "txt", v = "none", Refuse("unregistered")
        PROVE  LossInv'
    <3>1. Fair' => Absence
      BY <1>1, <2>1, <2>2 DEF Absence, Unpublished
    <3> QED
      BY <1>1, <2>2, <3>1, LossAbsence
  <2>3. FailsValidation => LossInv'
    BY <1>1, LossFails
  <2>4. ASSUME Finish(Content("txt", v, anchor = "good"))
        PROVE  LossInv'
    <3> DEFINE r == Content("txt", v, anchor = "good")
    <3>1. pc' = "done" /\ result' = r /\ r.kind = "txt" /\ r.value = v
      BY <2>4 DEF Finish, Content
    <3> HIDE DEF r
    <3>2. Fair' => TrueAnswer(r)
      BY <2>1, <3>1 DEF TrueAnswer, TrueContent, TrueAddress
    <3> QED
      BY <1>1, <3>1, <3>2, LossEnds
  <2>5. ASSUME Goto("link"), text' = v
        PROVE  LossInv'
    <3>1. pc' = "link"
      BY <2>5 DEF Goto
    <3>2. ChainRead'
      BY <1>1, <3>1 DEF ChainRead, InZone
    <3>3. Fair' => NameRead'
      BY <1>1, <2>1, <2>5, <3>1 DEF NameRead
    <3> QED
      BY <3>1, <3>2, <3>3 DEF LossInv
  <2> QED
    BY <2>2, <2>3, <2>4, <2>5
<1>5. \/ Lost
      \/ \E c : Descend(c)
      \/ \E v \in Links, err \in BOOLEAN :
           /\ Reply(world.text, v, err)
           /\ \/ asks = "txt" /\ v = "none" /\ Refuse("unregistered")
              \/ FailsValidation
              \/ Finish(Content("txt", v, anchor = "good"))
              \/ Goto("link") /\ text' = v
  <2> HIDE DEF Lost, Descend, Reply, Refuse, FailsValidation, Finish, Goto
  <2> QED
    BY DEF AskText
<1> QED
  BY <1>2, <1>3, <1>4, <1>5

LEMMA UnsupportedLoss ==
  ASSUME Unsupported
  PROVE  LossInv'
<1>1. UNCHANGED <<world, asks>> /\ Refuse("dnssec-unsupported")
  BY DEF Unsupported
<1>2. "dnssec-unsupported" \in Mute
  BY DEF Mute, Silent
<1> QED
  BY <1>1, <1>2, LossRefuses

LEMMA LinkLoss ==
  ASSUME LossInv, AskLink
  PROVE  LossInv'
<1>1. UNCHANGED <<world, asks>> /\ pc = "link" /\ "ns" \in world.chain
  BY DEF AskLink, LossInv, ChainRead, InZone
<1>2. CASE Lost
  BY <1>1, <1>2, LossLeaves DEF Lost
<1>3. ASSUME NEW v \in Links, NEW err \in BOOLEAN, Reply(world.link, v, err)
      PROVE  /\ FailsValidation => LossInv'
             /\ Merge(text, v) = "none" /\ Goto("address") /\ UNCHANGED ctx
                  => LossInv'
             /\ \A k \in {"pointer", "pointer-conflict"} :
                  Finish(Content(k, Merge(text, v), anchor = "good")) => LossInv'
  <2> DEFINE m == Merge(text, v)
  <2>1. Fair' => /\ text = world.text
                 /\ m = Merge(world.text, world.link)
    BY <1>1, <1>3, FairReply DEF LossInv, NameRead
  <2>2. FailsValidation => LossInv'
    BY <1>1, LossFails
  <2>3. ASSUME m = "none", Goto("address"), UNCHANGED ctx
        PROVE  LossInv'
    <3>1. pc' = "address" /\ text' = text
      BY <2>3 DEF Goto, ctx
    <3>2. ChainRead'
      BY <1>1, <3>1 DEF ChainRead, InZone
    <3>3. Fair' => NameRead'
      BY <1>1, <2>1, <2>3, <3>1, WorldStays DEF NameRead
    <3> QED
      BY <3>1, <3>2, <3>3 DEF LossInv
  <2>4. ASSUME NEW k \in {"pointer", "pointer-conflict"},
               Finish(Content(k, m, anchor = "good"))
        PROVE  LossInv'
    <3> DEFINE r == Content(k, m, anchor = "good")
    <3>1. pc' = "done" /\ result' = r /\ r.kind = k /\ r.value = m
      BY <2>4 DEF Finish, Content
    <3> HIDE DEF r, m
    <3>2. Fair' => TrueAnswer(r)
      BY <2>1, <3>1 DEF TrueAnswer, TrueContent, TrueAddress
    <3> QED
      BY <1>1, <3>1, <3>2, LossEnds
  <2> QED
    BY <2>2, <2>3, <2>4
<1>4. \/ Lost
      \/ \E v \in Links, err \in BOOLEAN :
           /\ Reply(world.link, v, err)
           /\ \/ FailsValidation
              \/ Merge(text, v) = "none" /\ Goto("address") /\ UNCHANGED ctx
              \/ \E k \in {"pointer", "pointer-conflict"} :
                   Finish(Content(k, Merge(text, v), anchor = "good"))
  <2> HIDE DEF Lost, Reply, FailsValidation, Finish, Goto, Merge
  <2> QED
    BY DEF AskLink
<1> QED
  BY <1>2, <1>3, <1>4

-------------------------------------------------------------------------------
LEMMA TakeLoss ==
  ASSUME UNCHANGED <<world, asks>>, pc = "address", LossInv,
         NEW x, NEW valid, Take(x, valid),
         Fair' /\ x # "private" => Fair /\ x \in Own
  PROVE  LossInv'
<1>1. CASE Refuse("blocked")
  <2>1. "blocked" \in Mute
    BY DEF Mute, Silent
  <2> QED
    BY <1>1, <2>1, LossRefuses
<1>2. CASE /\ x # "private" /\ Goto("pin")
           /\ found' = [address |-> x, valid |-> valid]
           /\ UNCHANGED <<zone, anchor, depth, text>>
  <2>1. pc' = "pin" /\ text' = text /\ found'.address = x
    BY <1>2 DEF Goto
  <2>2. ChainRead'
    BY <2>1 DEF LossInv, ChainRead, InZone
  <2>3. ASSUME Fair' PROVE NameRead'
    <3>1. /\ text = world.text /\ Merge(world.text, world.link) = "none"
          /\ x \in Own
      BY <1>2, <2>3 DEF LossInv, NameRead
    <3>2. found'.address \in Own'
      BY <2>1, <3>1, WorldStays
    <3> QED
      BY <2>1, <3>1, <3>2, WorldStays DEF NameRead
  <2> QED
    BY <2>1, <2>2, <2>3 DEF LossInv
<1> QED
  BY <1>1, <1>2 DEF Take

(* Neither pointer, neither family, no alias: nothing is published. *)
LEMMA NothingThere ==
  ASSUME world \in Worlds, "ns" \in world.chain,
         Merge(world.text, world.link) = "none",
         Four = "none", Six = "none", ~Alias
  PROVE  Absence
<1>1. world.address \in Addresses /\ {"conflict"} \cap {"none"} = {}
  BY WalkAssumption DEF World
<1>2. world.text = "none" /\ world.link = "none"
  BY DEF Merge
<1>3. world.address = "none"
  BY <1>1 DEF Addresses, Four, Six, Alias
<1> QED
  BY <1>2, <1>3 DEF Absence, Unpublished

LEMMA AddressLoss ==
  ASSUME WalkInv, LossInv, AskAddress
  PROVE  LossInv'
<1>1. /\ UNCHANGED <<world, asks>> /\ pc = "address" /\ "ns" \in world.chain
      /\ world \in Worlds
  BY DEF AskAddress, LossInv, ChainRead, InZone, WalkInv, TypeOK
<1> DEFINE As == {"lost", "error", "none", "four", "other", "private"}
           Bs == {"lost", "error", "none", "six", "other"}
<1>2. CASE Lost
  BY <1>1, <1>2, LossLeaves DEF Lost
<1>3. ASSUME NEW a \in As, NEW b \in Bs, WithAddress(a, b),
             honest' => honest /\ Truthful(a, Four) /\ Truthful(b, Six)
      PROVE  LossInv'
  <2> DEFINE used == IF a \in Given THEN a ELSE b
             own == IF a \in Given THEN Four ELSE Six
  <2>1. /\ used \in Given /\ unasked' = unasked
        /\ FailsValidation \/ \E valid \in BOOLEAN : Take(used, valid)
    <3> HIDE DEF FailsValidation, Take
    <3> QED
      BY <1>3, Zenon DEF WithAddress
  <2>2. Fair' => Fair /\ Truthful(used, own)
    BY <1>3, <2>1 DEF Fair
  <2>3. own \in {Four, Six}
    OBVIOUS
  <2> HIDE DEF used, own
  <2>4. Fair' => Fair /\ used \in Own
    BY <2>1, <2>2, <2>3 DEF Truthful, Given, Own, Alias, Four, Six
  <2> QED
    BY <1>1, <2>1, <2>4, LossFails, TakeLoss
<1>4. ASSUME NEW a \in As, NEW b \in Bs, NEW cname \in BOOLEAN,
             cname => (IF a = "lost" THEN b ELSE a) = "none",
             WithoutAddress(a, b, cname),
             honest' => StillHonest(a, b, cname)
      PROVE  LossInv'
  <2>1. /\ {a, b} \cap Given = {}
        /\ \/ FailsValidation
           \/ /\ cname /\ unasked' = unasked
              /\ Take("icann", FALSE) \/ Take("private", FALSE)
           \/ Lost
           \/ /\ Refuse("unregistered") /\ ~OneLost(a, b)
              /\ unasked' = unasked \cup ((IF cname THEN {"alias"} ELSE {})
                   \cup (IF "error" \in {a, b} THEN {"error"} ELSE {}))
    <3> HIDE DEF FailsValidation, Take, Lost, Refuse
    <3> QED
      BY <1>4 DEF WithoutAddress
  <2>2. CASE FailsValidation
    BY <1>1, <2>2, LossFails
  <2>3. CASE /\ cname /\ unasked' = unasked
             /\ Take("icann", FALSE) \/ Take("private", FALSE)
    <3>1. Fair' => Fair /\ "icann" \in Own
      BY <1>4, <2>3 DEF Fair, StillHonest, Own
    <3> QED
      BY <1>1, <2>3, <3>1, TakeLoss
  <2>4. CASE Lost
    BY <1>1, <2>4, LossLeaves DEF Lost
  <2>5. CASE /\ Refuse("unregistered") /\ ~OneLost(a, b)
             /\ unasked' = unasked \cup ((IF cname THEN {"alias"} ELSE {})
                  \cup (IF "error" \in {a, b} THEN {"error"} ELSE {}))
    <3>1. ASSUME Fair', unasked' = {} PROVE Absence
      <4>1. ~cname /\ a = "none" /\ b = "none"
        BY <2>1, <2>5, <3>1 DEF OneLost, Given
      <4>2. Fair /\ ~Alias /\ Four = "none" /\ Six = "none"
        BY <1>4, <2>5, <3>1, <4>1 DEF Fair, StillHonest, Truthful
      <4>3. Merge(world.text, world.link) = "none"
        BY <1>1, <4>2 DEF LossInv, NameRead
      <4> QED
        BY <1>1, <4>2, <4>3, NothingThere
    <3> QED
      BY <1>1, <2>5, <3>1, LossAbsence
  <2> QED
    BY <2>1, <2>2, <2>3, <2>4, <2>5
<1>5. \/ Lost
      \/ \E a \in As, b \in Bs, cname \in BOOLEAN :
           /\ cname => (IF a = "lost" THEN b ELSE a) = "none"
           /\ WithAddress(a, b) \/ WithoutAddress(a, b, cname)
           /\ honest' = StillHonest(a, b, cname)
  <2> HIDE DEF Lost, WithAddress, WithoutAddress, StillHonest
  <2> QED
    BY DEF AskAddress
<1>6. ASSUME NEW a, NEW b, NEW cname, StillHonest(a, b, cname)
      PROVE  honest /\ Truthful(a, Four) /\ Truthful(b, Six)
  BY <1>6 DEF StillHonest
<1> HIDE DEF As, Bs
<1> QED
  <2> HIDE DEF WithAddress, WithoutAddress, StillHonest, Truthful
  <2> QED
    BY <1>2, <1>3, <1>4, <1>5, <1>6

LEMMA PinLoss ==
  ASSUME LossInv, AskPin
  PROVE  LossInv'
<1> DEFINE own == IF world.pin THEN "own" ELSE "none"
<1>1. UNCHANGED <<world, asks, unasked>> /\ pc = "pin"
  BY DEF AskPin
<1>2. \/ FailsValidation
      \/ \E p \in {"none", "own", "other"}, plain \in BOOLEAN : \E valid :
           /\ Finish(Site(found.address, valid, p, plain))
           /\ honest' => honest
           /\ (p # "none" \/ plain) /\ honest' => p = own
           /\ plain => p = "none"
  <2> DEFINE Gives(p, valid, plain) ==
        /\ Finish(Site(found.address, valid, p, plain))
        /\ honest' => honest
        /\ (p # "none" \/ plain) /\ honest' => p = own
        /\ plain => p = "none"
  <2>1. ASSUME Finish(Site(found.address, FALSE, "none", FALSE)),
               honest' => honest
        PROVE  Gives("none", FALSE, FALSE)
    BY <2>1
  <2>2. ASSUME NEW p \in {"none", "own", "other"}, NEW valid,
               Finish(Site(found.address, valid, p, p = "none")),
               honest' => honest /\ p = own
        PROVE  Gives(p, valid, p = "none")
    BY <2>2
  <2>3. \/ FailsValidation
        \/ /\ Finish(Site(found.address, FALSE, "none", FALSE))
           /\ honest' => honest
        \/ \E p \in {"none", "own", "other"} :
             /\ honest' => honest /\ p = own
             /\ \E valid : Finish(Site(found.address, valid, p, p = "none"))
    <3> HIDE DEF Finish, FailsValidation, Provable, Site
    <3> QED
      BY DEF AskPin
  <2>4. "none" \in {"none", "own", "other"} /\ FALSE \in BOOLEAN
        /\ \A p : (p = "none") \in BOOLEAN
    OBVIOUS
  <2> HIDE DEF Gives
  <2>5. \/ FailsValidation
        \/ \E p \in {"none", "own", "other"}, plain \in BOOLEAN : \E valid :
             Gives(p, valid, plain)
    BY <2>1, <2>2, <2>3, <2>4, Zenon
  <2> QED
    BY <2>5 DEF Gives
<1>3. ASSUME NEW p \in {"none", "own", "other"}, NEW plain \in BOOLEAN,
             NEW valid, Finish(Site(found.address, valid, p, plain)),
             honest' => honest,
             (p # "none" \/ plain) /\ honest' => p = own,
             plain => p = "none"
      PROVE  LossInv'
  <2> DEFINE r == Site(found.address, valid, p, plain)
  <2>1. /\ pc' = "done" /\ result' = r /\ r.kind = "site"
        /\ r.value = found.address /\ r.pin = p /\ (r.insecure <=> plain)
    BY <1>3 DEF Finish, Site
  <2> HIDE DEF r
  <2>2. ASSUME Fair' PROVE TrueAnswer(r)
    <3>1. Fair
      BY <1>1, <1>3, <2>2 DEF Fair
    <3>2. /\ Merge(world.text, world.link) = "none"
          /\ found.address \in Own
      BY <1>1, <3>1 DEF LossInv, NameRead
    <3>3. (p # "none" \/ plain) => p = own
      BY <1>3, <2>2 DEF Fair
    <3>4. plain => ~world.pin
      BY <1>3, <3>3
    <3>5. p # "none" => p = "own" /\ world.pin
      BY <3>3
    <3> QED
      BY <2>1, <3>2, <3>4, <3>5 DEF TrueAnswer, TrueContent, TrueAddress, Own
  <2> QED
    BY <1>1, <2>1, <2>2, LossEnds
<1> HIDE DEF own
<1> QED
  BY <1>1, <1>2, <1>3, LossFails

-------------------------------------------------------------------------------
LEMMA TipLoss ==
  ASSUME LossInv, UNCHANGED <<world, asks, pc, server, ctx, result, history>>
  PROVE  LossInv'
<1>1. /\ world' = world /\ asks' = asks /\ pc' = pc /\ text' = text
      /\ found' = found /\ result' = result /\ honest' = honest
      /\ unasked' = unasked
  BY DEF ctx, history
<1>2. /\ Absence' = Absence /\ Alias' = Alias /\ Four' = Four /\ Six' = Six
      /\ Merge(world.text, world.link)' = Merge(world.text, world.link)
  BY <1>1, WorldStays
<1>3. TrueAnswer(result)' <=> TrueAnswer(result)
  BY <1>1, <1>2 DEF TrueAnswer, TrueContent, TrueAddress
<1>4. ChainRead' /\ (Fair' <=> Fair)
  BY <1>1, <1>2 DEF LossInv, ChainRead, Fair
<1>5. NameRead' <=> NameRead
  BY <1>1, <1>2 DEF NameRead, Own
<1>6. Said(result)' <=> Said(result)
  BY <1>1, <1>2, <1>3 DEF Said
<1> QED
  BY <1>1, <1>4, <1>5, <1>6 DEF LossInv

LEMMA InitLoss == Init => LossInv
BY DEF Init, LossInv, ChainRead, InZone, NameRead

LEMMA StepLoss == WalkInv /\ LossInv /\ [Next]_vars => LossInv'
<1> SUFFICES ASSUME WalkInv, LossInv, [Next]_vars PROVE LossInv'
  OBVIOUS
<1>1. CASE AskChain
  BY <1>1, ChainLoss
<1>2. CASE Absent
  BY <1>2, AbsentLoss
<1>3. CASE Candidate
  BY <1>3, CandidateLoss
<1>4. CASE AskText
  BY <1>4, TextLoss
<1>5. CASE Unsupported
  BY <1>5, UnsupportedLoss
<1>6. CASE AskLink
  BY <1>6, LinkLoss
<1>7. CASE AskAddress
  BY <1>7, AddressLoss
<1>8. CASE AskPin
  BY <1>8, PinLoss
<1>9. CASE CatchUp
  BY <1>9, TipLoss DEF CatchUp
<1>10. CASE UNCHANGED vars
  BY <1>10, TipLoss DEF vars
<1> QED
  BY <1>1, <1>2, <1>3, <1>4, <1>5, <1>6, <1>7, <1>8, <1>9, <1>10, Zenon
     DEF Next, Ask

(* Lost questions, to the node or to any of the zone's servers, never make *)
(* resolve() or txtRecords() say what the name does not publish, nor that  *)
(* it is unregistered when it is not: the failover of _withFailover and the *)
(* outcomes of _absent and _fromZone are right for every pattern of losses. *)
THEOREM LossesNeverLie == Spec => []LossNeverLies
<1>1. LossInv => LossNeverLies
  <2> SUFFICES ASSUME LossInv, pc = "done", honest,
                      unasked \cap {"error"} = {}
               PROVE  /\ TrueAnswer(result)
                      /\ result.kind = "unregistered" /\ unasked = {}
                           => Unpublished \/ Shadowed
    BY DEF LossNeverLies
  <2>1. Fair
    BY DEF Fair
  <2>2. Said(result)
    BY <2>1 DEF LossInv
  <2> QED
    BY <2>2 DEF Said, Absence
<1> QED
  BY <1>1, InitLoss, StepLoss, WalkInvHolds, PTL DEF Spec

-------------------------------------------------------------------------------
(* The lock.  What a walk that is over can have returned: something, a     *)
(* txt answer only to txtRecords(), a pin only for a site that a zone      *)
(* served, and a pointer that was not validated only where the zone is     *)
(* unsigned.                                                               *)
Outcome ==
  pc = "done" =>
    /\ result.kind # "none"
    /\ asks = "site" => result.kind # "txt"
    /\ result.kind = "dnssec-fail" => ~result.validated
    /\ result.value = "onchain" => result.pin = "none"
    /\ (result.kind = "pointer" /\ result.value # "onchain" /\ ~result.validated)
         => ZoneUnsigned

LEMMA RefusalOutcome ==
  ASSUME NEW k, k \notin {"none", "txt", "pointer"}, result' = Refusal(k)
  PROVE  Outcome'
BY DEF Refusal, Outcome

LEMMA ContentOutcome ==
  ASSUME NEW k, NEW v, NEW b, k \notin {"none", "dnssec-fail"},
         asks' = "site" => k # "txt",
         k # "pointer" \/ v = "onchain" \/ b \/ ZoneUnsigned',
         Finish(Content(k, v, b))
  PROVE  Outcome'
BY DEF Finish, Content, Outcome

LEMMA SiteOutcome ==
  ASSUME NEW v, NEW b, NEW q, NEW i, v # "onchain" \/ q = "none",
         Finish(Site(v, b, q, i))
  PROVE  Outcome'
BY DEF Finish, Site, Outcome

LEMMA GoesOnOutcome ==
  ASSUME pc' # "done"
  PROVE  Outcome'
BY DEF Outcome

LEMMA FailsOutcome ==
  ASSUME FailsValidation
  PROVE  Outcome'
BY RefusalOutcome DEF FailsValidation, Refuse, Finish

LEMMA TakeOutcome ==
  ASSUME NEW x, NEW b, Take(x, b)
  PROVE  Outcome'
BY RefusalOutcome, GoesOnOutcome DEF Take, Refuse, Finish, Goto

LEMMA ChainOutcome == AskChain => Outcome'
<1> SUFFICES ASSUME AskChain PROVE Outcome'
  OBVIOUS
<1>1. CASE Refuse("unreachable") \/ Goto("absent")
  BY <1>1, RefusalOutcome, GoesOnOutcome DEF Refuse, Finish, Goto
<1>2. ASSUME NEW got, WithRecordsForTxt(got)
      PROVE  Outcome'
  BY <1>2, RefusalOutcome, GoesOnOutcome DEF WithRecordsForTxt, Refuse, Finish, Goto
<1>3. ASSUME NEW got, NEW ds, WithRecords(got, ds)
      PROVE  Outcome'
  <2>1. \/ Finish(Content("pointer", "onchain", FALSE))
        \/ Finish(Site("onchain", FALSE, "none", TRUE))
        \/ \E k \in {"dnssec-unsupported", "blocked", "op"} : result' = Refusal(k)
        \/ pc' # "done"
    BY <1>3 DEF WithRecords, Refuse, Finish, Goto
  <2> QED
    BY <2>1, ContentOutcome, SiteOutcome, RefusalOutcome, GoesOnOutcome
<1> QED
  BY <1>1, <1>2, <1>3 DEF AskChain

LEMMA TextOutcome == TypeOK /\ AskText => Outcome'
<1> SUFFICES ASSUME TypeOK, AskText PROVE Outcome'
  OBVIOUS
<1>1. asks' = asks
  BY DEF AskText
<1>2. CASE Lost
  BY <1>2, GoesOnOutcome DEF Lost
<1>3. ASSUME NEW c, Descend(c)
      PROVE  Outcome'
  BY <1>3, RefusalOutcome, GoesOnOutcome DEF Descend, Refuse, Finish, Goto
<1>4. CASE FailsValidation \/ Refuse("unregistered") \/ Goto("link")
  BY <1>4, FailsOutcome, RefusalOutcome, GoesOnOutcome DEF Refuse, Finish, Goto
<1>5. ASSUME NEW v, NEW b, asks = "txt", Finish(Content("txt", v, b))
      PROVE  Outcome'
  BY <1>1, <1>5, ContentOutcome
<1> QED
  BY <1>2, <1>3, <1>4, <1>5 DEF AskText

LEMMA LinkOutcome == WalkInv /\ AskLink => Outcome'
<1> SUFFICES ASSUME WalkInv, AskLink PROVE Outcome'
  OBVIOUS
<1>1. CASE Lost
  BY <1>1, GoesOnOutcome DEF Lost
<1>2. CASE FailsValidation \/ Goto("address")
  BY <1>2, FailsOutcome, GoesOnOutcome DEF Goto
<1>3. ASSUME NEW k \in {"pointer", "pointer-conflict"}, NEW v,
             Finish(Content(k, v, anchor = "good")), UNCHANGED trusted
      PROVE  Outcome'
  <2>1. anchor = "good" \/ ZoneUnsigned
    BY DEF AskLink, WalkInv, TypeOK, Ds, Steady, AnchorIsTrue, ZoneUnsigned
  <2>2. world' = world /\ zone' = zone
    BY <1>3 DEF AskLink, Finish, ctx
  <2>3. ZoneUnsigned' <=> ZoneUnsigned
    BY <1>3, <2>2 DEF ZoneUnsigned, Apexes
  <2> QED
    BY <1>3, <2>1, <2>3, ContentOutcome
<1> QED
  BY <1>1, <1>2, <1>3 DEF AskLink, Reply

LEMMA AddressOutcome == AskAddress => Outcome'
<1> SUFFICES ASSUME AskAddress PROVE Outcome'
  OBVIOUS
<1>1. CASE Lost
  BY <1>1, GoesOnOutcome DEF Lost
<1>2. ASSUME NEW a, NEW b, WithAddress(a, b)
      PROVE  Outcome'
  BY <1>2, FailsOutcome, TakeOutcome DEF WithAddress
<1>3. ASSUME NEW a, NEW b, NEW c, WithoutAddress(a, b, c)
      PROVE  Outcome'
  BY <1>1, <1>3, FailsOutcome, TakeOutcome, RefusalOutcome
     DEF WithoutAddress, Refuse, Finish
<1> QED
  BY <1>1, <1>2, <1>3 DEF AskAddress

LEMMA PinOutcome == TypeOK /\ AskPin => Outcome'
<1> SUFFICES ASSUME TypeOK, AskPin PROVE Outcome'
  OBVIOUS
<1>1. found.address # "onchain"
  BY DEF TypeOK
<1>2. ASSUME NEW b, NEW q, NEW i, Finish(Site(found.address, b, q, i))
      PROVE  Outcome'
  BY <1>1, <1>2, SiteOutcome
<1> QED
  BY <1>2, FailsOutcome DEF AskPin

LEMMA StepOutcome == WalkInv /\ Outcome /\ [Next]_vars => Outcome'
<1> SUFFICES ASSUME WalkInv, Outcome, [Next]_vars PROVE Outcome'
  OBVIOUS
<1>0. TypeOK
  BY DEF WalkInv
<1>1. CASE Absent \/ Unsupported
  BY <1>1, RefusalOutcome DEF Absent, Unsupported, Refuse, Finish
<1>2. CASE Candidate
  BY <1>2, RefusalOutcome, GoesOnOutcome DEF Candidate, Refuse, Finish
<1>3. CASE CatchUp \/ UNCHANGED vars
  BY <1>3 DEF CatchUp, vars, ctx, history, Outcome, ZoneUnsigned, Apexes
<1> QED
  BY <1>0, <1>1, <1>2, <1>3, ChainOutcome, TextOutcome, LinkOutcome, AddressOutcome,
     PinOutcome DEF Next, Ask

(* What the lock needs of the resolution that it is drawn over: every step  *)
(* that HnsSteps() puts on the panel is verified.                          *)
LEMMA VerifiedSteps ==
  ASSUME NEW r, NEW t, Summarize(HnsSteps(r, t)) = "verified"
  PROVE  \A s \in HnsSteps(r, t) : s.state = "verified"
<1>1. HnsSteps(r, t) = Saying(HnsSteps(r, t), "verified")
  BY DEF Summarize
<1> QED
  BY <1>1 DEF Saying

LEMMA VerifiedSays ==
  ASSUME NEW r, NEW t, Summarize(HnsSteps(r, t)) = "verified"
  PROVE  /\ ~r.op
         /\ r.ns => r.validated
         /\ r.kind = "dnssec-fail" => r.validated
         /\ r.kind \notin {"unregistered", "blocked", "unreachable"}
         /\ r.kind = "site" => r.pins
<1> DEFINE Ok(s) == s.state = "verified"
<1>1. \A s \in HnsSteps(r, t) : Ok(s)
  BY VerifiedSteps
<1>2. \A l, x : Ok([label |-> l, state |-> x]) => x = "verified"
  OBVIOUS
<1> HIDE DEF Ok
<1>3. ~r.op
  BY <1>1, <1>2 DEF HnsSteps, OpStep, When, Step
<1>4. r.ns => r.validated
  BY <1>1, <1>2 DEF HnsSteps, ZoneStep, When, Step
<1>5. r.kind = "dnssec-fail" => r.validated
  BY <1>1, <1>2 DEF HnsSteps, DnssecStep, Step
<1>6. r.kind \notin {"unregistered", "blocked", "unreachable"}
  BY <1>1, <1>2 DEF HnsSteps, FailureStep, When, Step
<1>7. r.kind = "site" => r.pins
  BY <1>1, <1>2 DEF HnsSteps, PinStep, When, Step
<1> QED
  BY <1>3, <1>4, <1>5, <1>6, <1>7

(* What is shown of a walk under a closed lock is a pointer, or a site that *)
(* a zone served, validated and with a pin.                                *)
LEMMA GreenSays ==
  ASSUME TypeOK, Outcome, OnShow, "verified" \in Shown, ~Unstepped
  PROVE  \/ result.kind = "pointer"
         \/ /\ result.kind = "site" /\ result.pin # "none"
            /\ result.value # "onchain" /\ result.validated
<1>0. PICK r \in Resolutions(result) :
        \E t \in Loaded(r) : Summarize(HnsSteps(r, t)) = "verified"
  BY DEF Shown
<1>1. PICK t \in Loaded(r) : Summarize(HnsSteps(r, t)) = "verified"
  BY <1>0
<1>2. /\ ~r.op
      /\ r.ns => r.validated
      /\ r.kind = "dnssec-fail" => r.validated
      /\ r.kind \notin {"unregistered", "blocked", "unreachable"}
      /\ r.kind = "site" => r.pins
  BY <1>1, VerifiedSays
<1>3. result.kind # "op"
  BY <1>0, <1>2 DEF Resolutions, FromRegistry
<1>4. CASE result.kind # "pointer"
  <2>1. r = Resolution(result.kind, result)
    BY <1>0, <1>3, <1>4 DEF Resolutions
  <2>2. /\ r.kind = result.kind /\ r.validated = result.validated
        /\ r.ns <=> result.kind = "site" /\ result.value # "onchain"
        /\ r.pins <=> result.pin # "none"
    BY <2>1 DEF Resolution
  <2>3. result.kind = "dnssec-fail" => ~result.validated
    BY DEF Outcome, OnShow, Refusal
  <2>4. result.kind = "site"
    BY <1>2, <1>3, <1>4, <2>2, <2>3 DEF TypeOK, Kinds, Outcome, OnShow, Unstepped
  <2>5. result.pin # "none"
    BY <1>2, <2>2, <2>4
  <2>6. result.value # "onchain"
    BY <2>5 DEF Outcome, OnShow
  <2> QED
    BY <1>2, <2>2, <2>4, <2>5, <2>6
<1> QED
  BY <1>4

(* The security panel's closed lock, over every tree of zones and whatever  *)
(* replies were lost, forged or stripped: a pointer of the chain or of an   *)
(* unsigned zone, a refusal without a step of its own, or what a zone       *)
(* signed from the chain down publishes (but for the address behind a       *)
(* claimed alias), and of a site only with the name's own pin.              *)
THEOREM GreenLocksAreProven == Spec => []GreenIsProven
<1>1. ASSUME WalkInv, Outcome PROVE GreenIsProven
  <2> SUFFICES ASSUME OnShow, "verified" \in Shown, ~Unstepped
               PROVE  \/ result.kind = "pointer" /\ result.value = "onchain"
                      \/ /\ result.kind \in {"pointer", "site"}
                         /\ result.validated /\ Signed(zone)
                         /\ TrueContent(result)
                         /\ TrueAddress(result) \/ "alias" \in trusted
                         /\ result.kind = "site"
                              => result.pin = "own" /\ world.pin
                      \/ result.kind = "pointer" /\ ~result.validated /\ ZoneUnsigned
    BY DEF GreenIsProven
  <2>1. \/ result.kind = "pointer"
        \/ /\ result.kind = "site" /\ result.pin # "none"
           /\ result.value # "onchain" /\ result.validated
    BY <1>1, GreenSays DEF WalkInv
  <2>2. CASE result.kind = "pointer" /\ ~result.validated
    BY <1>1, <2>2 DEF Outcome, OnShow
  <2>3. CASE result.validated
    <3>1. /\ Signed(zone) /\ AsPublished(result)
          /\ result.kind # "site" \/ result.pin # "none" => TrueContent(result)
      BY <1>1, <2>3 DEF WalkInv, ResultIsTrue, OnShow
    <3>2. result.kind = "site" => result.pin = "own" /\ world.pin
      BY <2>1, <3>1 DEF TrueContent
    <3> QED
      BY <2>1, <2>3, <3>1, <3>2 DEF AsPublished
  <2> QED
    BY <2>1, <2>2, <2>3
<1>2. Init => Outcome
  BY DEF Init, Outcome
<1>3. WalkInv /\ Outcome /\ [Next]_vars => Outcome'
  BY StepOutcome
<1> QED
  BY <1>1, <1>2, <1>3, WalkInvHolds, PTL DEF Spec

===============================================================================
