-------------------------------- MODULE HnsWalk --------------------------------
(***************************************************************************)
(* One lookup by the chain resolver (src/resolver.js, __resolve and        *)
(* txtRecords): the TLD's records from the local node, the zone's name     *)
(* servers one after another, down the delegations to the zone that holds  *)
(* the name, and there its pointer, its DNSLink, its address and its pin.  *)
(*                                                                         *)
(* A reply may be lost, may be a server error, may hold what the zone      *)
(* publishes, or may hold anything else.  Signatures are not computed: in  *)
(* a zone whose DS the walk holds, what validates is what the zone         *)
(* publishes, and whatever a reply holds it may also fail to validate (a   *)
(* lost key set is such a failure).                                        *)
(*                                                                         *)
(* A name is its labels counted from the right: 1 is the TLD and `host' is *)
(* the name looked up, so a zone apex or a referral's child is a number.   *)
(* The awaits of one step touch no state that another part of the program  *)
(* changes, so a step is one action, except for the node reaching the tip. *)
(***************************************************************************)
EXTENDS Integers

CONSTANTS Labels,          \* how many labels a name may have
          MaxDelegations,  \* MAX_DELEGATIONS, 3 in the code
          NameServers,     \* addresses the TLD's NS records lead to
          Links,           \* what a name's records may say: pointers, "none"
          Worlds           \* the worlds a behaviour may start in

Ds == {"none", "good", "odd"}
Chain == SUBSET {"ns", "op", "pointer", "synth"}
Addresses == {"none", "four", "six", "both", "private", "alias"}

World == [host : 1 .. Labels, chain : Chain, cut : SUBSET (2 .. Labels),
          ds : [1 .. Labels -> Ds], text : Links, link : Links,
          address : Addresses, pin : BOOLEAN]

ASSUME WalkAssumption ==
  /\ Labels \in Nat \ {0}
  /\ MaxDelegations \in Nat
  /\ NameServers \in Nat
  /\ "none" \in Links /\ {"conflict", "onchain"} \cap Links = {}
  /\ Worlds \subseteq World
  /\ \A w \in Worlds : w.cut \subseteq 2 .. w.host

VARIABLES world,    \* what chain and zones publish; nothing here changes it
          node,     \* the local node: "syncing" or "synced"
          asks,     \* "site" (resolve) or "txt" (txtRecords)
          pc,       \* the next await
          server,   \* which of the TLD's servers is asked
          zone,     \* ctx.zone
          anchor,   \* ctx.dsRecords: "none", "good", or "odd" (an algorithm
                    \* this program does not have)
          depth,    \* delegations followed
          text,     \* the pointer read at the name
          found,    \* the address, and whether it validated
          result,   \* what the walk returned
          honest,   \* history: every reply was lost, an error, or the truth
          silent,   \* history: the servers that lost a question
          unasked,  \* history: losses the walk read as an absence
          trusted   \* history: what was taken unproven in an anchored zone

ctx == <<zone, anchor, depth, text, found>>
history == <<honest, silent, unasked, trusted>>
vars == <<world, node, asks, pc, server, ctx, result, history>>

Host == world.host
Apexes == {1} \cup world.cut

(* What a walk returns.  `threw' is a rejection of the caller's promise.    *)
Kinds == {"none", "threw", "unregistered", "unreachable", "blocked",
          "dnssec-fail", "dnssec-unsupported", "op", "txt", "pointer",
          "pointer-conflict", "site"}
Refusal(k) == [kind |-> k, value |-> "none", validated |-> FALSE,
               pin |-> "none", insecure |-> FALSE]
Content(k, v, valid) == [kind |-> k, value |-> v, validated |-> valid,
                         pin |-> "none", insecure |-> FALSE]
Site(v, valid, p, plain) == [kind |-> "site", value |-> v, validated |-> valid,
                             pin |-> p, insecure |-> plain]

TypeOK ==
  /\ world \in Worlds
  /\ node \in {"syncing", "synced"}
  /\ asks \in {"site", "txt"}
  /\ pc \in {"chain", "absent", "server", "text", "link", "address", "pin", "done"}
  /\ server \in 1 .. NameServers + 1
  /\ zone \in 1 .. Labels
  /\ anchor \in Ds
  /\ depth \in 0 .. MaxDelegations
  /\ text \in Links
  /\ found \in [address : {"none", "four", "six", "other", "icann"}, valid : BOOLEAN]
  /\ result \in [kind : Kinds,
                 value : Links \cup {"conflict", "onchain", "four", "six",
                                     "other", "icann"},
                 validated : BOOLEAN,
                 pin : {"none", "own", "other"}, insecure : BOOLEAN]
  /\ honest \in BOOLEAN
  /\ silent \subseteq 1 .. NameServers
  /\ unasked \subseteq {"chain", "alias", "error"}
  /\ trusted \subseteq {"alias", "referral"}

Init ==
  /\ world \in Worlds
  /\ node \in {"syncing", "synced"}
  /\ asks \in {"site", "txt"}
  /\ pc = "chain" /\ server = 1
  /\ zone = 1 /\ anchor = "none" /\ depth = 0
  /\ text = "none" /\ found = [address |-> "none", valid |-> FALSE]
  /\ result = Refusal("none")
  /\ honest = TRUE /\ silent = {} /\ unasked = {} /\ trusted = {}

-------------------------------------------------------------------------------
(* What the zones publish. *)

(* z is the zone that holds the name; c is the delegation next below z. *)
Holds(z) == z \in Apexes /\ \A c \in world.cut : c <= z
NextCut(z, c) ==
  c \in world.cut /\ z < c /\ \A d \in world.cut : d <= z \/ c <= d

(* Every zone down to z is anchored in its parent. *)
Signed(z) == \A a \in Apexes : a <= z => world.ds[a] = "good"

Four == IF world.address \in {"four", "both"} THEN "four"
        ELSE IF world.address = "private" THEN "private" ELSE "none"
Six == IF world.address \in {"six", "both"} THEN "six" ELSE "none"
Alias == world.address = "alias"

(* mergePointers: agreement or either alone is the pointer. *)
Merge(t, l) == IF t = "none" \/ t = l THEN l
               ELSE IF l = "none" THEN t ELSE "conflict"

(* What validates about a name of n labels that publishes own: in the zone *)
(* that holds it, what it publishes; in a zone above a cut over it, that   *)
(* it has nothing (the NSEC at the cut spans all below it).                *)
Provable(own, n) ==
  IF Holds(zone) THEN {own}
  ELSE IF \E c \in world.cut : zone < c /\ c < n THEN {"none"} ELSE {}

-------------------------------------------------------------------------------
(* How a step ends. *)

Finish(r) ==
  /\ pc' = "done"
  /\ result' = r
  /\ UNCHANGED <<server, ctx, silent>>

Refuse(k) == Finish(Refusal(k))

(* A slip: the next round asks the same server. *)
LostSameServer ==
  /\ pc' = "server"
  /\ silent' = silent \cup {server}
  /\ UNCHANGED <<server, ctx, result>>

(* query() threw: _withFailover puts the question to the next server. *)
Lost ==
  /\ pc' = "server"
  /\ server' = server + 1
  /\ silent' = silent \cup {server}
  /\ UNCHANGED <<ctx, result>>

Goto(p) == pc' = p /\ UNCHANGED <<server, result, silent>>

-------------------------------------------------------------------------------
(* __resolve and txtRecords: the TLD's records. *)

CatchUp ==
  /\ node = "syncing"
  /\ node' = "synced"
  /\ UNCHANGED <<world, asks, pc, server, ctx, result, history>>

(* What follows getResource() for a page, given the TLD's records and DS. *)
WithRecords(got, ds) ==
  LET apex == Host = 1 /\ got \cap {"ns", "op"} = {} IN
  \/ /\ apex /\ "pointer" \in got
     /\ Finish(Content("pointer", "onchain", FALSE))
  \/ /\ ~(apex /\ "pointer" \in got)
     /\ \/ ds = "odd" /\ Refuse("dnssec-unsupported")
        \/ /\ ds # "odd" /\ apex /\ "synth" \in got
           /\ Refuse("blocked") \/ Finish(Site("onchain", FALSE, "none", TRUE))
        \/ /\ ds # "odd" /\ Host # 1 /\ "op" \in got
           /\ Refuse("op")
        \/ /\ ds # "odd" /\ ~(apex /\ "synth" \in got)
           /\ \/ "ns" \in got /\ Goto("server") /\ UNCHANGED ctx
              \/ /\ "ns" \notin got /\ Host = 1 /\ "pointer" \in got
                 /\ Finish(Content("pointer", "onchain", FALSE))
              \/ /\ "ns" \notin got /\ ~(Host = 1 /\ "pointer" \in got)
                 /\ Goto("absent") /\ UNCHANGED ctx

(* The same for txtRecords(), which does not ask whether the node is synced. *)
WithRecordsForTxt(got) ==
  IF "ns" \in got THEN Goto("server") /\ UNCHANGED ctx
                  ELSE Refuse("unregistered")

(* SPVNode.getResource: an RPC that an SPV node answers with null, then     *)
(* NS, DS and TXT at its root name server, each of which may be lost; the   *)
(* NS reply is a referral and carries the DS as well.                       *)
AskChain ==
  /\ pc = "chain"
  /\ \E rpc, ns, ds, txt \in BOOLEAN :
       LET got == {r \in world.chain :
                     /\ node = "synced"
                     /\ IF r = "pointer" THEN txt ELSE ns}
           seen == IF node = "synced" /\ (ns \/ ds) THEN world.ds[1] ELSE "none"
           nothing == got = {} /\ seen = "none"
       IN  /\ \/ nothing /\ ~(rpc \/ ns \/ ds \/ txt) /\ Refuse("unreachable")
              \/ /\ nothing /\ (rpc \/ ns \/ ds \/ txt)
                 /\ Goto("absent") /\ UNCHANGED ctx
              \/ ~nothing /\ asks = "site" /\ WithRecords(got, seen)
              \/ ~nothing /\ asks = "txt" /\ WithRecordsForTxt(got)
           /\ unasked' = IF got = world.chain THEN {} ELSE {"chain"}
  /\ UNCHANGED <<world, node, asks, honest, trusted>>

(* _absent: a node that is not at the tip cannot say what does not exist. *)
Absent ==
  /\ pc = "absent"
  /\ \/ node = "synced" /\ Refuse("unregistered")
     \/ Refuse("unreachable")
  /\ UNCHANGED <<world, node, asks, honest, unasked, trusted>>

(* _nameserverCandidates: the next server, if it has an address. *)
Candidate ==
  /\ pc = "server"
  /\ \/ server > NameServers /\ Refuse("threw")
     \/ server <= NameServers /\ Refuse("blocked")
     \/ /\ server <= NameServers
        /\ server' = server + 1
        /\ UNCHANGED <<pc, ctx, result, silent>>
     \/ /\ server <= NameServers
        /\ pc' = "text"
        /\ zone' = 1 /\ anchor' = world.ds[1] /\ depth' = 0
        /\ text' = "none" /\ found' = [address |-> "none", valid |-> FALSE]
        /\ UNCHANGED <<server, result, silent>>
  /\ UNCHANGED <<world, node, asks, honest, unasked, trusted>>

-------------------------------------------------------------------------------
(* _descend, on a referral to child c. *)

(* A slip: a reply without the DS is taken for a zone without one. *)
ChildAnchorsUnproven(c) ==
  IF anchor = "none" THEN {"none"}
  ELSE IF anchor = "odd" THEN {}
  ELSE IF NextCut(zone, c) THEN {world.ds[c], "none"}
  ELSE IF \E d \in world.cut : zone < d /\ d <= c THEN {} ELSE {"none"}

(* The anchors c may get.  An anchored zone's DS for c validates only if it *)
(* is the zone's, and no DS at all is believed only if it is proven, which  *)
(* an NSEC at any name of the zone without a DS does.                       *)
ChildAnchors(c) ==
  IF anchor = "none" THEN {"none"}
  ELSE IF anchor = "odd" THEN {}
  ELSE IF NextCut(zone, c) THEN {world.ds[c]}
  ELSE IF \E d \in world.cut : zone < d /\ d <= c THEN {} ELSE {"none"}

MayDescend == depth < MaxDelegations

Descend(c) ==
  \/ /\ ~MayDescend
     /\ Refuse("unreachable") /\ UNCHANGED <<honest, trusted>>
  \/ /\ MayDescend /\ anchor # "none"
     /\ pc' = "done" /\ result' = Refusal("unreachable")
     /\ silent' = silent \cup {server}
     /\ UNCHANGED <<server, ctx, honest, trusted>>
  \/ /\ MayDescend /\ anchor # "none"
     /\ Refuse("dnssec-fail") /\ UNCHANGED <<honest, trusted>>
  \/ /\ MayDescend /\ ChildAnchors(c) # {}
     /\ Refuse("unreachable") \/ Refuse("blocked")
     /\ UNCHANGED <<honest, trusted>>
  \/ /\ MayDescend
     /\ anchor' \in ChildAnchors(c)
     /\ zone' = c /\ depth' = depth + 1
     /\ Goto("text") /\ UNCHANGED <<text, found>>
     /\ honest' = (honest /\ NextCut(zone, c))
     /\ trusted' = IF anchor # "none" /\ ~NextCut(zone, c)
                   THEN trusted \cup {"referral"} ELSE trusted

-------------------------------------------------------------------------------
(* _fromZone and _txtFromServer: the questions to the zone's server. *)

(* A reply that says v of a name that publishes own, or a server error.     *)
(* An unanchored zone's error is read as an empty answer.                   *)
Reply(own, v, err) ==
  /\ err => v = "none"
  /\ honest' = (honest /\ (err \/ (Holds(zone) /\ v = own)))
  /\ unasked' = IF err THEN unasked \cup {"error"} ELSE unasked
  /\ UNCHANGED trusted

Believed(own, v, n, err) ==
  anchor = "none" \/ (anchor = "good" /\ ~err /\ v \in Provable(own, n))

(* dnssecFailure: a failure, or a proof this program cannot make. *)
FailsValidation ==
  /\ anchor # "none"
  /\ Refuse("dnssec-fail") \/ (anchor = "good" /\ Refuse("dnssec-unsupported"))

AskText ==
  /\ pc = "text"
  /\ asks = "site" => anchor # "odd"
  /\ \/ Lost /\ UNCHANGED <<honest, unasked, trusted>>
     \/ \E c \in zone + 1 .. Host : Descend(c) /\ UNCHANGED unasked
     \/ \E v \in Links, err \in BOOLEAN :
          /\ Reply(world.text, v, err)
          /\ \/ asks = "txt" /\ v = "none" /\ Refuse("unregistered")
             \/ asks = "txt" /\ v # "none" /\ FailsValidation
             \/ /\ asks = "txt" /\ v # "none"
                /\ Believed(world.text, v, Host, err)
                /\ Finish(Content("txt", v, anchor = "good"))
             \/ asks = "site" /\ FailsValidation
             \/ /\ asks = "site"
                /\ Believed(world.text, v, Host, err)
                /\ Goto("link")
                /\ text' = v /\ UNCHANGED <<zone, anchor, depth, found>>
  /\ UNCHANGED <<world, node, asks>>

(* A zone below the TLD whose DS all have an algorithm we do not know. *)
Unsupported ==
  /\ pc = "text"
  /\ asks = "site" /\ anchor = "odd"
  /\ Refuse("dnssec-unsupported")
  /\ UNCHANGED <<world, node, asks, honest, unasked, trusted>>

(* The DNSLink record, and the two pointers merged. *)
AskLink ==
  /\ pc = "link"
  /\ \/ Lost /\ UNCHANGED <<honest, unasked, trusted>>
     \/ \E v \in Links, err \in BOOLEAN :
          LET m == Merge(text, v) IN
          /\ Reply(world.link, v, err)
          /\ \/ FailsValidation
             \/ /\ Believed(world.link, v, Host + 1, err)
                /\ \/ m = "none" /\ Goto("address") /\ UNCHANGED ctx
                   \/ /\ m \notin {"none", "conflict"}
                      /\ Finish(Content("pointer", m, anchor = "good"))
                   \/ /\ m = "conflict"
                      /\ Finish(Content("pointer-conflict", m, anchor = "good"))
  /\ UNCHANGED <<world, node, asks>>

(* A private address is refused, any other goes on to the pin. *)
Take(x, valid) ==
  \/ x = "private" /\ Refuse("blocked")
  \/ /\ x # "private"
     /\ Goto("pin")
     /\ found' = [address |-> x, valid |-> valid]
     /\ UNCHANGED <<zone, anchor, depth, text>>

(* The families were answered with a and b, and one holds an address.       *)
(* answersAbout takes the records of the name and of whatever the reply     *)
(* calls its alias; the first of them is used, and what is validated is the *)
(* RRset of the first signature's owner.  So either the name's own RRset    *)
(* was, or the reply names an alias with an RRset of its own in the zone    *)
(* and the address used is any at all: "alias" in `trusted'.                *)
Given == {"four", "six", "other", "private"}

(* A slip: in an anchored zone the address is taken as served. *)
WithAddressAsServed(a, b) ==
  LET used == IF a \in Given THEN a ELSE b
  IN  /\ used \in Given
      /\ Take(used, anchor = "good") /\ UNCHANGED <<unasked, trusted>>

WithAddress(a, b) ==
  LET used == IF a \in Given THEN a ELSE b
      own == IF a \in Given THEN Four ELSE Six
  IN  /\ used \in Given
      /\ \/ anchor = "none" /\ Take(used, FALSE) /\ UNCHANGED trusted
         \/ FailsValidation /\ UNCHANGED trusted
         \/ /\ anchor = "good" /\ used \in Provable(own, Host)
            /\ Take(used, TRUE) /\ UNCHANGED trusted
         \/ /\ anchor = "good"
            /\ Take(used, TRUE)
            /\ trusted' = trusted \cup {"alias"}
      /\ UNCHANGED unasked

OneLost(a, b) == "lost" \in {a, b}

(* Neither does.  cname: the reply consulted has an alias, to an ICANN name. *)
(* In an anchored zone it is one the zone publishes, of this name or of any  *)
(* other: nothing compares its owner with the name asked for.                *)
WithoutAddress(a, b, cname) ==
  LET missed == (IF cname THEN {"alias"} ELSE {})
                \cup (IF "error" \in {a, b} THEN {"error"} ELSE {})
  IN  /\ {a, b} \cap Given = {}
      /\ \/ cname /\ FailsValidation /\ UNCHANGED <<unasked, trusted>>
         \/ /\ cname
            /\ Take("icann", FALSE) \/ Take("private", FALSE)
            /\ \/ /\ anchor = "none" \/ (Alias /\ Holds(zone))
                  /\ UNCHANGED trusted
               \/ anchor = "good" /\ trusted' = trusted \cup {"alias"}
            /\ UNCHANGED unasked
         \/ OneLost(a, b) /\ Lost /\ UNCHANGED <<unasked, trusted>>
         \/ /\ ~OneLost(a, b)
            /\ Refuse("unregistered")
            /\ unasked' = unasked \cup missed
            /\ UNCHANGED trusted

(* Is the reply x the truth about a family in which the name publishes own? *)
Truthful(x, own) ==
  \/ x \in {"lost", "error"}
  \/ Holds(zone) /\ (x = own \/ (Alias /\ x = "other"))

(* Were both replies the truth, and the alias of the one consulted? *)
StillHonest(a, b, cname) ==
  /\ honest /\ Truthful(a, Four) /\ Truthful(b, Six)
  /\ (IF a = "lost" THEN b ELSE a) = "none" => (cname <=> Alias)

AskAddress ==
  /\ pc = "address"
  /\ \E a \in {"lost", "error", "none", "four", "other", "private"},
        b \in {"lost", "error", "none", "six", "other"},
        cname \in BOOLEAN :
       /\ cname => (IF a = "lost" THEN b ELSE a) = "none"
       /\ \/ /\ a = "lost" /\ b = "lost"
             /\ Lost /\ UNCHANGED <<honest, unasked, trusted>>
          \/ /\ ~(a = "lost" /\ b = "lost")
             /\ WithAddress(a, b) \/ WithoutAddress(a, b, cname)
             /\ honest' = StillHonest(a, b, cname)
  /\ UNCHANGED <<world, node, asks>>

(* Slips: a lost question about the pin read as there being none, and a pin *)
(* that does not validate kept in an answer that is merely not validated.   *)
AskPinLossConsents ==
  /\ pc = "pin"
  /\ Finish(Site(found.address, FALSE, "none", TRUE))
  /\ UNCHANGED <<world, node, asks, honest, unasked, trusted>>

AskPinUnvalidated ==
  /\ pc = "pin"
  /\ \E p \in {"own", "other"} :
       /\ honest' = (honest /\ Holds(zone) /\ p = "own" /\ world.pin)
       /\ Finish(Site(found.address, FALSE, p, FALSE))
  /\ UNCHANGED <<world, node, asks, unasked, trusted>>

(* The TLSA records, or their proven absence.  A loss or a server error is  *)
(* neither, and leaves the page without a pin and without consent to HTTP.  *)
AskPin ==
  LET own == IF world.pin THEN "own" ELSE "none"
      Found(valid, p, plain) == Finish(Site(found.address, valid, p, plain))
  IN
  /\ pc = "pin"
  /\ \/ Found(FALSE, "none", FALSE) /\ UNCHANGED honest
     \/ \E p \in {"none", "own", "other"} :
          /\ honest' = (honest /\ Holds(zone) /\ p = own)
          /\ \/ anchor = "none" /\ Found(FALSE, p, p = "none")
             \/ p # "none" /\ FailsValidation
             \/ anchor = "good" /\ p = "none" /\ Found(FALSE, "none", FALSE)
             \/ /\ anchor = "good" /\ p \in Provable(own, Host + 1)
                /\ Found(found.valid, p, p = "none")
  /\ UNCHANGED <<world, node, asks, unasked, trusted>>

Ask == \/ AskChain \/ Absent \/ Candidate
       \/ AskText \/ Unsupported \/ AskLink \/ AskAddress \/ AskPin

Next == Ask \/ CatchUp

Spec == Init /\ [][Next]_vars

(* Every query has a timeout and every lookup settles. *)
FairSpec == Spec /\ WF_vars(Ask)

-------------------------------------------------------------------------------
(* The anchor the walk carries is the truth about the zone it is in: keys  *)
(* are trusted only where every DS from the chain down says so, and a zone *)
(* is read unsigned only below a zone that has no DS, whatever replies     *)
(* dropped or replaced the DS on the way.  (A referral to a name that is   *)
(* no cut, which the proof of a missing DS does not rule out, is excepted.) *)
AnchorIsTrue ==
  pc \in {"text", "link", "address", "pin"} =>
    /\ anchor = "good" => zone \in Apexes /\ Signed(zone)
    /\ anchor = "odd" => zone \in Apexes /\ world.ds[zone] = "odd"
    /\ (anchor = "none" /\ "referral" \notin trusted)
         => \E a \in Apexes : a <= zone /\ world.ds[a] = "none"

(* What r says of the name is what its zone publishes: the right one of    *)
(* the two pointers, or no pointer, with the name's own pin or none, and   *)
(* plaintext only where there is no pin; and the address is the name's own *)
(* or, for an alias, what the alias leads to.                              *)
TrueContent(r) ==
  r.value # "onchain" =>
    /\ r.kind = "txt" => r.value = world.text
    /\ r.kind \in {"pointer", "pointer-conflict"}
         => r.value = Merge(world.text, world.link)
    /\ r.kind = "site" =>
         /\ Merge(world.text, world.link) = "none"
         /\ r.insecure => ~world.pin
         /\ r.pin # "none" => r.pin = "own" /\ world.pin

TrueAddress(r) ==
  (r.kind = "site" /\ r.value # "onchain") =>
    r.value \in IF Alias THEN {"other", "icann"} ELSE {Four, Six}

TrueAnswer(r) == TrueContent(r) /\ TrueAddress(r)

(* The same, but for what an alias that nothing ties to the name brings:   *)
(* its address; and in a zone above the cut over the name, where the zone  *)
(* denies every record below the cut, also that there is no pointer.       *)
AsPublished(r) ==
  /\ TrueAddress(r) \/ "alias" \in trusted
  /\ TrueContent(r) \/ ("alias" \in trusted /\ ~Holds(zone))

(* In a name signed all the way down from the chain, no reply, wrong, lost *)
(* or in error, and no order of them, makes the walk return something the  *)
(* zone does not publish, validated or not.  Two exceptions: the address   *)
(* where the reply claims an alias (SPEC.md 6.5f of the handshake          *)
(* namespace has the address validated; resolver.js 1047-1071 and          *)
(* 1098-1118 validate an RRset or an alias of some name of the zone, which *)
(* need not be the one asked for), and everything below a referral to a    *)
(* name that is no cut, for which any name without a DS is proof enough.   *)
SignedAnswersAreTrue ==
  (pc = "done" /\ Signed(Labels) /\ "referral" \notin trusted)
    => AsPublished(result)

(* dnssecValidated is said only of an answer from a zone that is signed    *)
(* from the chain down, also among unsigned and mixed zones, and all of it *)
(* is what the zone publishes, except what a claimed alias brings, as      *)
(* above: the address may then be any, though it is called validated.      *)
ValidatedIsGenuine ==
  result.validated => AsPublished(result) /\ anchor = "good" /\ Signed(zone)

(* Nothing the walk could have found is at the name. *)
Unpublished ==
  IF "ns" \notin world.chain
  THEN asks = "txt" \/ Host # 1 \/ world.chain \cap {"pointer", "synth"} = {}
  ELSE /\ world.text = "none"
       /\ asks = "site" => world.link = "none" /\ world.address = "none"

(* The TLD's own address stands beside a delegation to a registry: the code *)
(* counts that as a name server it need not answer for, and asks nobody.    *)
Shadowed == /\ Host = 1 /\ {"op", "synth"} \subseteq world.chain
            /\ world.chain \cap {"ns", "pointer"} = {}

(* Losses alone never change an answer: when every reply that came was the *)
(* truth, so is the result, in signed and unsigned zones alike; and a name *)
(* is called unregistered only if it has nothing, or only the address that *)
(* is shadowed.  Three losses are excepted that the code reads as an       *)
(* absence: part of the chain's answer missing, the target of an alias not *)
(* found, and a server error.                                              *)
LossNeverLies ==
  (pc = "done" /\ honest /\ unasked \cap {"error"} = {}) =>
     /\ TrueAnswer(result)
     /\ result.kind = "unregistered" /\ unasked = {} => Unpublished \/ Shadowed

(* The walk ends. *)
WalkEnds == <>(pc = "done")

(* SPEC.md 6.9 of the handshake namespace: `unregistered' means `the       *)
(* chain, or the zone, authoritatively has nothing', and `unreachable' `we *)
(* could not ask -- not the same as the above'.                            *)
UnregisteredIsAFact ==
  (result.kind = "unregistered" /\ honest) => Unpublished
===============================================================================
