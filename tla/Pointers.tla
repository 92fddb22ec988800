-------------------------------- MODULE Pointers --------------------------------
(***************************************************************************)
(* Which content a name points to (src/pointers.js): the TXT records at    *)
(* the name and at its DNSLink owner, in whatever order a server returns   *)
(* them, as the chain resolver and the lookups over DoH both read them.    *)
(*                                                                         *)
(* A record is what its strings, joined, parse to: a pointer of a kind, an *)
(* origin for an archive (`car='), a link, or nothing of ours.             *)
(***************************************************************************)
EXTENDS Naturals, Sequences, FiniteSets, SequencesExt

CONSTANTS Ids,      \* contents an address may name, of any kind
          MaxTexts, \* bound on the records at the name
          MaxLinks  \* bound on those at its DNSLink owner

VARIABLES given, \* the records at the name and at its DNSLink owner
          call   \* the order they arrived in, and what was made of them

vars == <<given, call>>

(* POINTER_PRECEDENCE *)
Precedence == <<"ipfs", "ipns", "bittorrent", "hyper", "arweave">>
Kinds == ToSet(Precedence)

Pointer(kind, id, path) == [kind |-> kind, id |-> id, path |-> path]
None == Pointer("none", "none", "")

(* parsePointer, parseOrigin and parseDnslink: what a record may be.       *)
(* An address of the wrong shape is nothing of ours.                       *)
Records == [kind : {"ipfs", "arweave", "car"}, id : Ids, path : {""}] \cup {None}
Links == [kind : {"ipfs", "ipns"}, id : Ids, path : {"/", "/x"}] \cup {None}

UpTo(n, S) == {T \in SUBSET S : IsFiniteSet(T) /\ Cardinality(T) <= n}

Init ==
  /\ given \in [texts : UpTo(MaxTexts, Records), links : UpTo(MaxLinks, Links)]
  /\ call = [pc |-> "read", texts |-> <<>>, links |-> <<>>,
             pointer |-> None, origin |-> "none", conflict |-> FALSE]

-------------------------------------------------------------------------------
First(s, Test(_)) == IF \E i \in 1 .. Len(s) : Test(s[i]) THEN s[SelectInSeq(s, Test)] ELSE None

(* A slip, and what one of the two readers did: the first that parses. *)
PointerFromFirst(strings) == First(strings, LAMBDA p : p.kind \in Kinds)

(* pointerFrom: the kind that ranks highest, the first of that kind. *)
PointerFrom(strings) ==
  LET kinds == {p.kind : p \in ToSet(strings)} \cap Kinds
      rank(k) == CHOOSE i \in DOMAIN Precedence : Precedence[i] = k
      best == CHOOSE k \in kinds : \A other \in kinds : rank(k) <= rank(other)
  IN IF kinds = {} THEN None ELSE First(strings, LAMBDA p : p.kind = best)

(* dnslinkPointerFrom: the first link there is. *)
LinkFrom(strings) == First(strings, LAMBDA p : p # None)

Root(path) == IF path = "/" THEN "" ELSE path

(* mergePointers: agreement, or either alone; a conflict is never resolved. *)
Agree(direct, link) == /\ direct.kind = link.kind /\ direct.id = link.id
                       /\ Root(direct.path) = Root(link.path)

Merged(direct, link) ==
  CASE link = None -> direct
    [] direct = None -> link
    [] OTHER -> IF Agree(direct, link) THEN direct ELSE None

(* originFrom: the first origin there is, at the name. *)
OriginFrom(strings) == First(strings, LAMBDA p : p.kind = "car").id

(* The two answers of the zone arrive, each in some order. An origin       *)
(* belongs to content on IPFS only, whichever record has named it.         *)
Read(texts, links) ==
  LET direct == PointerFrom(texts)
      link == LinkFrom(links)
      pointer == Merged(direct, link)
  IN /\ call.pc = "read"
     /\ call' = [pc |-> "done", texts |-> texts, links |-> links,
                 pointer |-> pointer,
                 origin |-> IF pointer.kind = "ipfs" THEN OriginFrom(texts) ELSE "none",
                 conflict |-> None \notin {direct, link} /\ ~Agree(direct, link)]
     /\ UNCHANGED given

Next == \E texts \in SetToSeqs(given.texts), links \in SetToSeqs(given.links) : Read(texts, links)

-------------------------------------------------------------------------------
(* What the records say, whatever their order: of those at the name the    *)
(* one that no other outranks.                                             *)
Ours == {p \in given.texts : p.kind \in Kinds}
Theirs == given.links \ {None}
OneOfAKind == \A p, q \in given.texts : p.kind = q.kind => p = q

Outranked(p) == \E q \in Ours, i, j \in DOMAIN Precedence :
                  i < j /\ Precedence[i] = q.kind /\ Precedence[j] = p.kind
Winners == {p \in Ours : ~Outranked(p)}

(* The order of the records decides nothing, as long as there is one of a  *)
(* kind: both readers find the same content; two records that name         *)
(* different content are never resolved by picking one; and an archive's   *)
(* origin is that of the archive the name points to.                       *)
OrderDecidesNothing ==
  (call.pc = "done" /\ OneOfAKind /\ Cardinality(Theirs) <= 1) =>
    /\ call.conflict <=> \E p \in Winners, l \in Theirs : ~Agree(p, l)
    /\ call.pointer \in IF call.conflict THEN {None}
                        ELSE IF Winners # {} THEN Winners
                        ELSE IF Theirs # {} THEN Theirs ELSE {None}
    /\ call.origin # "none" =>
         /\ Pointer("car", call.origin, "") \in given.texts
         /\ call.pointer.kind = "ipfs"
===============================================================================
