--------------------------------- MODULE Denial ---------------------------------
(***************************************************************************)
(* Authenticated denial of existence: which NSEC and NSEC3 records prove   *)
(* that a signed zone has no record of a type at a name (src/nsec.js,      *)
(* src/nsec3.js, src/denial.js), against what the zone really has.         *)
(*                                                                         *)
(* A name is its labels below the apex, rightmost first as labelsOf() has  *)
(* them; a label is a number, the wildcard's is 0 and sorts first.  Hash   *)
(* stands for the hash of NSEC3 with one set of parameters: any injective  *)
(* order.  The zone signs what it has; whoever answers may withhold any of *)
(* its records, one after the other.                                       *)
(***************************************************************************)
EXTENDS Naturals, Sequences, FiniteSets, SequencesExt

CONSTANTS Zones,     \* functions from owner names to sets of types
          Questions, \* names asked for
          Hash       \* an injective function of the names, to Nat

VARIABLES given, \* the zone, how it is signed, and what is asked for
          call   \* the records the validator is handed

vars == <<given, call>>

Apex == <<>>
Star(n) == Append(n, 0)
Types == {"TLSA", "DS"}

(* canonicalCompareNames: a missing label sorts before any. *)
Less(a, b) ==
  \E i \in 1 .. Len(b) :
    /\ \A j \in 1 .. i - 1 : j <= Len(a) /\ a[j] = b[j]
    /\ i > Len(a) \/ a[i] < b[i]

IsUnder(n, ancestor) == IsPrefix(ancestor, n)
ParentOf(n) == Front(n)

-------------------------------------------------------------------------------
(* The zone. *)

Owners == DOMAIN given.zone
Existing == UNION {{SubSeq(n, 1, i) : i \in 0 .. Len(n)} : n \in Owners}
IsCut(types) == "NS" \in types /\ "SOA" \notin types
UnsignedCuts == {n \in Owners : IsCut(given.zone[n]) /\ "DS" \notin given.zone[n]}

(* The names the NSEC3 chain goes through: with opt-out, unsigned          *)
(* delegations and what exists only for them are left out.                 *)
Hashed ==
  LET kept == IF given.optOut THEN Owners \ UnsignedCuts ELSE Owners
  IN {n \in Existing : \E o \in kept : IsUnder(o, n)}

TypesAt(n) == IF n \in Owners THEN given.zone[n] ELSE {}

(* The next of a chain, round to the first. *)
Successor(x, S, Lt(_, _)) ==
  LET after == {y \in S : Lt(x, y)}
      from == IF after = {} THEN S ELSE after
  IN CHOOSE y \in from : \A z \in from : z = y \/ Lt(y, z)

NsecOf(n) == [owner |-> n, next |-> Successor(n, Owners, Less),
              types |-> given.zone[n], optOut |-> FALSE]

Nsec3Of(n) ==
  [owner |-> Hash[n],
   next |-> Successor(Hash[n], {Hash[x] : x \in Hashed}, LAMBDA a, b : a < b),
   types |-> TypesAt(n), optOut |-> given.optOut]

Signed == IF given.scheme = "nsec" THEN {NsecOf(n) : n \in Owners}
                                   ELSE {Nsec3Of(n) : n \in Hashed}

Init ==
  /\ given \in [zone : Zones, scheme : {"nsec", "nsec3"}, optOut : BOOLEAN,
                name : Questions, type : Types]
  /\ given.optOut => given.scheme = "nsec3" /\ UnsignedCuts # {}
  /\ call = Signed

(* A record of the proof is lost, or withheld. *)
Withhold(rr) == /\ rr \in call
                /\ call' = call \ {rr}
                /\ UNCHANGED given

Next == \E rr \in call : Withhold(rr)

-------------------------------------------------------------------------------
(* A gap strictly contains a point; the last one of a zone wraps round. *)
Gap(rr, point, Lt(_, _)) ==
  /\ rr.owner # point
  /\ IF Lt(rr.owner, rr.next)
     THEN Lt(rr.owner, point) /\ Lt(point, rr.next)
     ELSE Lt(rr.owner, point) \/ Lt(point, rr.next)

(* A slip: a bitmap says nothing of a delegation. *)
BitmapDeniesNoCut(types, type) == {type, "CNAME"} \cap types = {} /\ ~IsCut(types)

(* A bitmap says nothing of a delegation but its DS, which is the parent's. *)
BitmapDenies(types, type) ==
  /\ {type, "CNAME"} \cap types = {}
  /\ IsCut(types) => type = "DS"

(* nsec.js *)
NsecMatches(rr, n) == rr.owner = n
NsecCovers(rr, n) == Gap(rr, n, Less)

CommonSuffix(a, b) == LongestCommonPrefix({a, b})

(* The longest ancestor that one covering record shows to exist. *)
ClosestEncloser(rr, n) ==
  LET fromOwner == CommonSuffix(n, rr.owner)
      fromNext == CommonSuffix(n, rr.next)
  IN IF Len(fromOwner) >= Len(fromNext) THEN fromOwner ELSE fromNext

(* For each way to choose the covering record there is one encloser, as    *)
(* the gaps of one chain do not overlap.                                   *)
Encloser(rrs, n) == {ClosestEncloser(rr, n) : rr \in {r \in rrs : NsecCovers(r, n)}} \ {n}

NsecProvesNoData(rrs, n, type) ==
  IF \E rr \in rrs : NsecMatches(rr, n)
  THEN \A rr \in rrs : NsecMatches(rr, n) => BitmapDenies(rr.types, type)
  ELSE \E e \in Encloser(rrs, n) :
         \E rr \in rrs : NsecMatches(rr, Star(e)) /\ BitmapDenies(rr.types, type)

NsecProvesNxdomain(rrs, n) ==
  \E e \in Encloser(rrs, n) :
    /\ \A rr \in rrs : ~NsecMatches(rr, Star(e))
    /\ \E rr \in rrs : NsecCovers(rr, Star(e))

NsecNoExactMatch(rrs, n) ==
  /\ \A rr \in rrs : ~NsecMatches(rr, n)
  /\ \E rr \in rrs : NsecCovers(rr, n)

NsecProvesDenial(rrs, n, type) ==
  /\ \A rr \in rrs : "DNAME" \notin rr.types
  /\ NsecProvesNoData(rrs, n, type) \/ NsecProvesNxdomain(rrs, n)

-------------------------------------------------------------------------------
(* nsec3.js *)
Nsec3Matches(rr, n) == rr.owner = Hash[n]
Nsec3Covers(rr, n) == Gap(rr, Hash[n], LAMBDA a, b : a < b)

(* Upwards from the name to the first ancestor that is matched; it must    *)
(* not be a delegation, and the name below it must be covered.             *)
ClosestEncloserProof(rrs, n) ==
  LET matched == {i \in 0 .. Len(n) : \E rr \in rrs : Nsec3Matches(rr, SubSeq(n, 1, i))}
      top == CHOOSE i \in matched : \A j \in matched : j <= i
      encloser == SubSeq(n, 1, top)
      covers == {rr \in rrs : Nsec3Covers(rr, SubSeq(n, 1, top + 1))}
  IN IF matched = {} \/ Len(n) \in matched THEN {}
     ELSE IF \E rr \in rrs : Nsec3Matches(rr, encloser) /\ IsCut(rr.types) THEN {}
     ELSE {[encloser |-> encloser, optOut |-> rr.optOut] : rr \in covers}

(* A slip: opt-out makes no difference to a proof. *)
RefusingOptOutNever(proofs) == proofs

RefusingOptOut(proofs) == {p \in proofs : ~p.optOut}

Nsec3ProvesNoData(rrs, n, type) ==
  IF \E rr \in rrs : Nsec3Matches(rr, n)
  THEN \A rr \in rrs : Nsec3Matches(rr, n) => BitmapDenies(rr.types, type)
  ELSE \E p \in RefusingOptOut(ClosestEncloserProof(rrs, n)) :
         \E rr \in rrs : /\ Nsec3Matches(rr, Star(p.encloser))
                         /\ BitmapDenies(rr.types, type)

Nsec3ProvesNxdomain(rrs, n) ==
  \E p \in RefusingOptOut(ClosestEncloserProof(rrs, n)) :
    /\ \A rr \in rrs : ~Nsec3Matches(rr, Star(p.encloser))
    /\ \E rr \in rrs : Nsec3Covers(rr, Star(p.encloser)) /\ ~rr.optOut

Nsec3NoExactMatch(rrs, n) == RefusingOptOut(ClosestEncloserProof(rrs, n)) # {}

Nsec3ProvesDenial(rrs, n, type) ==
  Nsec3ProvesNoData(rrs, n, type) \/ Nsec3ProvesNxdomain(rrs, n)

(* An opt-out gap proves this, and nothing else. *)
Nsec3ProvesInsecureDelegation(rrs, n) ==
  \/ Nsec3ProvesNoData(rrs, n, "DS")
  \/ \E p \in ClosestEncloserProof(rrs, n) : p.optOut

-------------------------------------------------------------------------------
(* denial.js. A set of records without any proves nothing. *)
ProvesDenial ==
  IF given.scheme = "nsec" THEN NsecProvesDenial(call, given.name, given.type)
                           ELSE Nsec3ProvesDenial(call, given.name, given.type)

ProvesInsecureDelegation ==
  IF given.scheme = "nsec" THEN NsecProvesNoData(call, given.name, "DS")
                           ELSE Nsec3ProvesInsecureDelegation(call, given.name)

ProvesNoExactMatch ==
  IF given.scheme = "nsec" THEN NsecNoExactMatch(call, given.name)
                           ELSE Nsec3NoExactMatch(call, given.name)

(* validateChain: the signature of the wildcard w verifies as an answer    *)
(* for every name below w's parent; it is taken if the name has no exact   *)
(* match.                                                                  *)
TakesExpansion(w) ==
  /\ given.name # w /\ IsUnder(given.name, ParentOf(w)) /\ given.name # ParentOf(w)
  /\ ProvesNoExactMatch

-------------------------------------------------------------------------------
(* What the zone has: names below a delegation or a DNAME are not its own, *)
(* and a name that does not exist has what the wildcard at its closest     *)
(* encloser has.                                                           *)
BelowCut == \E c \in Owners : /\ IsCut(given.zone[c]) /\ c # given.name
                              /\ IsUnder(given.name, c)
BelowDname == \E d \in Owners : /\ "DNAME" \in given.zone[d] /\ d # given.name
                                /\ IsUnder(given.name, d)

Source ==
  IF given.name \in Existing THEN given.name
  ELSE LET above == {n \in Existing : IsUnder(given.name, n)}
       IN Star(CHOOSE n \in above : \A o \in above : Len(o) <= Len(n))

Delegated == IsCut(TypesAt(Source)) /\ given.type # "DS"
HasAnswer == {given.type, "CNAME"} \cap TypesAt(Source) # {}

(* A proof of denial is true, whichever of its records were withheld and   *)
(* with wildcards considered; but see DenialIsTrue.  A delegation that is  *)
(* read as unsigned has no DS, and what was expanded from a wildcard is    *)
(* not believed at a name with records of its own.                         *)
DenialIsTrueAbove ==
  /\ ProvesDenial /\ ~BelowCut /\ ~BelowDname => ~Delegated /\ ~HasAnswer
  /\ ProvesInsecureDelegation /\ given.name \in Owners => "DS" \notin TypesAt(given.name)
  /\ ~BelowCut => \A w \in Owners : TakesExpansion(w) => given.name \notin Owners

(* The same of every name, as `every predicate below returns false when it *)
(* is unsure' (nsec.js) asks.                                              *)
DenialIsTrue == ProvesDenial => ~Delegated /\ ~HasAnswer /\ ~BelowCut /\ ~BelowDname

(* What is not there can be proven not to be there, with all the records:  *)
(* a signed zone's page without a pin is not refused.  By NSEC this leaves *)
(* out a name that exists only for those below it.                         *)
HonestDenialIsProven ==
  (call = Signed /\ ~Delegated /\ ~HasAnswer /\ ~BelowCut /\ ~given.optOut
     /\ (given.scheme = "nsec" => given.name \notin Existing \ Owners)
     /\ \A n \in Owners : "DNAME" \notin given.zone[n])
    => ProvesDenial
===============================================================================
