----------------------------- MODULE SecurityPanel -----------------------------
(***************************************************************************)
(* The lock over a page of the chain resolver: what TrustPath says of what *)
(* HnsWalk returned.  A pointer is to content whose bytes authenticate     *)
(* themselves or to a transaction a gateway is asked for, a registry       *)
(* contract may have answered with any of these or with a site; the lock   *)
(* is drawn before and after the connection is made.                       *)
(***************************************************************************)
EXTENDS HnsWalk, TrustPath

Resolution(kind, r) ==
  [kind |-> kind, trust |-> "spv", op |-> FALSE,
   ns |-> kind = "site" /\ r.value # "onchain",
   validated |-> r.validated,
   anchored |-> /\ kind # "dnssec-fail"
                /\ r.validated \/ (kind = "site" /\ r.value # "onchain" /\ anchor # "none"),
   pins |-> r.pin # "none", insecure |-> r.insecure]

FromRegistry(kind, pins) ==
  [kind |-> kind, trust |-> "spv", op |-> TRUE, ns |-> FALSE,
   validated |-> FALSE, anchored |-> FALSE, pins |-> pins,
   insecure |-> kind = "site" /\ ~pins]

(* The resolutions that the result of a walk stands for. *)
Resolutions(r) ==
  CASE r.kind = "pointer" -> {Resolution(k, r) : k \in {"ipfs", "arweave"}}
    [] r.kind = "op" -> {FromRegistry(k, p) : k \in {"ipfs", "arweave"}, p \in {FALSE}}
                          \cup {FromRegistry("site", p) : p \in BOOLEAN}
    [] OTHER -> {Resolution(r.kind, r)}

(* How a site may have been loaded: over its pin, or refused; in plaintext *)
(* only if that is allowed.                                                *)
Loaded(r) ==
  IF r.kind # "site" THEN {"none"}
  ELSE IF r.pins THEN {"none", "https-dane", "refused"}
  ELSE IF r.insecure THEN {"none", "http"}
  ELSE {"refused"}

Shown == UNION {{Summarize(HnsSteps(r, t)) : t \in Loaded(r)}
                  : r \in Resolutions(result)}

(* A page of the walk is on show: it returned something to say. *)
OnShow == pc = "done" /\ asks = "site" /\ result.kind # "threw"

(* A refusal that puts no step of its own on the panel: nothing is loaded. *)
Unstepped == result.kind \in {"dnssec-unsupported", "pointer-conflict"}

(* The zone the answer came from is not signed from the chain down, or was *)
(* taken for such a one at a referral to a name that is no cut.            *)
ZoneUnsigned == \/ \E a \in Apexes : a <= zone /\ world.ds[a] = "none"
                \/ "referral" \in trusted

(* The closed lock is shown over one of four things: a pointer in the      *)
(* chain itself; what a zone signed from the chain down publishes, true in *)
(* every part but the address behind a claimed alias, and if it is a site  *)
(* then with the name's own pin; a refusal without a step of its own; and  *)
(* a pointer that was not validated, but only where the zone is unsigned:  *)
(* no lost, forged or stripped reply makes a signed zone's answer pass for *)
(* that.  The fourth is a disagreement: SPEC.md 4 of the handshake         *)
(* namespace has `a nameserver's unsigned answer is unverified however the *)
(* nameserver was found', and trust-path.js, which gives a step to the     *)
(* zone's records only beside an address, shows it all green.              *)
GreenIsProven ==
  (OnShow /\ "verified" \in Shown) =>
    \/ result.kind = "pointer" /\ result.value = "onchain"
    \/ /\ result.kind \in {"pointer", "site"}
       /\ result.validated /\ Signed(zone)
       /\ TrueContent(result)
       /\ TrueAddress(result) \/ "alias" \in trusted
       /\ result.kind = "site" => result.pin = "own" /\ world.pin
    \/ result.kind = "pointer" /\ ~result.validated /\ ZoneUnsigned
    \/ Unstepped
===============================================================================
