------------------------------- MODULE TrustPath -------------------------------
(***************************************************************************)
(* What the security panel says of a resolution (src/trust-path.js,        *)
(* hnsSteps and summarize): a set of steps, each with a label and a state, *)
(* and the lock their weakest makes.  Sources and explanations are left    *)
(* out.                                                                    *)
(*                                                                         *)
(* A resolution is a record with the fields of the object the resolvers    *)
(* return: kind, trust ("spv" or "doh"), op, ns, validated and anchored    *)
(* (dnssecValidated, dnssecAnchored), pins (there are TLSA records) and    *)
(* insecure (allowInsecure).                                               *)
(***************************************************************************)

States == {"verified", "unverified", "failed", "none"}

(* What is known after connecting; "none" before. *)
Transports == {"none", "https-dane", "http", "refused"}

(* Pointers whose bytes authenticate themselves. *)
ContentAddressed == {"ipfs", "ipns", "bittorrent", "hyper"}

Step(label, state) == {[label |-> label, state |-> state]}
When(cond, steps) == IF cond THEN steps ELSE {}

NameStep(r) ==
  Step("Handshake name", IF r.trust = "doh" THEN "unverified" ELSE "verified")

OpStep(r) == When(r.op, Step("Name records", "unverified"))

ZoneStep(r) ==
  When(r.ns, Step("Zone records", IF r.validated THEN "verified" ELSE "unverified"))

(* DNSSEC decides what the pin is worth. Without a pin an unsigned zone     *)
(* gets no step, and neither does an answer of the registry.                *)
DnssecStep(r) ==
  IF r.validated THEN Step("DNSSEC", "verified")
  ELSE IF r.kind = "dnssec-fail" THEN Step("DNSSEC", "failed")
  ELSE IF r.anchored /\ ~r.op THEN Step("DNSSEC", "unverified")
  ELSE When(r.pins /\ ~r.op, Step("DNSSEC", "none"))

PinStep(r, transport) ==
  IF r.pins
  THEN Step("DANE pin (TLSA)",
            IF transport = "https-dane" THEN "verified" ELSE "unverified")
  ELSE IF r.insecure THEN Step("DANE pin (TLSA)", "none")
  ELSE When(r.kind = "site", Step("DANE pin (TLSA)", "failed"))

(* The resolution itself failed. *)
FailureStep(r) ==
  When(r.kind = "unregistered", Step("Records", "none"))
    \cup When(r.kind = "blocked", Step("Address", "failed"))
    \cup When(r.kind = "unreachable", Step("Records", "failed"))

(* What the bytes travelled over. *)
BytesStep(r, transport) ==
  CASE r.kind \in ContentAddressed \cup {"arweave"}
         -> Step("Content", IF r.kind = "arweave" THEN "unverified" ELSE "verified")
              \cup When(r.trust = "doh", Step("Pointer", "unverified"))
    [] r.kind = "site"
         -> When(transport = "https-dane", Step("Connection", "verified"))
              \cup When(transport = "http", Step("Connection", "none"))
              \cup When(transport = "refused", Step("Connection", "failed"))
    [] OTHER -> {}

HnsSteps(r, transport) ==
  NameStep(r) \cup OpStep(r) \cup ZoneStep(r) \cup DnssecStep(r)
    \cup PinStep(r, transport) \cup FailureStep(r) \cup BytesStep(r, transport)

Saying(steps, state) == {s \in steps : s.state = state}

(* A slip: what is absent does not weaken the lock. *)
SummarizeAbsent(steps) ==
  IF steps = {} THEN "unknown"
  ELSE IF Saying(steps, "failed") # {} THEN "failed"
  ELSE IF [label |-> "Connection", state |-> "none"] \in steps THEN "open"
  ELSE IF Saying(steps, "unverified") = {} THEN "verified"
  ELSE "partial"

(* The weakest link. *)
Summarize(steps) ==
  IF steps = {} THEN "unknown"
  ELSE IF Saying(steps, "failed") # {} THEN "failed"
  ELSE IF [label |-> "Connection", state |-> "none"] \in steps THEN "open"
  ELSE IF steps = Saying(steps, "verified") THEN "verified"
  ELSE "partial"
===============================================================================
