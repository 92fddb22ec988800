------------------------------- MODULE MCRequests -------------------------------
(* Requests over all zones of a bounded shape: up to two owners below the  *)
(* apex, of three labels and two levels.  Wildcards hold records; what is  *)
(* below a delegation is not in the zone.                                  *)
EXTENDS Requests, Sequences, FiniteSetsExt, SequencesExt

OneLabel == {<<a>> : a \in 0 .. 2}
TwoLabels == {<<a, b>> : a \in 1 .. 2, b \in 0 .. 2}
Plain == {{"TLSA"}, {"CNAME"}, {"TXT"}}
Contents == {{"TLSA"}, {"CNAME"}, {"TXT"}, {"NS"}, {"NS", "DS"}, {"DNAME"}}

ZonesOver(S) ==
  {[n \in S \cup {<<>>} |-> IF n = <<>> THEN {"SOA", "NS"} ELSE f[n]] : f \in [S -> Contents]}

MCZones ==
  {z \in UNION {ZonesOver(S) : S \in UNION {kSubset(k, OneLabel \cup TwoLabels) : k \in 0 .. 2}} :
     \A n \in DOMAIN z \ {<<>>} :
       /\ z[n] \in IF n[Len(n)] = 0 THEN Plain ELSE Contents \ {{"CNAME"}, {"TXT"}}
       /\ \A m \in DOMAIN z \ {<<>>, n} : IsPrefix(m, n) => z[m] \in Plain}

MCQuestions == {<<a>> : a \in 1 .. 2} \cup {<<a, b>> : a \in 1 .. 2, b \in 1 .. 2}

(* An order of the hashes that is not the order of the names. *)
Code(n) == FoldLeft(LAMBDA acc, a : 4 * acc + a + 1, 0, n)
MCHash == [n \in UNION {[1 .. k -> 0 .. 2] : k \in 0 .. 3} |-> (23 * Code(n) + 7) % 67]
===============================================================================
