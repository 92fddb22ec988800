------------------------------- MODULE DnssecChain -------------------------------
(***************************************************************************)
(* One validation up to a DS (src/dnssec.js): the zone's keys are fetched  *)
(* and anchored to the DS of its parent, and an answer of the zone, or the *)
(* DS it has for a child, is verified under them.                          *)
(*                                                                         *)
(* Whoever answers may serve any keys and any answer, with any signature   *)
(* that exists: those of the zone, also of old, and any made by a key that *)
(* is not the zone's own, which somebody else may hold: one that it has    *)
(* revoked, or one in its key set that is not for zones.                   *)
(*                                                                         *)
(* A key is served in a form: with the zone bit, protocol 3 and no revoke  *)
(* bit, or otherwise.  The form is part of the digest in a DS.  That a     *)
(* signature has the algorithm of its key is part of its verification.     *)
(***************************************************************************)
EXTENDS Naturals, FiniteSets

VARIABLES given, \* the DS, the zone's keys, what it has at the name, what is asked
          call   \* the keys that were fetched, the verdict, and whether every
          \* reply so far was the zone's own (a history)

vars == <<given, call>>

Form == [id : {"ksk", "next", "zsk", "old", "app", "foreign"}, zone : BOOLEAN]
F(id, zone) == [id |-> id, zone |-> zone]

(* Keys whose secret half is the zone's alone. *)
Kept == {"ksk", "next", "zsk"}

(* What the zone publishes: a second signing key while it rolls over, the  *)
(* revoked key, and a key of another use.                                  *)
ZoneKeys == {F("ksk", TRUE), F("zsk", TRUE), F("old", FALSE), F("app", FALSE)}
              \cup (IF given.rolling THEN {F("next", TRUE)} ELSE {})
Signers == IF given.rolling THEN {"ksk", "next"} ELSE {"ksk"}

(* What it published before the key was revoked. *)
PastKeys == {F("ksk", TRUE), F("zsk", TRUE), F("old", TRUE)}

(* A DS may name a key in any form that the zone has published.            *)
Ds == {F("ksk", TRUE), F("next", TRUE), F("old", FALSE), F("app", FALSE)}

Init ==
  /\ given \in [ds : SUBSET Ds, rolling : BOOLEAN, exact : BOOLEAN,
                asks : {"answer", "child"}]
  /\ call = [pc |-> "keys", keys |-> {}, value |-> "none", verdict |-> "none",
             honest |-> TRUE]

-------------------------------------------------------------------------------
(* Signatures that exist, over a set of keys and over an answer; `live':   *)
(* within its window.                                                      *)
KeysSigned(keys, by, live) ==
  \/ by \notin Kept
  \/ keys = ZoneKeys /\ by \in Signers
  \/ keys = PastKeys /\ by = "ksk" /\ ~live

(* The wildcard's records verify at every name below it; DS has none. *)
Values == {"own", "wildcard", "stale", "forged"}
ValueSigned(value, by, live) ==
  \/ by \notin Kept
  \/ by \in {"zsk", "ksk"} /\ value = "own" /\ given.exact
  \/ by \in {"zsk", "ksk"} /\ value = "wildcard" /\ given.asks = "answer"
  \/ by \in {"zsk", "ksk"} /\ value = "stale" /\ ~live

-------------------------------------------------------------------------------
(* verifyRRSIGAt: a signature is judged within its window only. *)
Verifies(signed, by, k, live) == signed /\ by = k.id /\ live

(* A slip: a revoked key, or one of another use, verifies. *)
UsableAny(k) == TRUE

(* zoneKeyUsable, and the same condition in the search for an anchor. *)
Usable(k) == k.zone

(* keyTag and dsDigest: the keys that the DS name, of those DS that have   *)
(* an algorithm and a digest of ours (isSupportedDs).                      *)
Named(keys) == keys \cap given.ds
Anchors(keys) == {k \in Named(keys) : Usable(k)}

Refuse(honest) ==
  call' = [call EXCEPT !.pc = "done", !.verdict = "refused", !.honest = @ /\ honest]

(* anchorZoneKeysAt: the first usable key that a DS names, in the order in *)
(* which they are served, must have made the signature that is served.     *)
Anchor(keys, by, live) ==
  /\ call.pc = "keys"
  /\ LET honest == keys = ZoneKeys /\ by \in Signers /\ live IN
     \/ Anchors(keys) = {} /\ Refuse(honest)
     \/ \E k \in Anchors(keys) :
          IF Verifies(KeysSigned(keys, by, live), by, k, live)
          THEN call' = [call EXCEPT !.pc = "value", !.keys = keys, !.honest = honest]
          ELSE Refuse(honest)
  /\ UNCHANGED given

(* isWildcardExpanded. A proof that the name has no records of its own     *)
(* exists only if it is so (Denial); it may be withheld.                   *)
Expanded(value) == value = "wildcard"
Proofs == IF given.exact THEN {FALSE} ELSE BOOLEAN

MayExpand(value, proven) == Expanded(value) => proven

(* validateChainAt and validateDsAt: verified by any usable key of the     *)
(* set that was anchored; an answer that was expanded needs the proof.     *)
Verify(value, by, live, proven) ==
  /\ call.pc = "value"
  /\ IF /\ \E k \in call.keys : /\ Usable(k)
                                /\ Verifies(ValueSigned(value, by, live), by, k, live)
        /\ given.asks = "answer" => MayExpand(value, proven)
     THEN call' = [call EXCEPT !.pc = "done", !.verdict = "ok", !.value = value]
     ELSE Refuse(live /\ (Expanded(value) => proven)
                   /\ by \in {"zsk", "ksk"} /\ value \in {"own", "wildcard"}
                   /\ ValueSigned(value, by, live))
  /\ UNCHANGED given

Served == {ZoneKeys, PastKeys} \cup SUBSET {F("ksk", TRUE), F("old", TRUE), F("app", FALSE),
                                            F("app", TRUE), F("foreign", TRUE)}

Next ==
  \E by \in {f.id : f \in Form}, live \in BOOLEAN :
    \/ \E keys \in Served : Anchor(keys, by, live)
    \/ \E value \in Values, proven \in Proofs : Verify(value, by, live, proven)

-------------------------------------------------------------------------------
(* What is accepted is what the zone has at the name, in the key set that  *)
(* it publishes now: no revoked key, no key of another use, no key set or  *)
(* answer of an earlier time, and no answer of a wildcard's at a name with *)
(* records of its own, in whatever combination they are served and even    *)
(* if a DS names such a key.  And what the zone serves is accepted if its  *)
(* DS names the one key that signs its keys; while two do, the signature   *)
(* that is found first may be the other's.                                 *)
AcceptedIsPublished ==
  /\ call.verdict = "ok" => /\ call.keys = ZoneKeys
                            /\ call.value = IF given.exact THEN "own" ELSE "wildcard"
  /\ (call.verdict = "refused" /\ call.honest) => given.rolling \/ F("ksk", TRUE) \notin given.ds
===============================================================================
