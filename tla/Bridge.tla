--------------------------------- MODULE Bridge ---------------------------------
(***************************************************************************)
(* The loopback resolver that hands the questions of the web engine to     *)
(* oblivious DNS (src/odoh-bridge.js), and what it remembers of them: the  *)
(* security panel says of a host that it was looked up obliviously only if *)
(* the last question for it that the bridge knows of was answered.         *)
(*                                                                         *)
(* Questions go on side by side and end in any order; one row is kept for  *)
(* each host and type, and so many rows in all.                            *)
(***************************************************************************)
EXTENDS Naturals, FiniteSets, SequencesExt

CONSTANTS Sites,     \* hosts
          Questions, \* bound on questions
          MaxRows    \* 512 in the code

VARIABLES given, \* what each question is about, by its sequence number
          call   \* questions in flight, rows, oldest first, what was forgotten

vars == <<given, call>>

Keys == Sites \X {"A", "AAAA"}
Question == 1 .. Questions
Endings == {"answered", "failed"}

Init ==
  /\ given \in [Question -> Keys]
  /\ call = [asked |-> 0, flight |-> {}, rows |-> <<>>, pushed |-> {}, old |-> {},
             ended |-> [q \in Question |-> "no"]]

Become(c) == call' = c /\ UNCHANGED given
Host(q) == given[q][1]
Rows == ToSet(call.rows)

(* A question that is not one of the engine's has an error and no number.  *)
Ask == /\ call.asked < Questions
       /\ Become([call EXCEPT !.asked = @ + 1, !.flight = @ \cup {call.asked + 1}])

(* A slip: whoever ends last is the latest. *)
IsNewerNever(row, q) == FALSE

IsNewer(row, q) == given[row] = given[q] /\ row > q

(* _remember: an older question leaves a newer row as it is. *)
Remember(c, q) ==
  LET rows == Append(RemoveFirstMatch(c.rows, LAMBDA row : given[row] = given[q]), q)
  IN IF \E row \in ToSet(c.rows) : IsNewer(row, q) THEN c
     ELSE IF Len(rows) > MaxRows
          THEN [c EXCEPT !.rows = Tail(rows), !.pushed = @ \cup {Head(rows)}]
          ELSE [c EXCEPT !.rows = rows]

(* An answer that is to another question, or none, is a failure. *)
End(q, how) ==
  /\ q \in call.flight
  /\ Become(Remember([call EXCEPT !.flight = @ \ {q}, !.ended[q] = how], q))

(* Ten minutes go by. *)
Age == Rows \ call.old # {} /\ Become([call EXCEPT !.old = Rows])

Next == \/ Ask \/ Age
        \/ \E q \in Question, how \in Endings : End(q, how)

(* recentEvidence: the latest row of a host, of whichever type. *)
Evidence(host) ==
  LET rows == {row \in Rows : Host(row) = host}
  IN {row \in rows : /\ \A other \in rows : other <= row
                     /\ row \notin call.old /\ call.ended[row] = "answered"}

-------------------------------------------------------------------------------
(* What stands for a host was answered, and nothing that was asked for the *)
(* host after it and is over failed, whatever its type and in whatever     *)
(* order the answers came; unless the row of a later question was pushed   *)
(* out by those of other hosts.                                            *)
EvidenceIsLatest ==
  \A host \in Sites : \A row \in Evidence(host) :
    \A q \in Question :
      Host(q) = host /\ q > row /\ call.ended[q] # "no"
        => \E p \in call.pushed : Host(p) = host /\ p >= q
===============================================================================
