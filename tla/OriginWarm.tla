------------------------------ MODULE OriginWarm ------------------------------
(***************************************************************************)
(* An archive of our own storage is fetched over HTTPS and imported into   *)
(* the local node before the node is asked for it                          *)
(* (namespaces/ipfs/src/origin-warm.js), and what was imported is believed *)
(* to be there until it is confirmed again (block-presence.js).            *)
(*                                                                         *)
(* One archive with one file: opened whole, or read at a position, which   *)
(* fetches the slice around it, then the rest of its window, then the head *)
(* of the next.  Two reads at the same place do the same from there on, so *)
(* they are one element of a set.  The node collects garbage when it       *)
(* pleases: the root and all slices go together.                           *)
(***************************************************************************)
EXTENDS Naturals, FiniteSets

CONSTANTS Count,     \* slices of the file
          PerWindow, \* slices of a window, 8 in the code
          MaxReads,  \* bound on reads at a time
          MaxGC      \* bound on garbage collections

VARIABLES large,        \* the archive is above maxBytes
          root, stored, \* what the node has: the root, slices of the file
          presence,     \* what is believed: whole, slices, since when
          reads,        \* sliceWarm() calls in flight, background ones too
          task,         \* inflight: the archive, a slice, a window's rest
          collections

disk == <<large, root, stored, collections>>
vars == <<disk, presence, reads, task>>

Slice == 0 .. Count - 1
All == <<"all", 0>>
Keys == ({"slice", "rest"} \X Slice) \cup {All}
First(s) == s - (s % PerWindow)
Rest(s) == {t \in Slice : First(t) = First(s) /\ t > s}

(* What a task imports. The rest of a window is keyed by the window.       *)
Covers(k, from) == CASE k[1] = "all" -> Slice
                     [] k[1] = "slice" -> {k[2]}
                     [] OTHER -> Rest(from)

(* A read has asked the node about the root, has its answer, waits for its *)
(* slice, or has it, well or not; head: the open of a large archive waits  *)
(* for it.                                                                 *)
Reads == [pc : {"ask", "yes", "no", "slice", "windowed", "failed"},
          at : Slice, head : BOOLEAN]

(* A task: revalidating, asking for the archive, fetching, importing, and  *)
(* imported with the answer still to come. from: where a rest begins.      *)
Task == [pc : {"none", "ask", "yes", "no", "local", "here", "fetch", "import",
               "imported", "head"}, from : Slice]
NoTask == [pc |-> "none", from |-> 0]

TypeOK ==
  /\ large \in BOOLEAN /\ root \in BOOLEAN /\ stored \subseteq Slice
  /\ presence \in [whole : BOOLEAN, known : SUBSET Slice,
                   checked : {"never", "fresh", "stale"}]
  /\ reads \subseteq Reads /\ task \in [Keys -> Task]
  /\ collections \in 0 .. MaxGC

Init ==
  /\ large \in BOOLEAN /\ root = FALSE /\ stored = {}
  /\ presence = [whole |-> FALSE, known |-> {}, checked |-> "never"]
  /\ reads = {} /\ task = [k \in Keys |-> NoTask] /\ collections = 0

-------------------------------------------------------------------------------
(* block-presence.js *)

(* A slip: the slices of a collected archive stay. *)
ForgetWhole(p) == [p EXCEPT !.whole = FALSE, !.checked = "never"]

Forget(p) == [whole |-> FALSE, known |-> {}, checked |-> "never"]

Remember(p, k, from) ==
  IF k = All THEN [p EXCEPT !.whole = TRUE, !.checked = "fresh"]
  ELSE [p EXCEPT !.known = @ \cup Covers(k, from), !.checked = "fresh"]

(* revalidate() has its answer. *)
Revalidated(p, answer) == IF answer = "yes" THEN [p EXCEPT !.checked = "fresh"]
                                            ELSE Forget(p)
Answer == IF root THEN "yes" ELSE "no"

(* What happens to memory once the time to live is over. *)
Age == /\ presence.checked = "fresh"
       /\ presence' = [presence EXCEPT !.checked = "stale"]
       /\ UNCHANGED <<disk, reads, task>>

-------------------------------------------------------------------------------
(* The calls in flight, as [reads, task] pairs. *)

(* once(): joined when it is in flight. *)
Once(T, k, pc, from) ==
  IF T[k].pc # "none" THEN T ELSE [T EXCEPT ![k] = [pc |-> pc, from |-> from]]

Wait(f, r) == [reads |-> f.reads \cup {[r EXCEPT !.pc = "slice"]},
               task |-> Once(f.task, <<"slice", r.at>>, "fetch", 0)]

Ask(f, r) == [f EXCEPT !.reads = @ \cup {[r EXCEPT !.pc = "ask"]}]

(* A read has what it came for. One in the last quarter of a window has    *)
(* the next one fetched ahead.                                             *)
Ended(f, p, r, nearEnd) ==
  LET next == First(r.at) + PerWindow
      ahead == [pc |-> "ask", at |-> next, head |-> FALSE]
  IN IF nearEnd /\ r.at + 1 = next /\ next \in Slice
          /\ ~p.whole /\ next \notin p.known
     THEN IF p.checked = "stale" THEN Ask(f, ahead) ELSE Wait(f, ahead)
     ELSE f

(* Past the confirmation: what is not believed to be there is fetched. *)
Entered(f, p, r, nearEnd) ==
  IF p.whole \/ r.at \in p.known THEN Ended(f, p, r, nearEnd) ELSE Wait(f, r)

Begun(f, p, r, nearEnd) ==
  IF p.checked = "stale" THEN Ask(f, r) ELSE Entered(f, p, r, nearEnd)

Now == [reads |-> reads, task |-> task]
Without(r) == [Now EXCEPT !.reads = @ \ {r}]
Become(f) == reads' = f.reads /\ task' = f.task

Read(s) ==
  /\ Cardinality(reads) < MaxReads
  /\ \E nearEnd \in BOOLEAN :
       Become(Begun(Now, presence, [pc |-> "ask", at |-> s, head |-> FALSE], nearEnd))
  /\ UNCHANGED <<disk, presence>>

(* The node has an answer for a read, and the read has it. *)
RootAsked(r) ==
  /\ r.pc = "ask"
  /\ Become([Without(r) EXCEPT !.reads = @ \cup {[r EXCEPT !.pc = Answer]}])
  /\ UNCHANGED <<disk, presence>>

(* By then another may have confirmed or forgotten it. A node that cannot  *)
(* be asked, or cannot answer, is no evidence.                             *)
RootAnswered(r) ==
  /\ r.pc \in {"yes", "no"}
  /\ \E p \in {presence, Revalidated(presence, r.pc)}, nearEnd \in BOOLEAN :
       presence' = p /\ Become(Entered(Without(r), p, r, nearEnd))
  /\ UNCHANGED disk

(* After a slice that was imported comes the rest of the window. *)
SliceEnded(r) ==
  /\ r.pc \in {"windowed", "failed"}
  /\ \E nearEnd \in BOOLEAN :
       LET f == Without(r)
           g == IF r.pc = "windowed" /\ ~(Rest(r.at) \subseteq presence.known)
                THEN [f EXCEPT !.task = Once(@, <<"rest", First(r.at)>>, "fetch", r.at)]
                ELSE f
       IN Become(Ended(g, presence, r, nearEnd))
  /\ UNCHANGED <<disk, presence>>

-------------------------------------------------------------------------------
(* A warm, by its key. *)
Go(k, pc) == task' = [task EXCEPT ![k].pc = pc]

(* A task ends, and whoever joined it goes on. *)
Told(r, k, how) == IF r.pc = "slice" /\ k = <<"slice", r.at>>
                   THEN [r EXCEPT !.pc = how] ELSE r
End(k, how) == /\ task' = [task EXCEPT ![k] = NoTask]
               /\ reads' = {Told(r, k, how) : r \in reads}

(* An open without a range: warm() of the archive, or the name has no      *)
(* storage of ours, which is the end of it.                                *)
Open ==
  /\ task[All].pc = "none"
  /\ IF presence.whole
     THEN presence.checked = "stale" /\ Go(All, "ask")
     ELSE Go(All, "local")
  /\ UNCHANGED <<disk, presence, reads>>

OpenAnswered ==
  /\ \/ /\ \/ task[All].pc = "ask" /\ Go(All, Answer) /\ UNCHANGED presence
           \/ task[All].pc = "no" /\ Go(All, "local")
              /\ presence' = Revalidated(presence, "no")
           \/ task[All].pc = "local" /\ Go(All, IF root THEN "here" ELSE "fetch")
              /\ UNCHANGED presence
        /\ UNCHANGED reads
     \/ /\ task[All].pc = "yes" /\ End(All, "present")
        /\ presence' = Revalidated(presence, "yes")
     \/ /\ task[All].pc = "here" /\ End(All, "present")
        /\ presence' = Remember(presence, All, 0)
  /\ UNCHANGED disk

(* A node that is not there, or cannot answer, is no evidence: what is     *)
(* believed stays so, what is not is fetched if there is a node to take it. *)
OpenUnanswered ==
  /\ \/ task[All].pc = "ask" /\ End(All, "present")
     \/ task[All].pc = "local" /\ Go(All, "fetch") /\ UNCHANGED reads
     \/ task[All].pc = "local" /\ End(All, "failed")
  /\ UNCHANGED <<disk, presence>>

(* No node, no gateway, too large, or an archive that is not this one.     *)
WarmFails(k) ==
  /\ task[k].pc \in {"fetch", "import"}
  /\ End(k, "failed")
  /\ UNCHANGED <<disk, presence>>

(* A large archive is not fetched whole, its head is. *)
TooLarge ==
  /\ task[All].pc = "fetch" /\ large
  /\ \E nearEnd \in BOOLEAN :
       Become(Begun([Now EXCEPT !.task[All].pc = "head"], presence,
                    [pc |-> "ask", at |-> 0, head |-> TRUE], nearEnd))
  /\ UNCHANGED <<disk, presence>>

HeadEnded == /\ task[All].pc = "head" /\ \A r \in reads : ~r.head
             /\ End(All, "present")
             /\ UNCHANGED <<disk, presence>>

Fetched(k) ==
  /\ task[k].pc = "fetch" /\ (k = All => ~large)
  /\ Go(k, "import")
  /\ UNCHANGED <<disk, presence, reads>>

Import(k) ==
  /\ task[k].pc = "import"
  /\ Go(k, "imported")
  /\ root' = TRUE /\ stored' = stored \cup Covers(k, task[k].from)
  /\ UNCHANGED <<large, collections, presence, reads>>

Imported(k) ==
  /\ task[k].pc = "imported"
  /\ presence' = Remember(presence, k, task[k].from)
  /\ End(k, "windowed")
  /\ UNCHANGED disk

Collect == /\ collections < MaxGC /\ collections' = collections + 1
           /\ root' = FALSE /\ stored' = {}
           /\ UNCHANGED <<large, presence, reads, task>>

ReadGoesOn(r) == RootAsked(r) \/ RootAnswered(r) \/ SliceEnded(r)
WarmGoesOn(k) == WarmFails(k) \/ Fetched(k) \/ Import(k) \/ Imported(k)
OpenGoesOn == OpenAnswered \/ OpenUnanswered \/ TooLarge \/ HeadEnded

Asks == Open \/ \E s \in Slice : Read(s)

(* Fetches have a timeout, and the node answers or fails. *)
Works == \/ \E r \in reads : ReadGoesOn(r)
         \/ \E k \in Keys : WarmGoesOn(k)
         \/ OpenGoesOn

Next == Asks \/ Works \/ Age \/ Collect

-------------------------------------------------------------------------------
(* Whatever is believed to be on the node has a time from which it is      *)
(* confirmed again: forgetting an archive forgets its slices with it, also *)
(* when an import of another slice ends in between.                        *)
BeliefsExpire ==
  presence.whole \/ presence.known # {} => presence.checked # "never"

(* Every warm ends, that of a large archive with the head it waits for, and *)
(* the reads waiting for a slice go on with it: once nothing more is asked  *)
(* for, idle() returns.                                                     *)
WarmsEnd == <>[][~Asks]_vars => <>[](reads = {} /\ \A k \in Keys : task[k] = NoTask)
===============================================================================
