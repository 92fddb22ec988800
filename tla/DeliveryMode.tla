----------------------------- MODULE DeliveryMode -----------------------------
(***************************************************************************)
(* Fast and Private (src/delivery-mode.js): the one switch, and the        *)
(* anonymizer it drives.  set('private') flips the mode, saves it and then *)
(* routes; set('fast') routes first, flips, and saves last.  Nothing keeps *)
(* two set() calls apart: every await of one is a place where another may  *)
(* run.                                                                    *)
(***************************************************************************)
EXTENDS Anonymizer, SequencesExt

CONSTANT MaxRequests  \* bound on the switches of a behaviour

ASSUME RequestsAssumption == MaxRequests \in Nat

VARIABLES delivery,  \* DeliveryMode.mode
          saved,     \* the mode in the config file
          saving,    \* awaits of persist() in flight (and apply() at launch)
          requests,  \* switches so far
          want,      \* history: what was last asked for
          overlap    \* history: was set() ever called during another set()?

deliveryVars == <<delivery, saved, saving, requests, want, overlap>>
vars == <<anonymizerVars, deliveryVars>>

DeliveryModes == {"fast", "private"}

TypeOK ==
  /\ AnonymizerTypeOK
  /\ {delivery, saved, want} \subseteq DeliveryModes
  /\ saving \in Seq(DeliveryModes \cup {"launch"})
  /\ requests \in 0 .. MaxRequests
  /\ overlap \in BOOLEAN

Init ==
  /\ AnonymizerInit
  /\ delivery \in DeliveryModes
  /\ saved = delivery /\ want = delivery
  /\ saving = <<"launch">>
  /\ requests = 0
  /\ overlap = FALSE

(* A set() or apply() has not returned yet. *)
SetInFlight ==
  \/ saving # <<>>
  \/ starting
  \/ \E i \in DOMAIN passes : passes[i].leaving \/ passes[i].rules = "tor"

Request(m) ==
  /\ requests < MaxRequests
  /\ requests' = requests + 1
  /\ want' = m
  /\ overlap' = (overlap \/ SetInFlight)

-------------------------------------------------------------------------------
(* set('private') up to `await this.persist(next)'. *)
SetPrivate ==
  /\ Request("private")
  /\ delivery' = "private"
  /\ saving' = Append(saving, "private")
  /\ UNCHANGED <<anonymizerVars, saved>>

(* set('fast') up to `await this.anonymizer.setMode('off')'. *)
SetFast ==
  /\ Request("fast")
  /\ SetOff(TRUE)
  /\ UNCHANGED <<delivery, saved, saving>>

(* apply(): drive the anonymizer to what the mode says now. *)
Apply == IF delivery = "private" THEN SetTor ELSE SetOff(FALSE)

(* persist() has written the file; the call that awaited it goes on. *)
Saved(i) ==
  /\ saving' = RemoveAt(saving, i)
  /\ saved' = IF saving[i] = "launch" THEN saved ELSE saving[i]
  /\ \/ saving[i] = "fast" /\ UNCHANGED anonymizerVars
     \/ saving[i] # "fast" /\ Apply
  /\ UNCHANGED <<delivery, requests, want, overlap>>

(* A slip: Fast is not saved. *)
RoutedUnsaved ==
  /\ Settle
  /\ delivery' = IF Head(passes).leaving THEN "fast" ELSE delivery
  /\ UNCHANGED <<saving, saved, requests, want, overlap>>

(* A pass is over; if set('fast') awaited it, the mode flips and is saved. *)
Routed ==
  /\ Settle
  /\ \/ /\ Head(passes).leaving
        /\ delivery' = "fast"
        /\ saving' = Append(saving, "fast")
     \/ ~Head(passes).leaving /\ UNCHANGED <<delivery, saving>>
  /\ UNCHANGED <<saved, requests, want, overlap>>

Next == \/ SetPrivate \/ SetFast
        \/ \E i \in DOMAIN saving : Saved(i)
        \/ Routed
        \/ Background /\ UNCHANGED deliveryVars

Spec == Init /\ [][Next]_vars

(* tor.start() ends by itself (a two second grace, a 1.5 s probe), so do a  *)
(* write and a setProxy(); a promise's continuation runs once it settles;   *)
(* the boot deadline ends a bootstrap that nothing else ends.               *)
FairSpec ==
  /\ Spec
  /\ WF_vars((StartReturns \/ StartUnavailable) /\ UNCHANGED deliveryVars)
  /\ WF_vars((AwaitReady \/ AwaitFailed) /\ UNCHANGED deliveryVars)
  /\ WF_vars((\E i \in DOMAIN passes : Route(i)) /\ UNCHANGED deliveryVars)
  /\ WF_vars(Routed)
  /\ WF_vars(\E i \in DOMAIN saving : Saved(i))
  /\ WF_vars(awaiting = "pending" /\ (Bootstrap \/ RevokeHeard)
             /\ UNCHANGED deliveryVars)

-------------------------------------------------------------------------------
(* `They must move TOGETHER': with the set() calls one after another, at   *)
(* rest the mode, the file and the anonymizer agree, whatever the Tor      *)
(* client did meanwhile.                                                   *)
Agreement ==
  (FailClosed /\ ~overlap /\ AtRest /\ saving = <<>>) =>
     /\ delivery = want /\ saved = want
     /\ delivery = "private" <=> IsOn

(* A switch to Private ends with Tor up or with nothing loading; it does   *)
(* not stay half way.                                                      *)
PrivateSettles ==
  (want = "private" /\ ~overlap)
    ~> (want = "fast" \/ overlap \/ mode = "blocked"
        \/ (mode = "tor" /\ status = "on"))

(* `Entering Private flips the mode FIRST -- every consumer that reads     *)
(* policyFor() is restrictive from that instant': Private lasts until Fast *)
(* is asked for.                                                           *)
PrivateFromThatInstant ==
  [][(delivery = "private" /\ delivery' = "fast") => want = "fast"]_vars
===============================================================================
