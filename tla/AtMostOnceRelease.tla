------------------------- MODULE AtMostOnceRelease -------------------------
(***************************************************************************)
(* What the signed-release ledger promises for one challenge, whatever the *)
(* number of commands, kills and power losses: at most one release ever    *)
(* holds the challenge when a package leaves, at most one package leaves,  *)
(* and once it has left the reservation it left under is never given up    *)
(* (docs/SIGNED_FACTORY_RELEASE_SUBMISSION.md, "Submit once").             *)
(***************************************************************************)
EXTENDS Naturals

CONSTANTS Marker, Absent

VARIABLES holder,   \* the marker holding the challenge, or Absent
          sent      \* how often each marker's package was transmitted

NothingSent == \A m \in Marker : sent[m] = 0

Init == holder = Absent /\ sent = [m \in Marker |-> 0]

Reserve ==
  /\ holder = Absent
  /\ NothingSent
  /\ holder' \in Marker
  /\ UNCHANGED sent

(* A reservation that is not yet on disk can be lost with the power.       *)
Forget ==
  /\ NothingSent
  /\ holder' = Absent
  /\ UNCHANGED sent

Send ==
  /\ holder # Absent
  /\ NothingSent
  /\ sent' = [sent EXCEPT ![holder] = 1]
  /\ UNCHANGED holder

Spec == Init /\ [][Reserve \/ Forget \/ Send]_<<holder, sent>>
=============================================================================
