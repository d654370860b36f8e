----------------------- MODULE VerificationLifecycle -----------------------
(***************************************************************************)
(* What the on_complete verification of one session promises, with no      *)
(* requests, webhooks or store in sight: the verification is started once  *)
(* per round, a round ends with one verdict, a rejection opens a new round *)
(* only when the user redoes a capture, an approval is final, and the      *)
(* status the session shows follows the verification.                      *)
(* Handlers whose reads and writes cross put an end to these promises: from *)
(* then on the lifecycle promises only that nothing was verified before the *)
(* flow was complete.                                                       *)
(***************************************************************************)

VARIABLES
  phase,      \* how far the verification is
  shown,      \* what sessions.status says
  complete,   \* every step of the flow has been submitted
  crossed     \* two handlers have acted on the store at the same time

lifecycleVars == <<phase, shown, complete, crossed>>

Phases == {"none", "pending", "approved", "rejected"}

\* The status a session should show in each phase.
ShownFor(p) ==
  IF p = "pending" THEN "verifying" ELSE IF p = "approved" THEN "approved" ELSE "in_progress"

Init == phase = "none" /\ shown = "in_progress" /\ complete = FALSE /\ crossed = FALSE

Finish == complete' = TRUE /\ UNCHANGED <<phase, shown, crossed>>

Trigger ==
  /\ phase = "none" /\ complete
  /\ phase' = "pending"
  /\ UNCHANGED <<shown, complete, crossed>>

Verdict ==
  /\ phase = "pending"
  /\ phase' \in {"approved", "rejected"}
  /\ UNCHANGED <<shown, complete, crossed>>

Redo ==
  /\ phase = "rejected"
  /\ phase' = "none"
  /\ UNCHANGED <<shown, complete, crossed>>

\* The session's status catches up with the verification.
Show ==
  /\ shown' = ShownFor(phase)
  /\ UNCHANGED <<phase, complete, crossed>>

\* Two handlers meet, which changes nothing yet.
Cross ==
  /\ crossed' = TRUE
  /\ UNCHANGED <<phase, shown, complete>>

\* What one of them read may no longer be so when it writes.
Astray ==
  /\ crossed /\ complete
  /\ phase' \in Phases
  /\ shown' \in {"in_progress", "verifying", "approved"}
  /\ UNCHANGED <<complete, crossed>>

Next == Finish \/ Trigger \/ Verdict \/ Redo \/ Show \/ Cross \/ Astray

Spec == Init /\ [][Next]_lifecycleVars

=============================================================================
