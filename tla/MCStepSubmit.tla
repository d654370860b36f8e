----------------------------- MODULE MCStepSubmit -----------------------------
(* A small instance of StepSubmit: "form" is always acceptable, "capture"  *)
(* once its upload has arrived (the world has moved).                      *)
EXTENDS StepSubmit, TLC

MCAcceptable == {<<"form", w>> : w \in 0..MaxWorld} \cup {<<"capture", w>> : w \in 1..MaxWorld}
Symmetry == Permutations(Requests)

=============================================================================
