----------------------------- MODULE MCWebClient -----------------------------
(* The web client on one step of each kind.                                *)
EXTENDS WebClient

CONSTANTS a, b

MCSlots == {a, b}
MCSteps == <<"form", "camera", "document">>
=============================================================================
