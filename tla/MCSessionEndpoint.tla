-------------------------- MODULE MCSessionEndpoint --------------------------
(* Two builds of the app on one device: both render the first version of   *)
(* the flow, only one the second.                                          *)
EXTENDS SessionEndpoint, TLC

MCRenders == {<<"new", v>> : v \in Versions} \cup {<<"old", 1>>}
Symmetry == Permutations(Requests) \cup Permutations(SessionIds)
=============================================================================
