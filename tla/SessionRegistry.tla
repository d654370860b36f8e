--------------------------- MODULE SessionRegistry ---------------------------
(***************************************************************************)
(* What POST /sessions promises of the sessions it hands out: an answer is *)
(* a session nobody was given before, or the one whose token was sent. A   *)
(* caller who sent a token loses that session only to a fault.             *)
(***************************************************************************)
CONSTANTS SessionIds, Nil

VARIABLES
  given,    \* sessions handed out
  asked,    \* the token the last answer was for
  answered, \* the session it carried
  faulted   \* a call has failed

registryVars == <<given, asked, answered, faulted>>

Init ==
  /\ given = {}
  /\ asked = Nil
  /\ answered = Nil
  /\ faulted = FALSE

Open(id) ==
  /\ id \notin given
  /\ given' = given \cup {id}
  /\ answered' = id
  /\ asked' = Nil \/ (asked' \in given /\ faulted)
  /\ UNCHANGED faulted

Resume(id) ==
  /\ id \in given
  /\ asked' = id
  /\ answered' = id
  /\ UNCHANGED <<given, faulted>>

Fault ==
  /\ faulted' = TRUE
  /\ UNCHANGED <<given, asked, answered>>

Next ==
  \/ \E id \in SessionIds : Open(id) \/ Resume(id)
  \/ Fault

Spec == Init /\ [][Next]_registryVars
=============================================================================
