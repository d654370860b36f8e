--------------------------- MODULE SubmitContract ---------------------------
(***************************************************************************)
(* What a client who submits a step under an idempotency key may rely on,  *)
(* with no requests, calls or failures in sight: the first outcome under a *)
(* key is remembered for good; the answer to the same body is that outcome *)
(* and the answer to another body says that the key was reused. Only under *)
(* a key that two requests carried at once may an answer be another one,   *)
(* and then too a success is about a body that was written.                *)
(***************************************************************************)
CONSTANTS Keys, Bodies, Replies, None

VARIABLES
  written,     \* bodies the submission has held
  remembered,  \* the outcome of each key
  told,        \* the answers clients were given
  contended    \* keys two requests have carried at once

contractVars == <<written, remembered, told, contended>>

Init ==
  /\ written = {}
  /\ remembered = [k \in Keys |-> None]
  /\ told = {}
  /\ contended = {}

Contend(k) ==
  /\ contended' = contended \cup {k}
  /\ UNCHANGED <<written, remembered, told>>

Write(b) ==
  /\ written' = written \cup {b}
  /\ UNCHANGED <<remembered, told, contended>>

\* The outcome of processing a body: a refusal, or a success once it is written.
Outcome(b, reply) == reply.code # "reused" /\ (reply.code = "ok" => b \in written)

Remember(k, b, reply) ==
  /\ remembered[k] = None
  /\ Outcome(b, reply)
  /\ remembered' = [remembered EXCEPT ![k] = [body |-> b, reply |-> reply]]
  /\ UNCHANGED <<written, told, contended>>

Answer(k, b, reply) ==
  /\ remembered[k] # None
  /\ \/ remembered[k] = [body |-> b, reply |-> reply]
     \/ remembered[k].body # b /\ reply.code = "reused"
     \/ k \in contended /\ Outcome(b, reply)
  /\ told' = told \cup {[key |-> k, body |-> b, reply |-> reply]}
  /\ UNCHANGED <<written, remembered, contended>>

Next ==
  \/ \E k \in Keys : Contend(k)
  \/ \E b \in Bodies : Write(b)
  \/ \E k \in Keys, b \in Bodies, reply \in Replies : Remember(k, b, reply) \/ Answer(k, b, reply)

Spec == Init /\ [][Next]_contractVars
=============================================================================
