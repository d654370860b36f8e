--------------------------- MODULE SessionEndpoint ---------------------------
(***************************************************************************)
(* handleCreateSession: the limiter of the caller's device and address,    *)
(* then CreateOrResumeSession. Both live in one process: a restart ends    *)
(* the requests and empties the limiter's map.                             *)
(***************************************************************************)
EXTENDS Sessions, RateLimiter

vars == <<sessionVars, limiterVars>>

Init == SessionsInit /\ LimiterInit

\* The request is let through.
CreateSession(r, c, t, k) == Admit(k) /\ Ask(r, c, t)

\* 429 and Retry-After: nothing else happens.
RateLimited(k) == Refuse(k) /\ UNCHANGED sessionVars

Next ==
  \/ \E r \in Requests, c \in Clients, t \in Tokens, k \in LimitKeys : CreateSession(r, c, t, k)
  \/ \E r \in Requests : Handle(r) /\ UNCHANGED limiterVars
  \/ \E k \in LimitKeys : RateLimited(k) \/ (Mark(k) /\ UNCHANGED sessionVars)
  \/ Tick /\ UNCHANGED sessionVars
  \/ Restart /\ Fresh /\ UNCHANGED now

Spec == Init /\ [][Next]_vars
=============================================================================
