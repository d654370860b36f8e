----------------------- MODULE SessionEndpoint_proofs -----------------------
(***************************************************************************)
(* Sessions are handed out whole, and as the registry promises, for any    *)
(* number of requests, sessions, clients and flow versions. The limiter    *)
(* keeps its types, its rate and its word, for any capacity, window and    *)
(* clock. Both hold of the endpoint that composes them.                    *)
(***************************************************************************)
EXTENDS SessionEndpoint, TLAPS

----------------------------------------------------------------------------
(* Sessions                                                                *)

USE SessionsAssumption

LEMMA TypeInit_S == SessionsInit => TypeOK
BY DEF SessionsInit, TypeOK, Versions, Tokens

LEMMA TypeStep_S == TypeOK /\ [SessionsNext]_sessionVars => TypeOK'
<1> SUFFICES ASSUME TypeOK, [SessionsNext]_sessionVars PROVE TypeOK'
  OBVIOUS
<1> USE DEF TypeOK, tableVars
<1>1. ASSUME NEW r \in Requests, NEW c \in Clients, NEW t \in Tokens, Ask(r, c, t) PROVE TypeOK'
  BY <1>1 DEF Ask, Goto
<1>2. ASSUME NEW r \in Requests, GetSessionByToken(r) PROVE TypeOK'
  BY <1>2 DEF GetSessionByToken, Goto
<1>3. ASSUME NEW r \in Requests, LookupFails(r) PROVE TypeOK'
  BY <1>3 DEF LookupFails, Goto
<1>4. ASSUME NEW r \in Requests, GetLatestFlowVersion(r) PROVE TypeOK'
  BY <1>4 DEF GetLatestFlowVersion, Goto
<1>5. ASSUME NEW r \in Requests, InsertSession(r) PROVE TypeOK'
  BY <1>5 DEF InsertSession, Goto, Tokens
<1>6. ASSUME NEW r \in Requests, InsertConflicts(r) PROVE TypeOK'
  BY <1>6 DEF InsertConflicts, Forget, Goto, Tokens, Versions
<1>7. ASSUME NEW r \in Requests, SetToken(r) PROVE TypeOK'
  <2>1. sess[r] \in SessionIds
    BY <1>7 DEF SetToken
  <2> QED
    BY <1>7, <2>1 DEF SetToken, Goto, Tokens
<1>8. ASSUME NEW r \in Requests, CapabilityGate(r) PROVE TypeOK'
  <2>1. sess[r] \in SessionIds /\ blocked[sess[r]] \in BOOLEAN /\ Gap(r) \in BOOLEAN
    BY <1>8 DEF CapabilityGate, Gap
  <2>2. blocked' \in [SessionIds -> BOOLEAN]
    BY <1>8, <2>1 DEF CapabilityGate
  <2> QED
    BY <1>8, <2>2 DEF CapabilityGate, Goto
<1>9. ASSUME NEW r \in Requests, Respond(r) PROVE TypeOK'
  <2>1. sess[r] \in SessionIds /\ client[r] \in Clients
    BY <1>9 DEF Respond
  <2>2. version' \in [SessionIds -> Versions]
    BY <1>9, <2>1 DEF Respond
  <2>3. answer' \in Answers
    <3>1. version'[sess[r]] \in Versions /\ blocked[sess[r]] \in BOOLEAN /\ sent[r] \in Tokens
      BY <2>1, <2>2
    <3> QED
      BY <1>9, <2>1, <3>1 DEF Respond, Answers
  <2> QED
    BY <1>9, <2>1, <2>2, <2>3 DEF Respond, Forget, Goto, Tokens, Versions
<1>10. ASSUME NEW r \in Requests, Fail(r) PROVE TypeOK'
  BY <1>10 DEF Fail, Forget, Goto, Tokens, Versions
<1>11. CASE Restart
  BY <1>11 DEF Restart, Tokens, Versions
<1>12. CASE UNCHANGED sessionVars
  BY <1>12 DEF sessionVars, requestVars
<1> QED
  BY <1>1, <1>2, <1>3, <1>4, <1>5, <1>6, <1>7, <1>8, <1>9, <1>10, <1>11, <1>12
     DEF SessionsNext, Handle

----------------------------------------------------------------------------
(* What makes a session whole and its own.                                 *)

Making == {"set_token", "gate", "created"}

\* A row's token is its own or none yet, and only one row has none yet.
RowInv ==
  /\ \A s \in SessionIds : token[s] \in {Nil, Empty, s}
  /\ \A s, q \in HalfMade : s = q
  /\ \A s \in given : token[s] = s

\* A request is making a session of its own, or has found the one it was sent for.
RequestInv ==
  \A r \in Requests :
    /\ sent[r] \in given \cup {Nil, Empty}
    /\ pc[r] = "lookup" => sent[r] \in given
    /\ pc[r] = "set_token" => token[sess[r]] = Empty
    /\ pc[r] \in {"gate", "created"} => token[sess[r]] = sess[r]
    /\ pc[r] = "resumed" => sess[r] = sent[r] /\ sess[r] \in given
    /\ pc[r] \in Making =>
         /\ sess[r] \notin given
         /\ \A q \in Requests : q # r /\ pc[q] \in Making => sess[q] # sess[r]
    /\ pc[r] \in Making \cup {"latest", "insert"} /\ sent[r] \in given => faults > 0

\* A new session was judged by the version that is still the latest.
GateInv ==
  \A r \in Requests :
    /\ pc[r] \in Making \cup {"insert"} => flow[r] = latest
    /\ pc[r] = "created" => blocked[sess[r]] \/ <<client[r], flow[r]>> \in Renders

AnswerInv ==
  answer # Nil =>
    /\ answer.sess \in given
    /\ answer.created => answer.forced \/ <<answer.client, answer.version>> \in Renders

IInv == TypeOK /\ RowInv /\ RequestInv /\ GateInv /\ AnswerInv /\ HalfMadeHasAnOwner

LEMMA IInvInit == SessionsInit => IInv
<1> SUFFICES ASSUME SessionsInit PROVE IInv
  OBVIOUS
<1>1. RowInv /\ RequestInv /\ GateInv /\ AnswerInv /\ HalfMadeHasAnOwner
  BY DEF SessionsInit, RowInv, RequestInv, GateInv, AnswerInv, HalfMadeHasAnOwner, HalfMade, Making
<1> QED
  BY <1>1, TypeInit_S DEF IInv

\* Steps that leave the tables and what was handed out alone, of one request.
LEMMA RequestStep ==
  ASSUME IInv, NEW r \in Requests,
         UNCHANGED <<latest, tableVars, given, answer>>, faults' \in {faults, faults + 1},
         \A q \in Requests \ {r} :
           /\ pc'[q] = pc[q] /\ client'[q] = client[q] /\ sent'[q] = sent[q]
           /\ sess'[q] = sess[q] /\ flow'[q] = flow[q],
         pc'[r] \notin Making, pc[r] # "set_token" \/ faults' = faults + 1,
         sent'[r] \in given \cup {Nil, Empty},
         pc'[r] = "lookup" => sent'[r] \in given,
         pc'[r] = "resumed" => sess'[r] = sent'[r] /\ sess'[r] \in given,
         pc'[r] \in {"latest", "insert"} /\ sent'[r] \in given => faults' > 0,
         pc'[r] = "insert" => flow'[r] = latest
  PROVE  RowInv' /\ RequestInv' /\ GateInv' /\ AnswerInv' /\ HalfMadeHasAnOwner'
<1> USE DEF IInv, tableVars
<1>1. RowInv'
  BY DEF RowInv, HalfMade
<1>0. faults \in Nat
  BY DEF TypeOK
<1>2. RequestInv'
  <2> SUFFICES ASSUME NEW q \in Requests
               PROVE  /\ sent'[q] \in given' \cup {Nil, Empty}
                      /\ pc'[q] = "lookup" => sent'[q] \in given'
                      /\ pc'[q] = "set_token" => token'[sess'[q]] = Empty
                      /\ pc'[q] \in {"gate", "created"} => token'[sess'[q]] = sess'[q]
                      /\ pc'[q] = "resumed" => sess'[q] = sent'[q] /\ sess'[q] \in given'
                      /\ pc'[q] \in Making =>
                           /\ sess'[q] \notin given'
                           /\ \A p \in Requests : p # q /\ pc'[p] \in Making => sess'[p] # sess'[q]
                      /\ pc'[q] \in Making \cup {"latest", "insert"} /\ sent'[q] \in given' => faults' > 0
    BY DEF RequestInv
  <2>1. CASE q = r
    BY <2>1 DEF Making
  <2>2. CASE q # r
    BY <1>0, <2>2 DEF RequestInv
  <2> QED
    BY <2>1, <2>2
<1>3. GateInv'
  BY DEF GateInv, Making
<1>4. AnswerInv'
  BY DEF AnswerInv
<1>5. HalfMadeHasAnOwner'
  BY <1>0 DEF HalfMadeHasAnOwner, HalfMade
<1> QED
  BY <1>1, <1>2, <1>3, <1>4, <1>5

LEMMA IInvStep == IInv /\ [SessionsNext]_sessionVars => IInv'
<1> SUFFICES ASSUME IInv, [SessionsNext]_sessionVars
             PROVE  RowInv' /\ RequestInv' /\ GateInv' /\ AnswerInv' /\ HalfMadeHasAnOwner'
  BY TypeStep_S DEF IInv
<1> DEFINE Goal == RowInv' /\ RequestInv' /\ GateInv' /\ AnswerInv' /\ HalfMadeHasAnOwner'
<1>t. TypeOK /\ TypeOK'
  BY TypeStep_S DEF IInv
<1>g. given \subseteq SessionIds /\ faults \in Nat
  BY <1>t DEF TypeOK
<1>1. ASSUME NEW r \in Requests, NEW c \in Clients, NEW t \in Tokens, Ask(r, c, t) PROVE Goal
  <2>1. t \in given \cup {Nil, Empty} /\ sent'[r] = t /\ pc'[r] \in {"lookup", "latest"}
    BY <1>1, <1>t DEF Ask, Goto, TypeOK
  <2>2. pc'[r] = "lookup" => t \in given
    BY <1>1, <1>t, <2>1 DEF Ask, Goto, ToLookup, TypeOK
  <2>3. pc'[r] = "latest" => t \notin given
    BY <1>1, <1>t, <1>g, <2>1 DEF Ask, Goto, ToLookup, TypeOK
  <2>4. pc[r] = "idle" /\ UNCHANGED <<latest, tableVars, sess, flow, given, answer, faults>>
    BY <1>1 DEF Ask
  <2>5. \A q \in Requests \ {r} : pc'[q] = pc[q] /\ client'[q] = client[q] /\ sent'[q] = sent[q]
    BY <1>1, <1>t DEF Ask, Goto, TypeOK
  <2> QED
    BY <2>1, <2>2, <2>3, <2>4, <2>5, RequestStep DEF Making
<1>2. ASSUME NEW r \in Requests, GetSessionByToken(r) PROVE Goal
  <2>1. PICK s \in SessionIds : token[s] = sent[r] /\ sess' = [sess EXCEPT ![r] = s]
    BY <1>2 DEF GetSessionByToken
  <2>2. sent[r] \in given
    BY <1>2 DEF GetSessionByToken, IInv, RequestInv
  <2>3. s = sent[r]
    BY <1>g, <2>1, <2>2 DEF IInv, RowInv
  <2>4. /\ pc[r] = "lookup" /\ pc'[r] = "resumed" /\ sess'[r] = s
        /\ UNCHANGED <<latest, tableVars, client, sent, flow, given, answer, faults>>
        /\ \A q \in Requests \ {r} : pc'[q] = pc[q] /\ sess'[q] = sess[q]
    BY <1>2, <1>t, <2>1 DEF GetSessionByToken, Goto, TypeOK
  <2> QED
    BY <2>2, <2>3, <2>4, RequestStep DEF Making, tableVars
<1>3. ASSUME NEW r \in Requests, LookupFails(r) PROVE Goal
  <2>1. /\ pc[r] = "lookup" /\ pc'[r] = "latest" /\ faults' = faults + 1 /\ faults' > 0
        /\ UNCHANGED <<latest, tableVars, client, sent, sess, flow, given, answer>>
        /\ \A q \in Requests \ {r} : pc'[q] = pc[q]
    BY <1>3, <1>t, <1>g DEF LookupFails, Goto, TypeOK
  <2>2. sent[r] \in given \cup {Nil, Empty}
    BY DEF IInv, RequestInv
  <2> QED
    BY <2>1, <2>2, RequestStep DEF Making, tableVars
<1>4. ASSUME NEW r \in Requests, GetLatestFlowVersion(r) PROVE Goal
  <2>1. /\ pc[r] = "latest" /\ pc'[r] = "insert" /\ flow'[r] = latest
        /\ UNCHANGED <<latest, tableVars, client, sent, sess, given, answer, faults>>
        /\ \A q \in Requests \ {r} : pc'[q] = pc[q] /\ flow'[q] = flow[q]
    BY <1>4, <1>t DEF GetLatestFlowVersion, Goto, TypeOK
  <2>2. sent[r] \in given \cup {Nil, Empty} /\ (sent[r] \in given => faults > 0)
    BY <2>1 DEF IInv, RequestInv
  <2> QED
    BY <2>1, <2>2, RequestStep DEF Making, tableVars
<1>5. ASSUME NEW r \in Requests, InsertSession(r) PROVE Goal
  <2>1. PICK s \in SessionIds :
          /\ token[s] = Nil
          /\ token' = [token EXCEPT ![s] = Empty]
          /\ version' = [version EXCEPT ![s] = flow[r]]
          /\ sess' = [sess EXCEPT ![r] = s]
    BY <1>5 DEF InsertSession
  <2>2. /\ pc[r] = "insert" /\ HalfMade = {} /\ pc' = [pc EXCEPT ![r] = "set_token"]
        /\ UNCHANGED <<latest, blocked, client, sent, flow, given, answer, faults>>
    BY <1>5 DEF InsertSession, Goto
  <2>3. s \notin given
    BY <1>g, <2>1 DEF IInv, RowInv
  <2>4. \A q \in Requests : pc[q] \in Making => sess[q] # s /\ sess[q] \in SessionIds
    BY <1>t, <2>1 DEF IInv, RequestInv, Making, TypeOK
  <2>5. HalfMade' = {s}
    BY <1>t, <2>1, <2>2 DEF HalfMade, TypeOK
  <2>6. RowInv'
    BY <1>t, <2>1, <2>2, <2>3, <2>5 DEF IInv, RowInv, TypeOK
  <2>7. RequestInv'
    <3> SUFFICES ASSUME NEW q \in Requests
                 PROVE  /\ sent'[q] \in given' \cup {Nil, Empty}
                        /\ pc'[q] = "lookup" => sent'[q] \in given'
                        /\ pc'[q] = "set_token" => token'[sess'[q]] = Empty
                        /\ pc'[q] \in {"gate", "created"} => token'[sess'[q]] = sess'[q]
                        /\ pc'[q] = "resumed" => sess'[q] = sent'[q] /\ sess'[q] \in given'
                        /\ pc'[q] \in Making =>
                             /\ sess'[q] \notin given'
                             /\ \A p \in Requests : p # q /\ pc'[p] \in Making => sess'[p] # sess'[q]
                        /\ pc'[q] \in Making \cup {"latest", "insert"} /\ sent'[q] \in given' => faults' > 0
      BY DEF RequestInv
    <3>1. CASE q = r
      BY <1>t, <2>1, <2>2, <2>3, <2>4, <3>1 DEF IInv, RequestInv, Making, TypeOK
    <3>2. CASE q # r
      <4>1. pc'[q] = pc[q] /\ sess'[q] = sess[q] /\ sent'[q] = sent[q] /\ sess'[r] = s
        BY <1>t, <2>1, <2>2, <3>2 DEF TypeOK
      <4>2. pc[q] \in Making => token'[sess[q]] = token[sess[q]]
        BY <1>t, <2>1, <2>4 DEF TypeOK
      <4>3. \A p \in Requests : p # q /\ pc'[p] \in Making /\ pc[q] \in Making => sess'[p] # sess[q]
        BY <1>t, <2>1, <2>2, <2>4 DEF IInv, RequestInv, TypeOK
      <4> QED
        BY <2>2, <4>1, <4>2, <4>3 DEF IInv, RequestInv, Making
    <3> QED
      BY <3>1, <3>2
  <2>8. GateInv'
    <3> SUFFICES ASSUME NEW q \in Requests
                 PROVE  /\ pc'[q] \in Making \cup {"insert"} => flow'[q] = latest'
                        /\ pc'[q] = "created" => blocked'[sess'[q]] \/ <<client'[q], flow'[q]>> \in Renders
      BY DEF GateInv
    <3>1. CASE q = r
      BY <1>t, <2>2, <3>1 DEF IInv, GateInv, TypeOK
    <3>2. CASE q # r
      <4>1. pc'[q] = pc[q] /\ sess'[q] = sess[q]
        BY <1>t, <2>1, <2>2, <3>2 DEF TypeOK
      <4> QED
        BY <2>2, <4>1 DEF IInv, GateInv
    <3> QED
      BY <3>1, <3>2
  <2>9. AnswerInv'
    BY <2>2 DEF IInv, AnswerInv
  <2>10. HalfMadeHasAnOwner'
    BY <1>t, <2>1, <2>2, <2>5 DEF HalfMadeHasAnOwner, TypeOK
  <2> QED
    BY <2>6, <2>7, <2>8, <2>9, <2>10
<1>6. ASSUME NEW r \in Requests, InsertConflicts(r) PROVE Goal
  <2>1. /\ pc[r] = "insert" /\ pc'[r] = "idle" /\ sent'[r] = Nil
        /\ UNCHANGED <<latest, tableVars, given, answer, faults>>
        /\ \A q \in Requests \ {r} :
             /\ pc'[q] = pc[q] /\ client'[q] = client[q] /\ sent'[q] = sent[q]
             /\ sess'[q] = sess[q] /\ flow'[q] = flow[q]
    BY <1>6, <1>t DEF InsertConflicts, Forget, Goto, TypeOK
  <2> QED
    BY <2>1, RequestStep DEF Making
<1>7. ASSUME NEW r \in Requests, SetToken(r) PROVE Goal
  <2>1. /\ pc[r] = "set_token" /\ pc' = [pc EXCEPT ![r] = "gate"]
        /\ token' = [token EXCEPT ![sess[r]] = sess[r]]
        /\ sess[r] \in SessionIds
        /\ UNCHANGED <<latest, version, blocked, client, sent, sess, flow, given, answer, faults>>
    BY <1>7, <1>t DEF SetToken, Goto, TypeOK
  <2>2. sess[r] \notin given /\ token[sess[r]] = Empty
    BY <2>1 DEF IInv, RequestInv, Making
  <2>3. HalfMade' = {}
    <3>1. HalfMade = {sess[r]}
      BY <2>1, <2>2 DEF IInv, RowInv, HalfMade
    <3>2. \A q \in SessionIds : token'[q] = IF q = sess[r] THEN q ELSE token[q]
      BY <1>t, <2>1 DEF TypeOK
    <3>3. sess[r] # Empty
      BY <2>1
    <3> QED
      BY <3>1, <3>2, <3>3 DEF HalfMade
  <2>4. RowInv'
    BY <1>t, <2>1, <2>2, <2>3 DEF IInv, RowInv, TypeOK
  <2>5. RequestInv'
    <3>1. \A q \in Requests : q # r /\ pc[q] \in Making => token'[sess[q]] = token[sess[q]]
      <4> SUFFICES ASSUME NEW q \in Requests, q # r, pc[q] \in Making
                   PROVE  token'[sess[q]] = token[sess[q]]
        OBVIOUS
      <4>1. sess[q] # sess[r] /\ sess[q] \in SessionIds
        BY <1>t, <2>1 DEF IInv, RequestInv, Making, TypeOK
      <4> QED
        BY <1>t, <2>1, <4>1 DEF TypeOK
    <3>2. token'[sess[r]] = sess[r]
      BY <1>t, <2>1 DEF TypeOK
    <3> QED
      BY <1>t, <2>1, <3>1, <3>2 DEF IInv, RequestInv, Making, TypeOK
  <2>6. GateInv'
    BY <1>t, <2>1 DEF IInv, GateInv, Making, TypeOK
  <2>7. AnswerInv' /\ HalfMadeHasAnOwner'
    BY <2>1, <2>3 DEF IInv, AnswerInv, HalfMadeHasAnOwner
  <2> QED
    BY <2>4, <2>5, <2>6, <2>7
<1>8. ASSUME NEW r \in Requests, CapabilityGate(r) PROVE Goal
  <2>1. /\ pc[r] = "gate" /\ pc' = [pc EXCEPT ![r] = "created"]
        /\ blocked' = [blocked EXCEPT ![sess[r]] = @ \/ Gap(r)]
        /\ sess[r] \in SessionIds
        /\ UNCHANGED <<latest, token, version, client, sent, sess, flow, given, answer, faults>>
    BY <1>8, <1>t DEF CapabilityGate, Goto, TypeOK
  <2>2. RowInv'
    BY <2>1 DEF IInv, RowInv, HalfMade
  <2>3. RequestInv'
    BY <1>t, <2>1 DEF IInv, RequestInv, Making, TypeOK
  <2>4. GateInv'
    <3> SUFFICES ASSUME NEW q \in Requests
                 PROVE  /\ pc'[q] \in Making \cup {"insert"} => flow'[q] = latest'
                        /\ pc'[q] = "created" => blocked'[sess'[q]] \/ <<client'[q], flow'[q]>> \in Renders
      BY DEF GateInv
    <3>1. CASE q = r
      <4>1. blocked'[sess[r]] = (blocked[sess[r]] \/ Gap(r))
        BY <1>t, <2>1 DEF TypeOK
      <4> QED
        BY <1>t, <2>1, <3>1, <4>1 DEF IInv, GateInv, Making, Gap, TypeOK
    <3>2. CASE q # r
      <4>1. pc'[q] = pc[q]
        BY <1>t, <2>1, <3>2 DEF TypeOK
      <4>2. pc[q] = "created" => sess[q] # sess[r] /\ sess[q] \in SessionIds
        BY <1>t, <2>1, <3>2 DEF IInv, RequestInv, Making, TypeOK
      <4>3. pc[q] = "created" => blocked'[sess[q]] = blocked[sess[q]]
        BY <1>t, <2>1, <4>2 DEF TypeOK
      <4> QED
        BY <2>1, <4>1, <4>3 DEF IInv, GateInv
    <3> QED
      BY <3>1, <3>2
  <2>5. AnswerInv'
    BY <2>1 DEF IInv, AnswerInv
  <2>6. HalfMadeHasAnOwner'
    BY <1>t, <2>1 DEF IInv, HalfMadeHasAnOwner, HalfMade, TypeOK
  <2> QED
    BY <2>2, <2>3, <2>4, <2>5, <2>6
<1>9. ASSUME NEW r \in Requests, Respond(r) PROVE Goal
  <2>1. /\ pc[r] \in {"created", "resumed"} /\ sess[r] \in SessionIds
        /\ version' = [version EXCEPT ![sess[r]] = IF blocked[sess[r]] THEN @ ELSE latest]
        /\ given' = given \cup {sess[r]}
        /\ UNCHANGED <<latest, token, blocked, faults>>
        /\ pc'[r] = "idle" /\ sent'[r] = Nil
        /\ \A q \in Requests \ {r} :
             /\ pc'[q] = pc[q] /\ client'[q] = client[q] /\ sent'[q] = sent[q]
             /\ sess'[q] = sess[q] /\ flow'[q] = flow[q]
    BY <1>9, <1>t DEF Respond, Forget, Goto, TypeOK
  <2>2. token[sess[r]] = sess[r]
    BY <2>1, <1>g DEF IInv, RequestInv, RowInv
  <2>3. RowInv'
    BY <2>1, <2>2 DEF IInv, RowInv, HalfMade
  <2>4. \A q \in Requests \ {r} : pc[q] \in Making => sess[q] \notin given'
    <3> SUFFICES ASSUME NEW q \in Requests \ {r}, pc[q] \in Making PROVE sess[q] # sess[r]
      BY <2>1 DEF IInv, RequestInv
    <3>1. CASE pc[r] = "created"
      BY <3>1 DEF IInv, RequestInv, Making
    <3>2. CASE pc[r] = "resumed"
      BY <3>2 DEF IInv, RequestInv
    <3> QED
      BY <2>1, <3>1, <3>2
  <2>5. \A q \in Requests \ {r} :
          pc[q] \in Making \cup {"latest", "insert"} /\ sent[q] \in given' => faults > 0
    <3> SUFFICES ASSUME NEW q \in Requests \ {r}, pc[q] \in Making \cup {"latest", "insert"},
                        sent[q] = sess[r], sent[q] \notin given
                 PROVE  FALSE
      BY <2>1 DEF IInv, RequestInv
    <3> QED
      BY <2>1 DEF IInv, RequestInv
  <2>6. RequestInv'
    <3> SUFFICES ASSUME NEW q \in Requests
                 PROVE  /\ sent'[q] \in given' \cup {Nil, Empty}
                        /\ pc'[q] = "lookup" => sent'[q] \in given'
                        /\ pc'[q] = "set_token" => token'[sess'[q]] = Empty
                        /\ pc'[q] \in {"gate", "created"} => token'[sess'[q]] = sess'[q]
                        /\ pc'[q] = "resumed" => sess'[q] = sent'[q] /\ sess'[q] \in given'
                        /\ pc'[q] \in Making =>
                             /\ sess'[q] \notin given'
                             /\ \A p \in Requests : p # q /\ pc'[p] \in Making => sess'[p] # sess'[q]
                        /\ pc'[q] \in Making \cup {"latest", "insert"} /\ sent'[q] \in given' => faults' > 0
      BY DEF RequestInv
    <3>1. CASE q = r
      BY <2>1, <3>1 DEF Making
    <3>2. CASE q # r
      <4>1. \A p \in Requests : p # q /\ pc'[p] \in Making /\ pc[q] \in Making => sess'[p] # sess'[q]
        BY <2>1, <3>2 DEF IInv, RequestInv, Making
      <4> QED
        BY <2>1, <2>4, <2>5, <3>2, <4>1 DEF IInv, RequestInv
    <3> QED
      BY <3>1, <3>2
  <2>7. GateInv'
    <3> SUFFICES ASSUME NEW q \in Requests
                 PROVE  /\ pc'[q] \in Making \cup {"insert"} => flow'[q] = latest'
                        /\ pc'[q] = "created" => blocked'[sess'[q]] \/ <<client'[q], flow'[q]>> \in Renders
      BY DEF GateInv
    <3>1. CASE q = r
      BY <2>1, <3>1 DEF Making
    <3>2. CASE q # r
      BY <1>t, <2>1, <3>2 DEF IInv, GateInv, TypeOK
    <3> QED
      BY <3>1, <3>2
  <2>8. AnswerInv'
    <3>1. answer' = [sent |-> sent[r], client |-> client[r], sess |-> sess[r], version |-> version'[sess[r]],
                     forced |-> blocked[sess[r]], created |-> pc[r] = "created"]
      BY <1>9 DEF Respond
    <3>2. version'[sess[r]] = IF blocked[sess[r]] THEN version[sess[r]] ELSE latest
      BY <1>t, <2>1 DEF TypeOK
    <3>3. pc[r] = "created" => blocked[sess[r]] \/ <<client[r], latest>> \in Renders
      BY DEF IInv, GateInv, Making
    <3> QED
      BY <2>1, <3>1, <3>2, <3>3 DEF AnswerInv
  <2>9. HalfMadeHasAnOwner'
    BY <1>t, <2>1 DEF IInv, HalfMadeHasAnOwner, HalfMade, TypeOK
  <2> QED
    BY <2>3, <2>6, <2>7, <2>8, <2>9
<1>10. ASSUME NEW r \in Requests, Fail(r) PROVE Goal
  <2>1. /\ pc'[r] = "idle" /\ sent'[r] = Nil /\ faults' = faults + 1
        /\ UNCHANGED <<latest, tableVars, given, answer>>
        /\ \A q \in Requests \ {r} :
             /\ pc'[q] = pc[q] /\ client'[q] = client[q] /\ sent'[q] = sent[q]
             /\ sess'[q] = sess[q] /\ flow'[q] = flow[q]
    BY <1>10, <1>t DEF Fail, Forget, Goto, TypeOK
  <2> QED
    BY <2>1, RequestStep DEF Making
<1>11. CASE Restart
  <2>1. RowInv' /\ AnswerInv'
    BY <1>11 DEF Restart, IInv, RowInv, AnswerInv, HalfMade, tableVars
  <2>2. RequestInv' /\ GateInv'
    BY <1>11 DEF Restart, RequestInv, GateInv, Making
  <2>3. HalfMadeHasAnOwner'
    BY <1>11, <1>g DEF Restart, HalfMadeHasAnOwner
  <2> QED
    BY <2>1, <2>2, <2>3
<1>12. CASE UNCHANGED sessionVars
  BY <1>12 DEF sessionVars, requestVars, tableVars, IInv, RowInv, RequestInv, GateInv, AnswerInv,
              HalfMadeHasAnOwner, HalfMade
<1> QED
  BY <1>1, <1>2, <1>3, <1>4, <1>5, <1>6, <1>7, <1>8, <1>9, <1>10, <1>11, <1>12
     DEF SessionsNext, Handle

----------------------------------------------------------------------------
(* The registry                                                            *)

\* Every step hands out what the registry may hand out, or nothing.
LEMMA RegistryStep ==
  IInv /\ [SessionsNext]_sessionVars => [Registry!Next]_Registry!registryVars
<1> SUFFICES ASSUME IInv, [SessionsNext]_sessionVars
             PROVE  [Registry!Next]_Registry!registryVars
  OBVIOUS
<1> USE DEF Registry!Next, Registry!registryVars
<1>t. TypeOK /\ given \subseteq SessionIds /\ faults \in Nat
  BY DEF IInv, TypeOK
<1>1. ASSUME NEW r \in Requests, Respond(r) PROVE [Registry!Next]_Registry!registryVars
  <2>1. answer' = [sent |-> sent[r], client |-> client[r], sess |-> sess[r], version |-> version'[sess[r]],
                   forced |-> blocked[sess[r]], created |-> pc[r] = "created"]
    BY <1>1 DEF Respond
  <2>2. sess[r] \in SessionIds /\ client[r] \in Clients /\ sent[r] \in Tokens
    BY <1>1, <1>t DEF Respond, TypeOK
  <2>3. version'[sess[r]] \in Versions /\ blocked[sess[r]] \in BOOLEAN
    BY <1>1, <1>t, <2>2, TypeStep_S DEF TypeOK
  <2>4. answer' \in Answers
    BY <2>1, <2>2, <2>3 DEF Answers
  <2>5. answer' # Nil
    BY <2>4
  <2>6. AnsweredWith' = sess[r] /\ AskedFor' = IF sent[r] = Empty THEN Nil ELSE sent[r]
    BY <2>1, <2>5 DEF AnsweredWith, AskedFor
  <2>7. given' = given \cup {sess[r]} /\ faults' = faults /\ pc[r] \in {"created", "resumed"}
    BY <1>1 DEF Respond
  <2>8. sent[r] \in given \cup {Nil, Empty}
    BY DEF IInv, RequestInv
  <2>9. CASE pc[r] = "created"
    <3>1. sess[r] \notin given /\ (sent[r] \in given => faults > 0)
      BY <2>9 DEF IInv, RequestInv, Making
    <3>2. Registry!Open(sess[r])
      BY <1>t, <2>6, <2>7, <2>8, <3>1 DEF Registry!Open
    <3> QED
      BY <2>2, <3>2
  <2>10. CASE pc[r] = "resumed"
    <3>1. sess[r] = sent[r] /\ sess[r] \in given
      BY <2>10 DEF IInv, RequestInv
    <3>2. Registry!Resume(sess[r])
      BY <1>t, <2>6, <2>7, <3>1 DEF Registry!Resume
    <3> QED
      BY <2>2, <3>2
  <2> QED
    BY <2>7, <2>9, <2>10
<1>2. ASSUME faults' = faults + 1, UNCHANGED <<given, answer>>
      PROVE  [Registry!Next]_Registry!registryVars
  <2>1. (faults > 0)' = TRUE /\ AskedFor' = AskedFor /\ AnsweredWith' = AnsweredWith
    BY <1>2, <1>t DEF AskedFor, AnsweredWith
  <2> QED
    BY <1>2, <2>1 DEF Registry!Fault
<1>3. ASSUME UNCHANGED <<given, answer, faults>> PROVE [Registry!Next]_Registry!registryVars
  BY <1>3 DEF AskedFor, AnsweredWith
<1>4. ASSUME NEW r \in Requests, LookupFails(r) \/ Fail(r) PROVE [Registry!Next]_Registry!registryVars
  BY <1>2, <1>4 DEF LookupFails, Fail
<1>5. ASSUME NEW r \in Requests,
             \/ \E c \in Clients, t \in Tokens : Ask(r, c, t)
             \/ GetSessionByToken(r) \/ GetLatestFlowVersion(r) \/ InsertSession(r)
             \/ InsertConflicts(r) \/ SetToken(r) \/ CapabilityGate(r)
      PROVE  [Registry!Next]_Registry!registryVars
  BY <1>3, <1>5 DEF Ask, GetSessionByToken, GetLatestFlowVersion, InsertSession, InsertConflicts,
                    SetToken, CapabilityGate
<1>6. CASE Restart
  BY <1>2, <1>6 DEF Restart
<1>7. CASE UNCHANGED sessionVars
  BY <1>3, <1>7 DEF sessionVars
<1> QED
  BY <1>1, <1>4, <1>5, <1>6, <1>7 DEF SessionsNext, Handle

----------------------------------------------------------------------------
(* The endpoint: every step is one of the sessions and one of the limiter. *)

LEMMA EndpointStep ==
  [Next]_vars => [SessionsNext]_sessionVars /\ [LimiterNext]_limiterVars
BY DEF Next, vars, SessionsNext, LimiterNext, CreateSession, RateLimited, limiterVars

LEMMA EndpointInvariant == Spec => []IInv
BY IInvInit, IInvStep, EndpointStep, PTL DEF Spec, Init

\* Every variable of the sessions keeps its type (sessions and its requests).
THEOREM TypeCorrect == Spec => []TypeOK
BY EndpointInvariant, PTL DEF IInv

\* Unless a call failed, a row without a token has a request that will give it
\* one (CreateSession's two statements).
THEOREM HalfMadeIsOwned == Spec => []HalfMadeHasAnOwner
BY EndpointInvariant, PTL DEF IInv

\* A session is handed out with its own token, and a new one with a flow its
\* client can render or told to update (CreateOrResumeSession).
THEOREM SessionsAreWhole == Spec => []HandedOutWhole
<1>1. IInv => HandedOutWhole
  BY DEF IInv, AnswerInv, RowInv, HandedOutWhole
<1> QED
  BY <1>1, EndpointInvariant, PTL

\* However creations, resumes, failures and restarts overlap, sessions are
\* handed out as the registry promises.
THEOREM EndpointImplementsRegistry == Spec => ImplementsRegistry
<1>1. SessionsInit => Registry!Init
  BY DEF SessionsInit, Registry!Init, AskedFor, AnsweredWith
<1> QED
  BY <1>1, EndpointInvariant, RegistryStep, EndpointStep, PTL
     DEF Spec, Init, ImplementsRegistry, Registry!Spec

----------------------------------------------------------------------------
(* The limiter                                                             *)

USE LimiterAssumption

LEMMA FullIsNat == Full \in Nat /\ Window <= Full
<1>1. Full \in Nat
  BY DEF Full
<1>2. PICK c \in Nat : Capacity = c + 1
  <2>1. Capacity - 1 \in Nat /\ Capacity = (Capacity - 1) + 1
    OBVIOUS
  <2> QED
    BY <2>1
<1>3. Full = c * Window + Window /\ c * Window \in Nat
  BY <1>2 DEF Full
<1> QED
  BY <1>1, <1>3

\* What has refilled by now is a number of parts, at most a full bucket.
LEMMA RefilledIsBounded ==
  ASSUME LimiterTypeOK, NEW k \in LimitKeys
  PROVE  Refilled(k) \in 0..Full
<1>1. now - buckets[k].lastRefill \in Nat
  BY DEF LimiterTypeOK
<1>2. (now - buckets[k].lastRefill) * Capacity \in Nat
  BY <1>1
<1>3. buckets[k].tokens \in Nat
  BY FullIsNat DEF LimiterTypeOK
<1> QED
  BY <1>2, <1>3, FullIsNat DEF Refilled

LEMMA NextRefilledIsBounded ==
  ASSUME LimiterTypeOK', NEW k \in LimitKeys
  PROVE  Refilled(k)' \in 0..Full
<1>1. (now - buckets[k].lastRefill)' \in Nat
  BY DEF LimiterTypeOK
<1>2. ((now - buckets[k].lastRefill) * Capacity)' \in Nat
  BY <1>1
<1>3. (buckets[k].tokens)' \in Nat
  BY FullIsNat DEF LimiterTypeOK
<1> QED
  BY <1>2, <1>3, FullIsNat DEF Refilled

LEMMA DueIsNat ==
  ASSUME LimiterTypeOK, NEW k \in LimitKeys
  PROVE  Due(k) \in Nat
<1>1. hint[k].at \in Nat /\ hint[k].seconds \in Nat
  BY DEF LimiterTypeOK
<1>2. (hint[k].seconds + 1) * Second \in Nat
  BY <1>1
<1> QED
  BY <1>1, <1>2 DEF Due

LEMMA RetryAfterIsNat ==
  ASSUME NEW tokens \in Nat
  PROVE  RetryAfter(tokens) \in Nat \ {0}
<1>1. Capacity * Second \in Nat \ {0}
  OBVIOUS
<1>2. (Window - tokens) \div (Capacity * Second) \in Int
  BY <1>1
<1> QED
  BY <1>2 DEF RetryAfter

\* A tick adds a tick's tokens, up to a full bucket.
LEMMA TickRefills ==
  ASSUME LimiterTypeOK, Tick, NEW k \in LimitKeys
  PROVE  Refilled(k)' = IF Refilled(k) + Capacity < Full THEN Refilled(k) + Capacity ELSE Full
<1> DEFINE d == now - buckets[k].lastRefill
<1>1. d \in Nat /\ buckets[k].tokens \in Nat /\ now \in Nat /\ buckets[k].lastRefill \in Nat
  BY FullIsNat DEF LimiterTypeOK
<1>2. now' - buckets'[k].lastRefill = d + 1 /\ buckets'[k].tokens = buckets[k].tokens
  <2>1. now' = now + 1 /\ buckets' = buckets
    BY DEF Tick
  <2> QED
    BY <1>1, <2>1
<1>3. (d + 1) * Capacity = d * Capacity + Capacity /\ d * Capacity \in Nat
  BY <1>1
<1>4. Refilled(k) = IF buckets[k].tokens + d * Capacity < Full
                    THEN buckets[k].tokens + d * Capacity ELSE Full
  BY DEF Refilled
<1>5. Refilled(k)' = IF buckets[k].tokens + (d + 1) * Capacity < Full
                     THEN buckets[k].tokens + (d + 1) * Capacity ELSE Full
  BY <1>2 DEF Refilled
<1> HIDE DEF d
<1> QED
  BY <1>1, <1>3, <1>4, <1>5, FullIsNat

\* A bucket set now has what it was set to.
LEMMA SetNow ==
  ASSUME NEW k \in LimitKeys, NEW t \in 0..Full, now \in Nat, now' = now,
         buckets'[k] = [tokens |-> t, lastRefill |-> now]
  PROVE  Refilled(k)' = t
<1>1. (now' - buckets'[k].lastRefill) * Capacity = 0
  OBVIOUS
<1> QED
  BY <1>1, FullIsNat DEF Refilled

----------------------------------------------------------------------------
LEMMA TypeInit == LimiterInit => LimiterTypeOK
BY FullIsNat DEF LimiterInit, LimiterTypeOK, NoHint

LEMMA TypeStep == LimiterTypeOK /\ [LimiterNext]_limiterVars => LimiterTypeOK'
<1> SUFFICES ASSUME LimiterTypeOK, [LimiterNext]_limiterVars PROVE LimiterTypeOK'
  OBVIOUS
<1>1. ASSUME NEW k \in LimitKeys, Admit(k) PROVE LimiterTypeOK'
  <2>1. Refilled(k) - Window \in 0..Full
    BY <1>1, RefilledIsBounded, FullIsNat DEF Admit
  <2> QED
    BY <1>1, <2>1 DEF LimiterTypeOK, Admit, NoHint
<1>2. ASSUME NEW k \in LimitKeys, Refuse(k) PROVE LimiterTypeOK'
  <2>1. Refilled(k) \in 0..Full /\ RetryAfter(Refilled(k)) \in Nat
    BY RefilledIsBounded, RetryAfterIsNat, FullIsNat
  <2> QED
    BY <1>2, <2>1 DEF LimiterTypeOK, Refuse
<1>3. ASSUME NEW k \in LimitKeys, Mark(k) PROVE LimiterTypeOK'
  BY <1>3 DEF LimiterTypeOK, Mark
<1>4. CASE Tick
  BY <1>4 DEF LimiterTypeOK, Tick
<1>5. CASE Fresh /\ UNCHANGED now
  BY <1>5, FullIsNat DEF LimiterTypeOK, Fresh, NoHint
<1>6. CASE UNCHANGED limiterVars
  BY <1>6 DEF LimiterTypeOK, limiterVars
<1> QED
  BY <1>1, <1>2, <1>3, <1>4, <1>5, <1>6 DEF LimiterNext

\* Every variable of the limiter keeps its type (ratelimit.go's buckets).
THEOREM LimiterTypeCorrect == LimiterSpec => []LimiterTypeOK
BY TypeInit, TypeStep, PTL DEF LimiterSpec

----------------------------------------------------------------------------
(* The rate: what was admitted since the mark and what is left came from a *)
(* full bucket and the time since.                                         *)
RateInv ==
  \A k \in LimitKeys :
    mark[k].admitted * Window + Refilled(k) <= Full + (now - mark[k].at) * Capacity

LEMMA RateInit == LimiterInit => RateInv
<1> SUFFICES ASSUME LimiterInit, NEW k \in LimitKeys
             PROVE  mark[k].admitted * Window + Refilled(k) <= Full + (now - mark[k].at) * Capacity
  BY DEF RateInv
<1>1. Refilled(k) \in 0..Full
  BY TypeInit, RefilledIsBounded
<1>2. mark[k].admitted * Window = 0 /\ (now - mark[k].at) * Capacity = 0
  BY DEF LimiterInit
<1> QED
  BY <1>1, <1>2, FullIsNat

LEMMA RateStep ==
  LimiterTypeOK /\ RateInv /\ [LimiterNext]_limiterVars => RateInv'
<1> SUFFICES ASSUME LimiterTypeOK, RateInv, [LimiterNext]_limiterVars, NEW k \in LimitKeys
             PROVE  (mark[k].admitted * Window + Refilled(k)
                       <= Full + (now - mark[k].at) * Capacity)'
  BY DEF RateInv
<1>t. LimiterTypeOK'
  BY TypeStep
<1>r. /\ Refilled(k) \in 0..Full /\ Refilled(k)' \in 0..Full
      /\ mark[k].admitted \in Nat /\ mark[k].at \in Nat /\ now \in Nat /\ mark[k].at <= now
  <2>1. Refilled(k) \in 0..Full /\ Refilled(k)' \in 0..Full
    BY <1>t, RefilledIsBounded, NextRefilledIsBounded
  <2> QED
    BY <2>1 DEF LimiterTypeOK
<1> DEFINE a == mark[k].admitted
           e == now - mark[k].at
<1>n. a \in Nat /\ e \in Nat /\ a * Window \in Nat /\ e * Capacity \in Nat
  BY <1>r
<1>i. a * Window + Refilled(k) <= Full + e * Capacity
  BY DEF RateInv
<1>u. CASE UNCHANGED now /\ UNCHANGED mark[k] /\ UNCHANGED buckets[k]
  BY <1>u, <1>i DEF Refilled
<1>1. ASSUME NEW j \in LimitKeys, Admit(j) PROVE (a * Window + Refilled(k) <= Full + e * Capacity)'
  <2>1. CASE j = k
    <3>1. Refilled(k) - Window \in 0..Full
      BY <1>1, <1>r, <2>1, FullIsNat DEF Admit
    <3>2. Refilled(k)' = Refilled(k) - Window
      BY <1>1, <1>r, <2>1, <3>1, SetNow DEF Admit, LimiterTypeOK
    <3>3. a' = a + 1 /\ e' = e
      BY <1>1, <2>1 DEF Admit, LimiterTypeOK
    <3>4. (a + 1) * Window = a * Window + Window
      BY <1>n
    <3> HIDE DEF a, e
    <3> QED
      BY <1>i, <1>n, <1>r, <3>2, <3>3, <3>4, FullIsNat
  <2> QED
    BY <1>1, <1>u, <2>1 DEF Admit, LimiterTypeOK
<1>2. ASSUME NEW j \in LimitKeys, Refuse(j) PROVE (a * Window + Refilled(k) <= Full + e * Capacity)'
  <2>1. CASE j = k
    <3>1. Refilled(k)' = Refilled(k)
      BY <1>2, <1>r, <2>1, SetNow DEF Refuse, LimiterTypeOK
    <3>2. a' = a /\ e' = e
      BY <1>2 DEF Refuse
    <3> QED
      BY <1>i, <3>1, <3>2
  <2> QED
    BY <1>2, <1>u, <2>1 DEF Refuse, LimiterTypeOK
<1>3. ASSUME NEW j \in LimitKeys, Mark(j) PROVE (a * Window + Refilled(k) <= Full + e * Capacity)'
  <2>1. CASE j = k
    <3>1. a' = 0 /\ e' = 0
      BY <1>3, <1>r, <2>1 DEF Mark, LimiterTypeOK
    <3>2. a' * Window = 0 /\ e' * Capacity = 0
      BY <3>1
    <3> HIDE DEF a, e
    <3> QED
      BY <1>r, <3>2, FullIsNat
  <2> QED
    BY <1>3, <1>u, <2>1 DEF Mark, LimiterTypeOK
<1>4. CASE Tick
  <2>1. a' = a /\ e' = e + 1
    BY <1>4, <1>r DEF Tick
  <2>2. (e + 1) * Capacity = e * Capacity + Capacity
    BY <1>n
  <2>3. Refilled(k)' <= Refilled(k) + Capacity
    BY <1>4, <1>r, TickRefills, FullIsNat
  <2>4. a' * Window = a * Window /\ e' * Capacity = e * Capacity + Capacity
    BY <2>1, <2>2
  <2>5. (a * Window + Refilled(k) <= Full + e * Capacity)'
    <3> HIDE DEF a, e
    <3> QED
      BY <1>i, <1>n, <1>r, <2>3, <2>4, FullIsNat
  <2> QED
    BY <2>5
<1>5. CASE Fresh /\ UNCHANGED now
  <2>1. a' = 0 /\ e' = 0
    BY <1>5, <1>r DEF Fresh
  <2>2. a' * Window = 0 /\ e' * Capacity = 0
    BY <2>1
  <2>3. (a * Window + Refilled(k) <= Full + e * Capacity)'
    <3> HIDE DEF a, e
    <3> QED
      BY <1>r, <2>2, FullIsNat
  <2> QED
    BY <2>3
<1>6. CASE UNCHANGED limiterVars
  BY <1>6, <1>u DEF limiterVars
<1> QED
  BY <1>1, <1>2, <1>3, <1>4, <1>5, <1>6 DEF LimiterNext

\* From any moment on, a key is admitted within its rate (Allow's tokens).
THEOREM RateIsKept == LimiterSpec => []AdmittedWithinRate
<1>1. LimiterTypeOK /\ RateInv => AdmittedWithinRate
  <2> SUFFICES ASSUME LimiterTypeOK, RateInv, NEW k \in LimitKeys
               PROVE  mark[k].admitted * Window <= Full + (now - mark[k].at) * Capacity
    BY DEF AdmittedWithinRate
  <2>1. Refilled(k) \in 0..Full
    BY RefilledIsBounded
  <2>2. mark[k].admitted * Window \in Int /\ (now - mark[k].at) * Capacity \in Int
    BY DEF LimiterTypeOK
  <2> QED
    BY <2>1, <2>2, FullIsNat DEF RateInv
<1> QED
  BY <1>1, RateInit, RateStep, LimiterTypeCorrect, PTL DEF LimiterSpec

----------------------------------------------------------------------------
(* The hint: until it is due, the key lacks no more than the time that is  *)
(* left refills.                                                           *)
HintInv ==
  \A k \in LimitKeys :
    hint[k] # NoHint =>
      Refilled(k) >= Window \/ Refilled(k) + (Due(k) - now) * Capacity >= Window

LEMMA RoundedDown ==
  ASSUME NEW m \in Nat, NEW n \in Nat \ {0}
  PROVE  m <= ((m \div n) + 1) * n
<1>1. m = n * (m \div n) + (m % n) /\ m % n \in 0..n - 1 /\ m \div n \in Nat
  OBVIOUS
<1>2. ((m \div n) + 1) * n = n * (m \div n) + n
  BY <1>1
<1> QED
  BY <1>1, <1>2

\* A refusal's hint is long enough, up to the second that is rounded away.
LEMMA HintIsEnough ==
  ASSUME NEW t \in Nat, t < Window
  PROVE  Window <= t + ((RetryAfter(t) + 1) * Second) * Capacity
<1> DEFINE m == Window - t
           n == Capacity * Second
           q == m \div n
           s == RetryAfter(t)
<1>1. m \in Nat /\ n \in Nat \ {0}
  OBVIOUS
<1>2. q \in Nat /\ m <= (q + 1) * n
  <2> HIDE DEF m, n
  <2> QED
    BY <1>1, RoundedDown
<1>3. s \in Nat /\ s >= q
  BY <1>2 DEF RetryAfter
<1>4. (q + 1) * n <= (s + 1) * n
  <2>1. PICK x \in Nat : s = q + x
    <3>1. s - q \in Nat /\ s = q + (s - q)
      BY <1>2, <1>3
    <3> QED
      BY <3>1
  <2>2. (s + 1) * n = (q + 1) * n + x * n /\ x * n \in Nat /\ (q + 1) * n \in Nat
    <3> HIDE DEF n, q, s
    <3> QED
      BY <1>1, <1>2, <2>1
  <2> HIDE DEF n, q, s
  <2> QED
    BY <2>2
<1>5. ((s + 1) * Second) * Capacity = (s + 1) * n
  <2> HIDE DEF s
  <2> QED
    BY <1>3
<1> HIDE DEF n, q, s
<1>6. (s + 1) * n \in Nat /\ (q + 1) * n \in Nat
  BY <1>1, <1>2, <1>3
<1>7. Window - t <= (s + 1) * n
  BY <1>1, <1>2, <1>4, <1>6
<1> QED
  BY <1>5, <1>6, <1>7 DEF s

LEMMA HintStep ==
  LimiterTypeOK /\ HintInv /\ [LimiterNext]_limiterVars => HintInv'
<1> SUFFICES ASSUME LimiterTypeOK, HintInv, [LimiterNext]_limiterVars,
                    NEW k \in LimitKeys, hint'[k] # NoHint
             PROVE  (Refilled(k) >= Window \/ Refilled(k) + (Due(k) - now) * Capacity >= Window)'
  BY DEF HintInv
<1> DEFINE Goal == (Refilled(k) >= Window \/ Refilled(k) + (Due(k) - now) * Capacity >= Window)'
<1>r. Refilled(k) \in 0..Full /\ now \in Nat
  BY RefilledIsBounded DEF LimiterTypeOK
<1>d. Due(k) \in Nat
  BY DueIsNat
<1>u. CASE UNCHANGED now /\ UNCHANGED hint[k] /\ UNCHANGED buckets[k]
  BY <1>u DEF HintInv, Refilled, Due
<1>1. ASSUME NEW j \in LimitKeys, Admit(j) PROVE Goal
  <2>1. j # k
    BY <1>1 DEF Admit, LimiterTypeOK
  <2> QED
    BY <1>1, <1>u, <2>1 DEF Admit, LimiterTypeOK
<1>2. ASSUME NEW j \in LimitKeys, Refuse(j) PROVE Goal
  <2>1. CASE j = k /\ hint[k] = NoHint
    <3>1. Refilled(k)' = Refilled(k) /\ Refilled(k) < Window /\ now' = now
      BY <1>2, <1>r, <2>1, SetNow DEF Refuse, LimiterTypeOK
    <3>2. hint'[k] = [at |-> now, seconds |-> RetryAfter(Refilled(k))]
      BY <1>2, <2>1 DEF Refuse, LimiterTypeOK
    <3> DEFINE s == RetryAfter(Refilled(k))
    <3>3. s \in Nat
      BY <1>r, RetryAfterIsNat, FullIsNat
    <3>4. Due(k)' - now' = (s + 1) * Second
      <4>1. Due(k)' = now + (s + 1) * Second
        BY <3>2 DEF Due
      <4>2. (s + 1) * Second \in Nat
        BY <3>3
      <4> HIDE DEF s
      <4> QED
        BY <1>r, <3>1, <4>1, <4>2
    <3>5. Window <= Refilled(k) + ((s + 1) * Second) * Capacity
      BY <1>r, <3>1, HintIsEnough, FullIsNat
    <3>6. ((s + 1) * Second) * Capacity \in Nat
      BY <3>3
    <3> HIDE DEF s
    <3> QED
      BY <1>r, <3>1, <3>4, <3>5, <3>6, FullIsNat
  <2>2. CASE j = k /\ hint[k] # NoHint
    <3>1. Refilled(k)' = Refilled(k) /\ now' = now /\ hint'[k] = hint[k]
      BY <1>2, <1>r, <2>2, SetNow DEF Refuse, LimiterTypeOK
    <3> QED
      BY <2>2, <3>1 DEF HintInv, Due
  <2> QED
    BY <1>2, <1>u, <2>1, <2>2 DEF Refuse, LimiterTypeOK
<1>3. ASSUME NEW j \in LimitKeys, Mark(j) PROVE Goal
  BY <1>3, <1>u DEF Mark
<1>4. CASE Tick
  <2>1. hint'[k] = hint[k] /\ now' = now + 1 /\ Due(k)' = Due(k)
    BY <1>4 DEF Tick, Due
  <2> DEFINE w == Due(k) - now
  <2>2. w \in Int /\ Due(k)' - now' = w - 1
    BY <1>d, <1>r, <2>1
  <2>3. (w - 1) * Capacity = w * Capacity - Capacity /\ w * Capacity \in Int
    BY <2>2
  <2>4. Refilled(k) >= Window \/ Refilled(k) + w * Capacity >= Window
    BY <2>1 DEF HintInv
  <2>5. Refilled(k)' = IF Refilled(k) + Capacity < Full THEN Refilled(k) + Capacity ELSE Full
    BY <1>4, TickRefills
  <2> HIDE DEF w
  <2> QED
    BY <1>r, <2>2, <2>3, <2>4, <2>5, FullIsNat
<1>5. CASE Fresh /\ UNCHANGED now
  BY <1>5 DEF Fresh
<1>6. CASE UNCHANGED limiterVars
  BY <1>6, <1>u DEF limiterVars
<1> QED
  BY <1>1, <1>2, <1>3, <1>4, <1>5, <1>6 DEF LimiterNext

\* A refused key that waits its Retry-After and a second more is admitted,
\* however often it was tried meanwhile (Allow's hint, rounded down).
THEOREM HintIsKept == LimiterSpec => []WaitingIsEnough
<1>1. LimiterInit => HintInv
  BY DEF LimiterInit, HintInv
<1>2. LimiterTypeOK /\ HintInv => WaitingIsEnough
  <2> SUFFICES ASSUME LimiterTypeOK, HintInv, NEW k \in LimitKeys,
                      hint[k] # NoHint, now >= Due(k)
               PROVE  Refilled(k) >= Window
    BY DEF WaitingIsEnough
  <2>1. Refilled(k) \in 0..Full /\ now \in Nat /\ Due(k) \in Nat
    BY RefilledIsBounded, DueIsNat DEF LimiterTypeOK
  <2>2. PICK x \in Nat : now = Due(k) + x
    <3>1. now - Due(k) \in Nat /\ now = Due(k) + (now - Due(k))
      BY <2>1
    <3> QED
      BY <3>1
  <2>3. (Due(k) - now) * Capacity = -(x * Capacity) /\ x * Capacity \in Nat
    BY <2>1, <2>2
  <2> QED
    BY <2>1, <2>3, FullIsNat DEF HintInv
<1> QED
  BY <1>1, <1>2, HintStep, LimiterTypeCorrect, PTL DEF LimiterSpec

----------------------------------------------------------------------------
(* The endpoint                                                            *)

\* Behind the endpoint, the limiter keeps its rate and its word.
THEOREM EndpointKeepsRate == Spec => [](AdmittedWithinRate /\ WaitingIsEnough)
<1>1. Spec => LimiterSpec
  BY EndpointStep, PTL DEF Spec, Init, LimiterSpec
<1> QED
  BY <1>1, RateIsKept, HintIsKept, PTL
=============================================================================
