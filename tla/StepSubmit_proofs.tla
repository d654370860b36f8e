-------------------------- MODULE StepSubmit_proofs --------------------------
(***************************************************************************)
(* What StepSubmit keeps true for any number of requests, keys, bodies and *)
(* moments of the world, and whichever bodies are acceptable when.         *)
(***************************************************************************)
EXTENDS StepSubmit, TLAPS

----------------------------------------------------------------------------
(* Type correctness                                                        *)

(* Every variable keeps its type: what is saved under a key is the request's *)
(* body and an answer that was given.                                       *)
THEOREM TypeCorrect == Spec => []TypeOK
<1> USE SubmitAssumption
<1>1. Init => TypeOK
  BY DEF Init, TypeOK
<1>2. TypeOK /\ [Next]_vars => TypeOK'
  <2> SUFFICES ASSUME TypeOK, [Next]_vars PROVE TypeOK'
    OBVIOUS
  <2> USE DEF TypeOK, Goto, Forget, Conclude, requestVars, Results, Codes
  <2>1. ASSUME NEW r \in Requests, NEW k \in Keys, NEW b \in Bodies, Receive(r, k, b)
        PROVE  TypeOK'
    BY <2>1 DEF Receive
  <2>2. ASSUME NEW r \in Requests, GetIdempotencyRecord(r) PROVE TypeOK'
    <3>1. CASE records[key[r]] = None /\ Goto(r, "validate") /\ UNCHANGED <<key, body, result>>
      BY <2>2, <3>1 DEF GetIdempotencyRecord
    <3>2. CASE Conclude(r, "reused", "respond")
      BY <2>2, <3>2 DEF GetIdempotencyRecord
    <3>3. CASE /\ records[key[r]] # None
               /\ result' = [result EXCEPT ![r] = records[key[r]].reply]
               /\ Goto(r, "respond")
               /\ UNCHANGED <<key, body>>
      <4>1. records[key[r]].reply \in Results
        BY <2>2, <3>3 DEF GetIdempotencyRecord, Records
      <4>2. QED BY <2>2, <3>3, <4>1 DEF GetIdempotencyRecord
    <3>4. QED BY <2>2, <3>1, <3>2, <3>3 DEF GetIdempotencyRecord
  <2>3. ASSUME NEW r \in Requests, Validate(r) PROVE TypeOK'
    <3>1. CASE Goto(r, "upsert") /\ UNCHANGED <<key, body, result>>
      BY <2>3, <3>1 DEF Validate
    <3>2. CASE Conclude(r, "refused", "save")
      BY <2>3, <3>2 DEF Validate
    <3>3. QED BY <2>3, <3>1, <3>2 DEF Validate
  <2>4. ASSUME NEW r \in Requests, UpsertStepSubmission(r) PROVE TypeOK'
    BY <2>4 DEF UpsertStepSubmission
  <2>5. ASSUME NEW r \in Requests, BuildEnvelope(r) PROVE TypeOK'
    BY <2>5 DEF BuildEnvelope
  <2>6. ASSUME NEW r \in Requests, SaveIdempotencyRecord(r) PROVE TypeOK'
    <3>1. [body |-> body[r], reply |-> result[r]] \in Records
      BY <2>6 DEF SaveIdempotencyRecord, Records
    <3>2. QED BY <2>6, <3>1 DEF SaveIdempotencyRecord
  <2>7. ASSUME NEW r \in Requests, Respond(r) PROVE TypeOK'
    BY <2>7 DEF Respond
  <2>8. ASSUME NEW r \in Requests, Fail(r) PROVE TypeOK'
    BY <2>8 DEF Fail
  <2>9. CASE WorldMoves
    BY <2>9 DEF WorldMoves
  <2>10. CASE UNCHANGED vars
    BY <2>10 DEF vars
  <2>11. QED
    BY <2>1, <2>2, <2>3, <2>4, <2>5, <2>6, <2>7, <2>8, <2>9, <2>10 DEF Next
<1>3. QED BY <1>1, <1>2, PTL DEF Spec

----------------------------------------------------------------------------
(* A success was stored                                                    *)

(* The body of a request is written before its envelope is built, so a      *)
(* request that carries a success on its way to the record or to the client *)
(* carries a body that was written.                                         *)
StoredInv ==
  /\ SuccessWasStored
  /\ \A r \in Requests : pc[r] = "envelope" => body[r] \in stored
  /\ \A r \in Requests :
       pc[r] \in {"save", "respond"} => (result[r].code = "ok" => body[r] \in stored)

LEMMA StoredInvStep == TypeOK /\ StoredInv /\ [Next]_vars => StoredInv'
<1> SUFFICES ASSUME TypeOK, StoredInv, [Next]_vars PROVE StoredInv'
  OBVIOUS
<1> USE DEF StoredInv, SuccessWasStored, TypeOK, Goto, Forget, Conclude, requestVars
<1>1. ASSUME NEW r \in Requests, NEW k \in Keys, NEW b \in Bodies, Receive(r, k, b)
      PROVE  StoredInv'
  BY <1>1 DEF Receive
<1>2. ASSUME NEW r \in Requests, GetIdempotencyRecord(r) PROVE StoredInv'
  <2>1. CASE Goto(r, "validate") /\ UNCHANGED <<key, body, result>>
    BY <1>2, <2>1 DEF GetIdempotencyRecord
  <2>2. CASE Conclude(r, "reused", "respond")
    BY <1>2, <2>2 DEF GetIdempotencyRecord
  <2>3. CASE /\ records[key[r]] # None
             /\ records[key[r]].body = body[r]
             /\ result' = [result EXCEPT ![r] = records[key[r]].reply]
             /\ Goto(r, "respond")
             /\ UNCHANGED <<key, body>>
    BY <1>2, <2>3 DEF GetIdempotencyRecord
  <2>4. QED BY <1>2, <2>1, <2>2, <2>3 DEF GetIdempotencyRecord
<1>3. ASSUME NEW r \in Requests, Validate(r) PROVE StoredInv'
  <2>1. CASE Goto(r, "upsert") /\ UNCHANGED <<key, body, result>>
    BY <1>3, <2>1 DEF Validate
  <2>2. CASE Conclude(r, "refused", "save")
    BY <1>3, <2>2 DEF Validate
  <2>3. QED BY <1>3, <2>1, <2>2 DEF Validate
<1>4. ASSUME NEW r \in Requests, UpsertStepSubmission(r) PROVE StoredInv'
  BY <1>4 DEF UpsertStepSubmission
<1>5. ASSUME NEW r \in Requests, BuildEnvelope(r) PROVE StoredInv'
  BY <1>5 DEF BuildEnvelope
<1>6. ASSUME NEW r \in Requests, SaveIdempotencyRecord(r) PROVE StoredInv'
  BY <1>6 DEF SaveIdempotencyRecord
<1>7. ASSUME NEW r \in Requests, Respond(r) PROVE StoredInv'
  BY <1>7 DEF Respond
<1>8. ASSUME NEW r \in Requests, Fail(r) PROVE StoredInv'
  BY <1>8 DEF Fail
<1>9. CASE WorldMoves
  BY <1>9 DEF WorldMoves
<1>10. CASE UNCHANGED vars
  BY <1>10 DEF vars
<1>11. QED
  BY <1>1, <1>2, <1>3, <1>4, <1>5, <1>6, <1>7, <1>8, <1>9, <1>10 DEF Next

(* Neither a remembered nor a delivered success is about a body that was    *)
(* never written, however requests race, fail and are retried.              *)
THEOREM SuccessIsStored == Spec => []SuccessWasStored
<1>1. Init => StoredInv
  BY DEF Init, StoredInv, SuccessWasStored
<1>2. StoredInv => SuccessWasStored
  BY DEF StoredInv
<1>3. QED BY <1>1, <1>2, StoredInvStep, TypeCorrect, PTL DEF Spec

----------------------------------------------------------------------------
(* One answer per key                                                      *)

(* For a key that was never carried by two requests at once, a request that *)
(* found no record still finds none when it saves, so what it answers is    *)
(* what it recorded; and every answer delivered is the record.              *)
KeyInv ==
  /\ \A p, q \in Requests : p # q /\ key[p] = key[q] /\ key[p] # None => key[p] \in overlapped
  /\ \A r \in Requests :
       pc[r] \in {"validate", "upsert", "envelope", "save"} /\ key[r] \notin overlapped =>
         records[key[r]] = None
  /\ \A r \in Requests :
       pc[r] = "respond" /\ key[r] \notin overlapped /\ result[r].code # "reused" =>
         records[key[r]] = [body |-> body[r], reply |-> result[r]]
  /\ \A p \in replies :
       p.key \notin overlapped /\ p.reply.code # "reused" =>
         records[p.key] = [body |-> p.body, reply |-> p.reply]

LEMMA KeyInvStep == TypeOK /\ KeyInv /\ [Next]_vars => KeyInv'
<1> SUFFICES ASSUME TypeOK, KeyInv, [Next]_vars PROVE KeyInv'
  OBVIOUS
<1> USE SubmitAssumption
<1> USE DEF KeyInv, TypeOK, Goto, Forget, Conclude, requestVars
<1>1. ASSUME NEW r \in Requests, NEW k \in Keys, NEW b \in Bodies, Receive(r, k, b)
      PROVE  KeyInv'
  BY <1>1 DEF Receive
<1>2. ASSUME NEW r \in Requests, GetIdempotencyRecord(r) PROVE KeyInv'
  <2>1. CASE /\ records[key[r]] = None
             /\ Goto(r, "validate")
             /\ UNCHANGED <<key, body, result>>
    BY <1>2, <2>1 DEF GetIdempotencyRecord
  <2>2. CASE Conclude(r, "reused", "respond")
    BY <1>2, <2>2 DEF GetIdempotencyRecord
  <2>3. CASE /\ records[key[r]] # None
             /\ records[key[r]].body = body[r]
             /\ result' = [result EXCEPT ![r] = records[key[r]].reply]
             /\ Goto(r, "respond")
             /\ UNCHANGED <<key, body>>
    <3>1. records[key[r]] = [body |-> body[r], reply |-> records[key[r]].reply]
      BY <1>2, <2>3 DEF GetIdempotencyRecord, Records
    <3>2. QED BY <1>2, <2>3, <3>1 DEF GetIdempotencyRecord
  <2>4. QED BY <1>2, <2>1, <2>2, <2>3 DEF GetIdempotencyRecord
<1>3. ASSUME NEW r \in Requests, Validate(r) PROVE KeyInv'
  <2>1. CASE Goto(r, "upsert") /\ UNCHANGED <<key, body, result>>
    BY <1>3, <2>1 DEF Validate
  <2>2. CASE Conclude(r, "refused", "save")
    BY <1>3, <2>2 DEF Validate
  <2>3. QED BY <1>3, <2>1, <2>2 DEF Validate
<1>4. ASSUME NEW r \in Requests, UpsertStepSubmission(r) PROVE KeyInv'
  BY <1>4 DEF UpsertStepSubmission
<1>5. ASSUME NEW r \in Requests, BuildEnvelope(r) PROVE KeyInv'
  BY <1>5 DEF BuildEnvelope
<1>6. ASSUME NEW r \in Requests, SaveIdempotencyRecord(r) PROVE KeyInv'
  <2>1. [body |-> body[r], reply |-> result[r]] # None
    BY <1>6 DEF SaveIdempotencyRecord, Records
  <2>2. \A p \in replies :
          p.key \notin overlapped /\ p.reply.code # "reused" => records[p.key] # None
    <3> SUFFICES ASSUME NEW p \in replies, p.key \notin overlapped, p.reply.code # "reused"
                 PROVE  records[p.key] # None
      OBVIOUS
    <3>1. p.body \in Bodies /\ p.reply \in Results
      BY DEF TypeOK
    <3>2. [body |-> p.body, reply |-> p.reply] \in Records
      BY <3>1 DEF Records
    <3>3. records[p.key] \in Records
      BY <3>2 DEF KeyInv
    <3>4. QED BY <3>3 DEF SubmitAssumption
  <2>3. QED BY <1>6, <2>1, <2>2 DEF SaveIdempotencyRecord
<1>7. ASSUME NEW r \in Requests, Respond(r) PROVE KeyInv'
  BY <1>7 DEF Respond
<1>8. ASSUME NEW r \in Requests, Fail(r) PROVE KeyInv'
  BY <1>8 DEF Fail
<1>9. CASE WorldMoves
  BY <1>9 DEF WorldMoves
<1>10. CASE UNCHANGED vars
  BY <1>10 DEF vars
<1>11. QED
  BY <1>1, <1>2, <1>3, <1>4, <1>5, <1>6, <1>7, <1>8, <1>9, <1>10 DEF Next

(* Clients that retry a key only after they have given up on the previous   *)
(* attempt are all told the same thing, whatever failed in between.         *)
THEOREM EachKeyHasOneAnswer == Spec => []OneAnswerPerKey
<1>1. Init => KeyInv
  BY DEF Init, KeyInv
<1>2. TypeOK /\ KeyInv => OneAnswerPerKey
  <2> SUFFICES ASSUME TypeOK, KeyInv, NEW p \in replies, NEW q \in replies,
                      p.key = q.key, p.key \notin overlapped,
                      p.reply.code # "reused", q.reply.code # "reused"
               PROVE  p = q
    BY DEF OneAnswerPerKey
  <2>1. [body |-> p.body, reply |-> p.reply] = [body |-> q.body, reply |-> q.reply]
    BY DEF KeyInv
  <2>2. QED BY <2>1 DEF TypeOK
<1>3. QED BY <1>1, <1>2, KeyInvStep, TypeCorrect, PTL DEF Spec

----------------------------------------------------------------------------
(* The contract                                                            *)

(* What is remembered, or about to be, is an outcome; a request that        *)
(* answers finds its key remembered, with another body when it says so.     *)
OutcomeInv ==
  /\ \A k \in Keys : records[k] # None => records[k].reply.code # "reused"
  /\ \A r \in Requests : pc[r] = "save" => result[r].code # "reused"
  /\ \A r \in Requests :
       pc[r] = "respond" =>
         /\ records[key[r]] # None
         /\ result[r].code = "reused" => records[key[r]].body # body[r]

LEMMA OutcomeInvStep == TypeOK /\ OutcomeInv /\ [Next]_vars => OutcomeInv'
<1> SUFFICES ASSUME TypeOK, OutcomeInv, [Next]_vars PROVE OutcomeInv'
  OBVIOUS
<1> USE SubmitAssumption
<1> USE DEF OutcomeInv, TypeOK, Goto, Forget, Conclude, requestVars
<1>1. ASSUME NEW r \in Requests, NEW k \in Keys, NEW b \in Bodies, Receive(r, k, b)
      PROVE  OutcomeInv'
  BY <1>1 DEF Receive
<1>2. ASSUME NEW r \in Requests, GetIdempotencyRecord(r) PROVE OutcomeInv'
  <2>1. CASE Goto(r, "validate") /\ UNCHANGED <<key, body, result>>
    BY <1>2, <2>1 DEF GetIdempotencyRecord
  <2>2. CASE /\ records[key[r]] # None
             /\ records[key[r]].body # body[r]
             /\ Conclude(r, "reused", "respond")
    BY <1>2, <2>2 DEF GetIdempotencyRecord
  <2>3. CASE /\ records[key[r]] # None
             /\ result' = [result EXCEPT ![r] = records[key[r]].reply]
             /\ Goto(r, "respond")
             /\ UNCHANGED <<key, body>>
    BY <1>2, <2>3 DEF GetIdempotencyRecord
  <2>4. QED BY <1>2, <2>1, <2>2, <2>3 DEF GetIdempotencyRecord
<1>3. ASSUME NEW r \in Requests, Validate(r) PROVE OutcomeInv'
  <2>1. CASE Goto(r, "upsert") /\ UNCHANGED <<key, body, result>>
    BY <1>3, <2>1 DEF Validate
  <2>2. CASE Conclude(r, "refused", "save")
    BY <1>3, <2>2 DEF Validate
  <2>3. QED BY <1>3, <2>1, <2>2 DEF Validate
<1>4. ASSUME NEW r \in Requests, UpsertStepSubmission(r) PROVE OutcomeInv'
  BY <1>4 DEF UpsertStepSubmission
<1>5. ASSUME NEW r \in Requests, BuildEnvelope(r) PROVE OutcomeInv'
  BY <1>5 DEF BuildEnvelope
<1>6. ASSUME NEW r \in Requests, SaveIdempotencyRecord(r) PROVE OutcomeInv'
  <2>1. [body |-> body[r], reply |-> result[r]] # None
    BY <1>6 DEF SaveIdempotencyRecord, Records
  <2>2. QED BY <1>6, <2>1 DEF SaveIdempotencyRecord
<1>7. ASSUME NEW r \in Requests, Respond(r) PROVE OutcomeInv'
  BY <1>7 DEF Respond
<1>8. ASSUME NEW r \in Requests, Fail(r) PROVE OutcomeInv'
  BY <1>8 DEF Fail
<1>9. CASE WorldMoves
  BY <1>9 DEF WorldMoves
<1>10. CASE UNCHANGED vars
  BY <1>10 DEF vars
<1>11. QED
  BY <1>1, <1>2, <1>3, <1>4, <1>5, <1>6, <1>7, <1>8, <1>9, <1>10 DEF Next

IInv == TypeOK /\ StoredInv /\ KeyInv /\ OutcomeInv

LEMMA InvariantHolds == Spec => []IInv
<1>1. Init => StoredInv /\ KeyInv /\ OutcomeInv
  BY DEF Init, StoredInv, SuccessWasStored, KeyInv, OutcomeInv
<1>2. QED
  BY <1>1, StoredInvStep, KeyInvStep, OutcomeInvStep, TypeCorrect, PTL DEF Spec, IInv

\* Each step of a request is a step of the contract, or nothing a client sees.
LEMMA ContractStep == IInv /\ [Next]_vars => [Contract!Next]_Contract!contractVars
<1> SUFFICES ASSUME IInv, Next PROVE Contract!Next \/ UNCHANGED Contract!contractVars
  BY DEF vars, Contract!contractVars
<1> USE DEF Contract!Next, Contract!contractVars
<1>t. TypeOK
  BY DEF IInv
<1>1. ASSUME NEW r \in Requests, NEW k \in Keys, NEW b \in Bodies, Receive(r, k, b)
      PROVE  Contract!Contend(k) \/ UNCHANGED Contract!contractVars
  BY <1>1 DEF Receive, Contract!Contend
<1>2. ASSUME NEW r \in Requests, UpsertStepSubmission(r) PROVE Contract!Next
  <2>1. body[r] \in Bodies /\ Contract!Write(body[r])
    BY <1>2, <1>t DEF UpsertStepSubmission, TypeOK, Contract!Write
  <2>2. QED BY <2>1
<1>3. ASSUME NEW r \in Requests, SaveIdempotencyRecord(r)
      PROVE  Contract!Next \/ UNCHANGED Contract!contractVars
  <2>1. key[r] \in Keys /\ body[r] \in Bodies /\ result[r] \in Results
    BY <1>3, <1>t DEF SaveIdempotencyRecord, TypeOK
  <2>2. CASE records[key[r]] = None
    <3>1. Contract!Outcome(body[r], result[r])
      BY <1>3 DEF SaveIdempotencyRecord, IInv, OutcomeInv, StoredInv, Contract!Outcome
    <3>2. Contract!Remember(key[r], body[r], result[r])
      BY <1>3, <2>2, <3>1 DEF SaveIdempotencyRecord, Contract!Remember
    <3>3. QED BY <2>1, <3>2
  <2>3. CASE records[key[r]] # None
    <3>1. records' = records
      BY <1>3, <1>t, <2>1, <2>3 DEF SaveIdempotencyRecord, TypeOK
    <3>2. QED BY <1>3, <3>1 DEF SaveIdempotencyRecord
  <2>4. QED BY <2>2, <2>3
<1>4. ASSUME NEW r \in Requests, Respond(r) PROVE Contract!Next
  <2>1. key[r] \in Keys /\ body[r] \in Bodies /\ result[r] \in Results
    BY <1>4, <1>t DEF Respond, TypeOK
  <2>2. records[key[r]] # None
    BY <1>4 DEF Respond, IInv, OutcomeInv
  <2>3. \/ records[key[r]] = [body |-> body[r], reply |-> result[r]]
        \/ records[key[r]].body # body[r] /\ result[r].code = "reused"
        \/ key[r] \in overlapped /\ Contract!Outcome(body[r], result[r])
    <3>1. CASE result[r].code = "reused"
      BY <1>4, <3>1 DEF Respond, IInv, OutcomeInv
    <3>2. CASE result[r].code # "reused" /\ key[r] \notin overlapped
      BY <1>4, <3>2 DEF Respond, IInv, KeyInv
    <3>3. CASE result[r].code # "reused" /\ key[r] \in overlapped
      BY <1>4, <3>3 DEF Respond, IInv, StoredInv, Contract!Outcome
    <3>4. QED BY <3>1, <3>2, <3>3
  <2>4. Contract!Answer(key[r], body[r], result[r])
    BY <1>4, <2>2, <2>3 DEF Respond, Contract!Answer
  <2>5. QED BY <2>1, <2>4
<1>5. ASSUME NEW r \in Requests,
             GetIdempotencyRecord(r) \/ Validate(r) \/ BuildEnvelope(r) \/ Fail(r)
      PROVE  UNCHANGED Contract!contractVars
  BY <1>5 DEF GetIdempotencyRecord, Validate, BuildEnvelope, Fail
<1>6. CASE WorldMoves
  BY <1>6 DEF WorldMoves
<1>7. QED
  BY <1>1, <1>2, <1>3, <1>4, <1>5, <1>6 DEF Next

(* Requests that race, fail and are retried keep the contract of the         *)
(* idempotency key, whatever the world does meanwhile.                      *)
THEOREM SubmitImplementsContract == Spec => ImplementsContract
<1>1. Init => Contract!Init
  BY DEF Init, Contract!Init
<1>2. QED
  BY <1>1, InvariantHolds, ContractStep, PTL DEF Spec, ImplementsContract, Contract!Spec

(* The client's side of it: where no key was carried by two requests at once *)
(* a replay is verbatim.                                                    *)
THEOREM ReplayIsVerbatimAlone == Spec => [](overlapped = {} => ReplayIsVerbatim)
<1>1. OneAnswerPerKey /\ overlapped = {} => ReplayIsVerbatim
  BY DEF OneAnswerPerKey, ReplayIsVerbatim
<1>2. QED BY <1>1, EachKeyHasOneAnswer, PTL

=============================================================================
