----------------------- MODULE KycVerification_proofs -----------------------
(***************************************************************************)
(* What KycVerification keeps true for any number of requests, goroutines, *)
(* deliveries, steps and reasons, however handlers interleave and fail. The *)
(* first three theorems hold without exception; the others say what the     *)
(* races recorded in raced, and nothing else, can break.                    *)
(***************************************************************************)
EXTENDS KycVerification, TLAPS

----------------------------------------------------------------------------
(* Type correctness                                                        *)

(* Every variable keeps its type: a webhook stores approved or rejected and *)
(* nothing the vendor made up, an attempt is never lost from the row.       *)
THEOREM TypeCorrect == Spec => []TypeOK
<1> USE KycAssumption
<1>1. Init => TypeOK
  <2> SUFFICES ASSUME Init PROVE TypeOK
    OBVIOUS
  <2>1. status \in SessionStatus /\ run \in Runs /\ submitted \subseteq Steps /\ raced = {}
    BY DEF Init, SessionStatus, Runs
  <2>2. /\ pc \in [Requests -> RequestPcs]
        /\ \A r \in Requests : pc[r] # "upsert"
        /\ hook \in [Senders -> HookPcs]
        /\ \A s \in Senders : hook[s] = "idle"
    BY DEF Init, RequestPcs, HookPcs
  <2>3. /\ step \in [Requests -> Steps \cup {"none"}]
        /\ seen \in [Requests -> SessionStatus \cup {"none"}]
        /\ verdict \in [Senders -> Verdicts \cup {"none"}]
    BY DEF Init
  <2>4. QED BY <2>1, <2>2, <2>3 DEF Init, TypeOK
<1>2. TypeOK /\ [Next]_vars => TypeOK'
  <2> SUFFICES ASSUME TypeOK, [Next]_vars PROVE TypeOK'
    OBVIOUS
  <2>0. raced' \subseteq {"trigger", "write", "status"}
    BY DEF TypeOK, Next, Races, vars
  <2> USE <2>0 DEF TypeOK, RequestPcs, HookPcs, Goto, Reply, HookGoto, HookReply, requestVars, hookVars
  <2>1. ASSUME NEW r \in Requests, NEW id \in Steps, SubmitStep(r, id) PROVE TypeOK'
    BY <2>1 DEF SubmitStep
  <2>2. ASSUME NEW r \in Requests, UpsertStepSubmission(r) PROVE TypeOK'
    BY <2>2 DEF UpsertStepSubmission
  <2>3. ASSUME NEW r \in Requests, GetSession(r) \/ LoadSession(r) PROVE TypeOK'
    BY <2>3 DEF GetSession, LoadSession, SessionStatus
  <2>4. ASSUME NEW r \in Requests,
               ReadRejection(r) \/ GetStepSubmissions(r) \/ ComputeRepairs(r) \/ GetOnCompleteRun(r)
        PROVE  TypeOK'
    <3>1. CASE ReadRejection(r)
      <4>0. faulted' \in BOOLEAN
        BY <3>1 DEF ReadRejection
      <4>1. pc' \in [Requests -> RequestPcs]
        BY <3>1 DEF ReadRejection
      <4>2. \A q \in Requests : pc'[q] = "upsert" => pc[q] = "upsert"
        BY <3>1 DEF ReadRejection
      <4>3. UNCHANGED <<status, run, submitted, step, seen, hook, verdict, called>>
        BY <3>1 DEF ReadRejection
      <4>4. QED BY <4>0, <4>1, <4>2, <4>3
    <3>2. CASE GetStepSubmissions(r)
      BY <3>2 DEF GetStepSubmissions
    <3>3. CASE ComputeRepairs(r)
      BY <3>3 DEF ComputeRepairs
    <3>4. CASE GetOnCompleteRun(r)
      BY <3>4 DEF GetOnCompleteRun
    <3>5. QED BY <2>4, <3>1, <3>2, <3>3, <3>4
  <2>5. ASSUME NEW r \in Requests, DeleteOnCompleteRun(r) PROVE TypeOK'
    <3>0. faulted' \in BOOLEAN
      BY <2>5 DEF DeleteOnCompleteRun
    <3>1. run' \in Runs
      BY <2>5 DEF DeleteOnCompleteRun, Runs
    <3>2. /\ pc' = [pc EXCEPT ![r] = "load"]
          /\ UNCHANGED <<status, submitted, step, seen, hook, verdict, called>>
      BY <2>5 DEF DeleteOnCompleteRun
    <3>3. QED BY <3>0, <3>1, <3>2
  <2>6. ASSUME NEW r \in Requests, StartOnCompleteRun(r) PROVE TypeOK'
    BY <2>6 DEF StartOnCompleteRun, Runs, NoRun
  <2>7. ASSUME NEW r \in Requests, MarkVerifying(r) PROVE TypeOK'
    BY <2>7 DEF MarkVerifying, SessionStatus
  <2>8. ASSUME NEW r \in Requests, Launch(r) PROVE TypeOK'
    BY <2>8 DEF Launch, RunMockKYC, Senders, Verdicts
  <2>9. ASSUME NEW r \in Requests, FailRequest(r) PROVE TypeOK'
    BY <2>9 DEF FailRequest
  <2>10. ASSUME NEW g \in Goroutines, PostVerdict(g) PROVE TypeOK'
    BY <2>10 DEF PostVerdict, Senders
  <2>11. ASSUME NEW d \in Deliveries, NEW v \in Verdicts, Deliver(d, v) PROVE TypeOK'
    BY <2>11 DEF Deliver, Senders
  <2>12. ASSUME NEW s \in Senders, WebhookGetRun(s) PROVE TypeOK'
    BY <2>12 DEF WebhookGetRun
  <2>13. ASSUME NEW s \in Senders, FinishOnCompleteRun(s) PROVE TypeOK'
    <3>1. run' \in Runs
      <4>1. CASE run = NoRun
        BY <2>13, <4>1 DEF FinishOnCompleteRun, Runs
      <4>2. CASE run # NoRun
        BY <2>13, <4>2 DEF FinishOnCompleteRun, Resolved, Runs, Verdicts
      <4>3. QED BY <4>1, <4>2
    <3>2. QED BY <2>13, <3>1 DEF FinishOnCompleteRun
  <2>14. ASSUME NEW s \in Senders, WebhookSetStatus(s) PROVE TypeOK'
    BY <2>14 DEF WebhookSetStatus, SessionStatus
  <2>15. ASSUME NEW s \in Senders, FailSender(s) PROVE TypeOK'
    BY <2>15 DEF FailSender
  <2>16. CASE Restart
    BY <2>16 DEF Restart
  <2>17. CASE UNCHANGED vars
    BY <2>17 DEF vars, stateVars
  <2>18. QED
    BY <2>1, <2>2, <2>3, <2>4, <2>5, <2>6, <2>7, <2>8, <2>9, <2>10, <2>11, <2>12, <2>13,
       <2>14, <2>15, <2>16, <2>17 DEF Next, Handlers, RequestStep, WebhookStep
<1>3. QED BY <1>1, <1>2, PTL DEF Spec

----------------------------------------------------------------------------
(* Verification only after the flow is complete                            *)

PastCompletenessCheck == {"repairs", "get_run", "start_run", "mark", "launch"}

(* CompleteBeforeVerification is not inductive alone: the request that is   *)
(* about to start a run, and the handler that is about to write a verdict,  *)
(* carry the completeness they once saw. It lasts, as submissions are never *)
(* withdrawn.                                                               *)
CompleteInv ==
  /\ CompleteBeforeVerification
  /\ \A r \in Requests : pc[r] \in PastCompletenessCheck => Steps \subseteq submitted
  /\ \A s \in Senders : hook[s] # "idle" => Steps \subseteq submitted

LEMMA CompleteInvStep == TypeOK /\ CompleteInv /\ [Next]_vars => CompleteInv'
<1> SUFFICES ASSUME TypeOK, CompleteInv, [Next]_vars PROVE CompleteInv'
  OBVIOUS
<1> USE DEF CompleteInv, CompleteBeforeVerification, PastCompletenessCheck, TypeOK,
            Goto, Reply, HookGoto, HookReply, requestVars, hookVars
<1>1. ASSUME NEW r \in Requests, NEW id \in Steps, SubmitStep(r, id) PROVE CompleteInv'
  BY <1>1 DEF SubmitStep
<1>2. ASSUME NEW r \in Requests, UpsertStepSubmission(r) PROVE CompleteInv'
  BY <1>2 DEF UpsertStepSubmission
<1>3. ASSUME NEW r \in Requests, GetSession(r) \/ LoadSession(r) PROVE CompleteInv'
  BY <1>3 DEF GetSession, LoadSession
<1>4. ASSUME NEW r \in Requests, ReadRejection(r) PROVE CompleteInv'
  BY <1>4 DEF ReadRejection
<1>5. ASSUME NEW r \in Requests, GetStepSubmissions(r) PROVE CompleteInv'
  BY <1>5 DEF GetStepSubmissions
<1>6. ASSUME NEW r \in Requests, ComputeRepairs(r) \/ GetOnCompleteRun(r) PROVE CompleteInv'
  BY <1>6 DEF ComputeRepairs, GetOnCompleteRun
<1>7. ASSUME NEW r \in Requests, DeleteOnCompleteRun(r) PROVE CompleteInv'
  BY <1>7 DEF DeleteOnCompleteRun
<1>8. ASSUME NEW r \in Requests, StartOnCompleteRun(r) PROVE CompleteInv'
  BY <1>8 DEF StartOnCompleteRun
<1>9. ASSUME NEW r \in Requests, MarkVerifying(r) PROVE CompleteInv'
  BY <1>9 DEF MarkVerifying
<1>10. ASSUME NEW r \in Requests, Launch(r) PROVE CompleteInv'
  BY <1>10 DEF Launch, RunMockKYC, Senders
<1>11. ASSUME NEW r \in Requests, FailRequest(r) PROVE CompleteInv'
  BY <1>11 DEF FailRequest
<1>12. ASSUME NEW g \in Goroutines, PostVerdict(g) PROVE CompleteInv'
  BY <1>12 DEF PostVerdict, Senders
<1>13. ASSUME NEW d \in Deliveries, NEW v \in Verdicts, Deliver(d, v) PROVE CompleteInv'
  BY <1>13 DEF Deliver, Senders
<1>14. ASSUME NEW s \in Senders, WebhookGetRun(s) PROVE CompleteInv'
  BY <1>14 DEF WebhookGetRun
<1>15. ASSUME NEW s \in Senders, FinishOnCompleteRun(s) PROVE CompleteInv'
  BY <1>15 DEF FinishOnCompleteRun
<1>16. ASSUME NEW s \in Senders, WebhookSetStatus(s) PROVE CompleteInv'
  BY <1>16 DEF WebhookSetStatus
<1>17. ASSUME NEW s \in Senders, FailSender(s) PROVE CompleteInv'
  BY <1>17 DEF FailSender
<1>18. CASE Restart
  BY <1>18 DEF Restart
<1>19. CASE UNCHANGED vars
  BY <1>19 DEF vars, stateVars
<1>20. QED
  BY <1>1, <1>2, <1>3, <1>4, <1>5, <1>6, <1>7, <1>8, <1>9, <1>10, <1>11, <1>12, <1>13,
     <1>14, <1>15, <1>16, <1>17, <1>18, <1>19 DEF Next, Handlers, RequestStep, WebhookStep

(* However requests, verdicts, failures and restarts interleave, the vendor *)
(* is called, a run recorded and the session moved out of in_progress only  *)
(* when every unconditional step of the flow has been submitted.            *)
THEOREM VerificationAfterCompletion == Spec => []CompleteBeforeVerification
<1>1. Init => CompleteInv
  BY DEF Init, CompleteInv, CompleteBeforeVerification, PastCompletenessCheck
<1>2. CompleteInv => CompleteBeforeVerification
  BY DEF CompleteInv
<1>3. QED BY <1>1, <1>2, TypeCorrect, CompleteInvStep, PTL DEF Spec

----------------------------------------------------------------------------
(* A pending run is never orphaned by interleaving alone                   *)

LEMMA NoOrphanStep == TypeOK /\ NoOrphanedRun /\ [Next]_vars => NoOrphanedRun'
<1> SUFFICES ASSUME TypeOK, NoOrphanedRun, [Next]_vars PROVE NoOrphanedRun'
  OBVIOUS
<1> USE DEF NoOrphanedRun, Responsible, TypeOK,
            Goto, Reply, HookGoto, HookReply, requestVars, hookVars
<1>1. ASSUME NEW r \in Requests, NEW id \in Steps, SubmitStep(r, id) PROVE NoOrphanedRun'
  BY <1>1 DEF SubmitStep
<1>2. ASSUME NEW r \in Requests, UpsertStepSubmission(r) PROVE NoOrphanedRun'
  BY <1>2 DEF UpsertStepSubmission
<1>3. ASSUME NEW r \in Requests, GetSession(r) \/ LoadSession(r) PROVE NoOrphanedRun'
  BY <1>3 DEF GetSession, LoadSession
<1>4. ASSUME NEW r \in Requests, ReadRejection(r) PROVE NoOrphanedRun'
  BY <1>4 DEF ReadRejection
<1>5. ASSUME NEW r \in Requests, GetStepSubmissions(r) PROVE NoOrphanedRun'
  BY <1>5 DEF GetStepSubmissions
<1>6. ASSUME NEW r \in Requests, ComputeRepairs(r) \/ GetOnCompleteRun(r) PROVE NoOrphanedRun'
  BY <1>6 DEF ComputeRepairs, GetOnCompleteRun
<1>7. ASSUME NEW r \in Requests, DeleteOnCompleteRun(r) PROVE NoOrphanedRun'
  BY <1>7 DEF DeleteOnCompleteRun, NoRun
<1>8. ASSUME NEW r \in Requests, StartOnCompleteRun(r) PROVE NoOrphanedRun'
  BY <1>8 DEF StartOnCompleteRun
<1>9. ASSUME NEW r \in Requests, MarkVerifying(r) PROVE NoOrphanedRun'
  BY <1>9 DEF MarkVerifying
<1>10. ASSUME NEW r \in Requests, Launch(r) PROVE NoOrphanedRun'
  BY <1>10 DEF Launch, RunMockKYC, Senders
<1>11. ASSUME NEW r \in Requests, FailRequest(r) PROVE NoOrphanedRun'
  BY <1>11 DEF FailRequest
<1>12. ASSUME NEW g \in Goroutines, PostVerdict(g) PROVE NoOrphanedRun'
  BY <1>12 DEF PostVerdict, Senders
<1>13. ASSUME NEW d \in Deliveries, NEW v \in Verdicts, Deliver(d, v) PROVE NoOrphanedRun'
  BY <1>13 DEF Deliver, Senders
<1>14. ASSUME NEW s \in Senders, WebhookGetRun(s) PROVE NoOrphanedRun'
  BY <1>14 DEF WebhookGetRun
<1>15. ASSUME NEW s \in Senders, FinishOnCompleteRun(s) PROVE NoOrphanedRun'
  BY <1>15 DEF FinishOnCompleteRun, Resolved, NoRun
<1>16. ASSUME NEW s \in Senders, WebhookSetStatus(s) PROVE NoOrphanedRun'
  BY <1>16 DEF WebhookSetStatus
<1>17. ASSUME NEW s \in Senders, FailSender(s) PROVE NoOrphanedRun'
  BY <1>17 DEF FailSender
<1>18. CASE Restart
  BY <1>18 DEF Restart
<1>19. CASE UNCHANGED vars
  BY <1>19 DEF vars, stateVars
<1>20. QED
  BY <1>1, <1>2, <1>3, <1>4, <1>5, <1>6, <1>7, <1>8, <1>9, <1>10, <1>11, <1>12, <1>13,
     <1>14, <1>15, <1>16, <1>17, <1>18, <1>19 DEF Next, Handlers, RequestStep, WebhookStep

(* As long as nothing fails, a pending run has a request, a goroutine or a  *)
(* webhook handler on its way to resolve it, whichever races they run.      *)
THEOREM PendingRunHasAnOwner == Spec => []NoOrphanedRun
<1>1. Init => NoOrphanedRun
  BY DEF Init, NoOrphanedRun, NoRun
<1>2. QED BY <1>1, TypeCorrect, NoOrphanStep, PTL DEF Spec

----------------------------------------------------------------------------
(* Races are recorded                                                      *)

(* What raced says of a step: nothing is forgotten, and a race that shows   *)
(* in the new state is in it.                                               *)
LEMMA RacesAreRecorded ==
  ASSUME Next
  PROVE  /\ raced \subseteq raced'
         /\ "trigger" \notin raced' => ~TwoStart(pc')
         /\ "write" \notin raced' => ~TwoWrite(pc', hook')
         /\ "status" \notin raced' => ~StartsOnOldStatus(pc', seen', status')
BY DEF Next, Races

(* The actions that leave alone what the invariants below relate: the run,  *)
(* the status and the handlers that stand in a section.                     *)
LEMMA QuietSteps ==
  ASSUME TypeOK, NEW r \in Requests,
         \/ \E id \in Steps : SubmitStep(r, id)
         \/ UpsertStepSubmission(r) \/ GetSession(r) \/ LoadSession(r)
         \/ GetStepSubmissions(r) \/ ComputeRepairs(r) \/ Launch(r)
  PROVE  /\ UNCHANGED <<run, status>>
         /\ \A q \in Requests :
              pc'[q] \in RequestSection => pc'[q] = pc[q] /\ pc[q] \in RequestSection /\ seen'[q] = seen[q]
         /\ \A q \in Requests : pc[q] = "mark" => pc'[q] = "mark"
         /\ \A s \in Senders :
              hook'[s] \in HookSection => hook'[s] = hook[s] /\ verdict'[s] = verdict[s]
         /\ \A s \in Senders : hook[s] = "set_status" => hook'[s] = "set_status"
<1> USE DEF TypeOK, RequestSection, HookSection, Goto, Reply, requestVars, hookVars
<1>1. CASE \E id \in Steps : SubmitStep(r, id)
  BY <1>1 DEF SubmitStep
<1>2. CASE UpsertStepSubmission(r)
  BY <1>2 DEF UpsertStepSubmission
<1>3. CASE GetSession(r) \/ LoadSession(r)
  BY <1>3 DEF GetSession, LoadSession
<1>4. CASE GetStepSubmissions(r) \/ ComputeRepairs(r)
  BY <1>4 DEF GetStepSubmissions, ComputeRepairs
<1>5. CASE Launch(r)
  BY <1>5 DEF Launch, RunMockKYC, Senders
<1>6. QED BY <1>1, <1>2, <1>3, <1>4, <1>5

----------------------------------------------------------------------------
(* One trigger per round                                                   *)

(* Until two requests stand before the upsert together, the one that stands *)
(* there is still right that there is no run, so the upsert inserts.        *)
OneStarter ==
  /\ ~TwoStart(pc)
  /\ \A r \in Requests : pc[r] = "start_run" => run = NoRun
  /\ TriggeredOnce
TriggerInv == "trigger" \notin raced => OneStarter

LEMMA TriggerInvStep == TypeOK /\ TriggerInv /\ [Next]_vars => TriggerInv'
<1> SUFFICES ASSUME TypeOK, TriggerInv, [Next]_vars, "trigger" \notin raced'
             PROVE  OneStarter'
  BY DEF TriggerInv
<1>0. CASE UNCHANGED vars
  BY <1>0 DEF vars, stateVars, requestVars, hookVars, TriggerInv, OneStarter, TwoStart, TriggeredOnce
<1> SUFFICES ASSUME Next PROVE OneStarter'
  BY <1>0
<1>a. OneStarter /\ ~TwoStart(pc')
  BY RacesAreRecorded DEF TriggerInv
<1>b. SUFFICES /\ \A r \in Requests : pc'[r] = "start_run" => run' = NoRun
               /\ TriggeredOnce'
  BY <1>a DEF OneStarter, TwoStart
<1> USE <1>a DEF OneStarter, TwoStart, TriggeredOnce, TypeOK, Runs,
                 Goto, Reply, HookGoto, HookReply, requestVars, hookVars
<1> DEFINE Goal == /\ \A r \in Requests : pc'[r] = "start_run" => run' = NoRun
                   /\ TriggeredOnce'
<1>1. ASSUME NEW r \in Requests,
             \/ \E id \in Steps : SubmitStep(r, id)
             \/ UpsertStepSubmission(r) \/ GetSession(r) \/ LoadSession(r)
             \/ GetStepSubmissions(r) \/ ComputeRepairs(r) \/ Launch(r)
      PROVE  Goal
  BY <1>1, QuietSteps DEF RequestSection
<1>2. ASSUME NEW r \in Requests, ReadRejection(r) PROVE Goal
  BY <1>2 DEF ReadRejection
<1>3. ASSUME NEW r \in Requests, DeleteOnCompleteRun(r) PROVE Goal
  BY <1>3 DEF DeleteOnCompleteRun, NoRun
<1>4. ASSUME NEW r \in Requests, GetOnCompleteRun(r) PROVE Goal
  BY <1>4 DEF GetOnCompleteRun
<1>5. ASSUME NEW r \in Requests, StartOnCompleteRun(r) PROVE Goal
  BY <1>5 DEF StartOnCompleteRun, NoRun
<1>6. ASSUME NEW r \in Requests, MarkVerifying(r) PROVE Goal
  BY <1>6 DEF MarkVerifying
<1>7. ASSUME NEW r \in Requests, FailRequest(r) PROVE Goal
  BY <1>7 DEF FailRequest
<1>8. ASSUME NEW s \in Senders,
             \/ PostVerdict(s) \/ \E v \in Verdicts : Deliver(s, v)
             \/ WebhookGetRun(s) \/ WebhookSetStatus(s) \/ FailSender(s)
      PROVE  Goal
  BY <1>8 DEF PostVerdict, Deliver, WebhookGetRun, WebhookSetStatus, FailSender
<1>9. ASSUME NEW s \in Senders, FinishOnCompleteRun(s) PROVE Goal
  BY <1>9 DEF FinishOnCompleteRun, Resolved, NoRun
<1>10. CASE Restart
  BY <1>10 DEF Restart
<1>11. QED
  BY <1>1, <1>2, <1>3, <1>4, <1>5, <1>6, <1>7, <1>8, <1>9, <1>10
  DEF Next, Handlers, RequestStep, WebhookStep, Senders

(* With any number of handlers in flight, failing or not, the vendor is     *)
(* called a second time in a round for one reason only: two requests stood  *)
(* between the read of the run and the upsert at the same time.             *)
THEOREM TriggersOnceUnlessRaced == Spec => []TriggeredOnceUnlessRaced
<1>1. Init => TriggerInv
  BY DEF Init, TriggerInv, OneStarter, TwoStart, TriggeredOnce, NoRun
<1>2. TriggerInv => TriggeredOnceUnlessRaced
  BY DEF TriggerInv, OneStarter, TriggeredOnce, TriggeredOnceUnlessRaced
<1>3. QED BY <1>1, <1>2, TypeCorrect, TriggerInvStep, PTL DEF Spec

----------------------------------------------------------------------------
(* What holds until two handlers are in their sections together            *)

(* What a handler has read is still so when it acts on it.                  *)
FreshReads ==
  /\ \A r \in Requests :
       /\ pc[r] = "clear_delete" => run.status = "rejected"
       /\ pc[r] = "start_run" => run = NoRun
       /\ pc[r] = "mark" => run.status = "pending"
  /\ \A s \in Senders :
       /\ hook[s] = "finish_run" => run.status = "pending"
       /\ hook[s] = "set_status" =>
            run.status = IF verdict[s] = "approved" THEN "approved" ELSE "rejected"
ApprovedByRun == status = "approved" => run.status = "approved"

WriteInv == "write" \notin raced => ~TwoWrite(pc, hook) /\ FreshReads /\ ApprovedByRun

LEMMA WriteInvStep == TypeOK /\ WriteInv /\ [Next]_vars => WriteInv'
<1> SUFFICES ASSUME TypeOK, WriteInv, [Next]_vars, "write" \notin raced'
             PROVE  (~TwoWrite(pc, hook) /\ FreshReads /\ ApprovedByRun)'
  BY DEF WriteInv
<1>0. CASE UNCHANGED vars
  BY <1>0 DEF vars, stateVars, requestVars, hookVars, WriteInv, TwoWrite, FreshReads, ApprovedByRun
<1> SUFFICES ASSUME Next PROVE (~TwoWrite(pc, hook) /\ FreshReads /\ ApprovedByRun)'
  BY <1>0
<1>a. ~TwoWrite(pc, hook) /\ FreshReads /\ ApprovedByRun /\ ~TwoWrite(pc', hook')
  BY RacesAreRecorded DEF WriteInv
<1>b. SUFFICES FreshReads' /\ ApprovedByRun'
  BY <1>a DEF TwoWrite
<1> DEFINE Goal == FreshReads' /\ ApprovedByRun'
<1> USE <1>a DEF TwoWrite, FreshReads, ApprovedByRun, RequestSection, HookSection, TypeOK, Runs,
                 Goto, Reply, HookGoto, HookReply, requestVars, hookVars
<1>1. ASSUME NEW r \in Requests,
             \/ \E id \in Steps : SubmitStep(r, id)
             \/ UpsertStepSubmission(r) \/ GetSession(r) \/ LoadSession(r)
             \/ GetStepSubmissions(r) \/ ComputeRepairs(r) \/ Launch(r)
      PROVE  Goal
  BY <1>1, QuietSteps
<1>2. ASSUME NEW r \in Requests, ReadRejection(r) PROVE Goal
  BY <1>2 DEF ReadRejection
<1>3. ASSUME NEW r \in Requests, DeleteOnCompleteRun(r) PROVE Goal
  BY <1>3 DEF DeleteOnCompleteRun, NoRun
<1>4. ASSUME NEW r \in Requests, GetOnCompleteRun(r) PROVE Goal
  BY <1>4 DEF GetOnCompleteRun
<1>5. ASSUME NEW r \in Requests, StartOnCompleteRun(r) PROVE Goal
  BY <1>5 DEF StartOnCompleteRun, NoRun
<1>6. ASSUME NEW r \in Requests, MarkVerifying(r) PROVE Goal
  BY <1>6 DEF MarkVerifying
<1>7. ASSUME NEW r \in Requests, FailRequest(r) PROVE Goal
  BY <1>7 DEF FailRequest
<1>8. ASSUME NEW s \in Senders, PostVerdict(s) \/ \E v \in Verdicts : Deliver(s, v) PROVE Goal
  BY <1>8 DEF PostVerdict, Deliver
<1>9. ASSUME NEW s \in Senders, WebhookGetRun(s) PROVE Goal
  BY <1>9 DEF WebhookGetRun
<1>10. ASSUME NEW s \in Senders, FinishOnCompleteRun(s) PROVE Goal
  BY <1>10 DEF FinishOnCompleteRun, Resolved, NoRun
<1>11. ASSUME NEW s \in Senders, WebhookSetStatus(s) PROVE Goal
  BY <1>11 DEF WebhookSetStatus
<1>12. ASSUME NEW s \in Senders, FailSender(s) PROVE Goal
  BY <1>12 DEF FailSender
<1>13. CASE Restart
  BY <1>13 DEF Restart
<1>14. QED
  BY <1>1, <1>2, <1>3, <1>4, <1>5, <1>6, <1>7, <1>8, <1>9, <1>10, <1>11, <1>12, <1>13
  DEF Next, Handlers, RequestStep, WebhookStep, Senders

LEMMA WriteInvariant == Spec => [](TypeOK /\ WriteInv)
<1>1. Init => WriteInv
  BY DEF Init, WriteInv, TwoWrite, RequestSection, HookSection, FreshReads, ApprovedByRun
<1>2. QED BY <1>1, TypeCorrect, WriteInvStep, PTL DEF Spec

(* An approval is final, whatever verdicts, submits, failures and restarts  *)
(* follow and however they interleave, until two handlers are in a section  *)
(* that acts on an earlier read at the same time.                           *)
THEOREM ApprovalIsFinal == Spec => ApprovedIsFinal
<1>1. TypeOK /\ WriteInv /\ [Next]_vars
        => (status = "approved" /\ "write" \notin raced => status' = "approved")
  <2> SUFFICES ASSUME TypeOK, WriteInv, [Next]_vars, status = "approved", "write" \notin raced
               PROVE  status' = "approved"
    OBVIOUS
  <2>1. ASSUME NEW r \in Requests, MarkVerifying(r) PROVE FALSE
    BY <2>1 DEF MarkVerifying, WriteInv, FreshReads, ApprovedByRun
  <2>2. ASSUME NEW s \in Senders, WebhookSetStatus(s) PROVE status' = "approved"
    BY <2>2 DEF WebhookSetStatus, WriteInv, FreshReads, ApprovedByRun
  <2>3. QED
    BY <2>1, <2>2
    DEF Next, Handlers, RequestStep, WebhookStep, SubmitStep, UpsertStepSubmission, ReadRejection,
        DeleteOnCompleteRun, GetSession, LoadSession, GetStepSubmissions, ComputeRepairs,
        GetOnCompleteRun, StartOnCompleteRun, Launch, FailRequest, PostVerdict, Deliver,
        WebhookGetRun, FinishOnCompleteRun, FailSender, Restart, vars, stateVars
<1>2. QED BY <1>1, WriteInvariant, PTL DEF Spec, ApprovedIsFinal

----------------------------------------------------------------------------
(* The status and the run                                                  *)

(* Besides the agreement itself: a request about to start a run has read    *)
(* the status the session still has, so the run it starts is marked.        *)
AgreeInv ==
  ~faulted /\ raced = {} =>
    /\ \A r \in Requests : pc[r] = "start_run" => seen[r] = status
    /\ NothingToShow => status = Lifecycle!ShownFor(run.status)

LEMMA AgreeInvStep == TypeOK /\ WriteInv /\ AgreeInv /\ [Next]_vars => AgreeInv'
<1> SUFFICES ASSUME TypeOK, WriteInv, AgreeInv, [Next]_vars, ~faulted', raced' = {}
             PROVE  /\ \A r \in Requests : pc'[r] = "start_run" => seen'[r] = status'
                    /\ NothingToShow' => status' = Lifecycle!ShownFor(run.status)'
  BY DEF AgreeInv
<1> DEFINE Goal == NothingToShow' => status' = Lifecycle!ShownFor(run.status)'
<1>0. CASE UNCHANGED vars
  BY <1>0 DEF vars, stateVars, requestVars, hookVars, AgreeInv, NothingToShow
<1> SUFFICES ASSUME Next PROVE /\ \A r \in Requests : pc'[r] = "start_run" => seen'[r] = status'
                               /\ Goal
  BY <1>0
<1>a. raced = {} /\ ~StartsOnOldStatus(pc', seen', status')
  BY RacesAreRecorded
<1>b. \A r \in Requests : pc'[r] = "start_run" => seen'[r] = status'
  BY <1>a DEF StartsOnOldStatus
<1>c. ~TwoWrite(pc, hook) /\ FreshReads
  BY <1>a DEF WriteInv
<1> USE <1>a, <1>c DEF TwoWrite, FreshReads, NothingToShow, RequestSection, HookSection,
      AgreeInv, TypeOK, Runs, Goto, Reply, HookGoto, HookReply, requestVars, hookVars,
      Lifecycle!ShownFor
<1>1. ASSUME NEW r \in Requests,
             \/ \E id \in Steps : SubmitStep(r, id)
             \/ UpsertStepSubmission(r) \/ GetSession(r) \/ LoadSession(r)
             \/ GetStepSubmissions(r) \/ ComputeRepairs(r) \/ Launch(r)
      PROVE  Goal
  <2>1. ~faulted
    BY <1>1 DEF SubmitStep, UpsertStepSubmission, GetSession, LoadSession, GetStepSubmissions,
                ComputeRepairs, Launch
  <2>2. QED BY <1>1, <2>1, QuietSteps
<1>2. ASSUME NEW r \in Requests, ReadRejection(r) PROVE Goal
  BY <1>2 DEF ReadRejection
<1>3. ASSUME NEW r \in Requests, DeleteOnCompleteRun(r) PROVE Goal
  BY <1>3 DEF DeleteOnCompleteRun, NoRun
<1>4. ASSUME NEW r \in Requests, GetOnCompleteRun(r) PROVE Goal
  BY <1>4 DEF GetOnCompleteRun
<1>5. ASSUME NEW r \in Requests, StartOnCompleteRun(r) PROVE Goal
  BY <1>5 DEF StartOnCompleteRun, NoRun
<1>6. ASSUME NEW r \in Requests, MarkVerifying(r) PROVE Goal
  BY <1>6 DEF MarkVerifying
<1>7. ASSUME NEW s \in Senders, PostVerdict(s) \/ \E v \in Verdicts : Deliver(s, v) PROVE Goal
  BY <1>7 DEF PostVerdict, Deliver
<1>8. ASSUME NEW s \in Senders, WebhookGetRun(s) PROVE Goal
  BY <1>8 DEF WebhookGetRun
<1>9. ASSUME NEW s \in Senders, FinishOnCompleteRun(s) PROVE Goal
  BY <1>9 DEF FinishOnCompleteRun
<1>10. ASSUME NEW s \in Senders, WebhookSetStatus(s) PROVE Goal
  BY <1>10 DEF WebhookSetStatus
<1>11. QED
  BY <1>b, <1>1, <1>2, <1>3, <1>4, <1>5, <1>6, <1>7, <1>8, <1>9, <1>10
  DEF Next, Handlers, RequestStep, WebhookStep, Senders, FailRequest, FailSender, Restart

(* With any number of handlers in flight, the session's status and its run  *)
(* agree whenever none of them is between the two writes, until a handler   *)
(* is cut short or a race happens.                                          *)
THEOREM StatusAgrees == Spec => []StatusAgreesWithRun
<1>1. Init => AgreeInv
  BY DEF Init, AgreeInv, NoRun, Lifecycle!ShownFor
<1>2. AgreeInv => StatusAgreesWithRun
  BY DEF AgreeInv, StatusAgreesWithRun
<1>3. QED BY <1>1, <1>2, WriteInvariant, AgreeInvStep, PTL DEF Spec

----------------------------------------------------------------------------
(* The refinement                                                          *)

(* A step that enters a section changes neither the run nor the status nor  *)
(* the submissions, so a race begins with a step the lifecycle can take.    *)
LEMMA RunUnchanged ==
  ASSUME UNCHANGED <<run, status, submitted>>, Next
  PROVE  [Lifecycle!Next]_Lifecycle!lifecycleVars
<1>1. CASE ("write" \in raced) = ("write" \in raced')
  BY <1>1 DEF Lifecycle!lifecycleVars
<1>2. CASE ("write" \in raced) # ("write" \in raced')
  <2>1. ("write" \in raced') = TRUE
    BY <1>2, RacesAreRecorded
  <2>2. QED BY <2>1 DEF Lifecycle!Next, Lifecycle!Cross
<1>3. QED BY <1>1, <1>2

(* A handler that writes was in its section before its step, and the step   *)
(* moves nobody else: a race is recorded after it only if it was before.    *)
LEMMA WritersWereInside ==
  ASSUME TypeOK, WriteInv, Next,
         \/ \E r \in Requests : UpsertStepSubmission(r) \/ DeleteOnCompleteRun(r)
                                  \/ StartOnCompleteRun(r) \/ MarkVerifying(r)
         \/ \E s \in Senders : FinishOnCompleteRun(s) \/ WebhookSetStatus(s)
  PROVE  ("write" \in raced') = ("write" \in raced)
<1>1. CASE "write" \in raced
  BY <1>1, RacesAreRecorded
<1>2. CASE "write" \notin raced
  <2>1. ~TwoWrite(pc, hook)
    BY <1>2 DEF WriteInv
  <2> USE DEF TypeOK, Goto, HookGoto, HookReply, requestVars, hookVars
  <2>2. ASSUME \E r \in Requests : UpsertStepSubmission(r) PROVE ~TwoWrite(pc', hook')
    <3>1. /\ hook' = hook
          /\ \A q \in Requests : pc'[q] \in RequestSection => pc[q] \in RequestSection
      BY <2>2 DEF UpsertStepSubmission, RequestSection
    <3>2. QED BY <2>1, <3>1 DEF TwoWrite
  <2>3. ASSUME \E r \in Requests : DeleteOnCompleteRun(r) PROVE ~TwoWrite(pc', hook')
    <3>1. /\ hook' = hook
          /\ \A q \in Requests : pc'[q] \in RequestSection => pc[q] \in RequestSection
      BY <2>3 DEF DeleteOnCompleteRun, RequestSection
    <3>2. QED BY <2>1, <3>1 DEF TwoWrite
  <2>4. ASSUME \E r \in Requests : StartOnCompleteRun(r) \/ MarkVerifying(r) PROVE ~TwoWrite(pc', hook')
    <3>1. /\ hook' = hook
          /\ \A q \in Requests : pc'[q] \in RequestSection => pc[q] \in RequestSection
      BY <2>4 DEF StartOnCompleteRun, MarkVerifying, RequestSection
    <3>2. QED BY <2>1, <3>1 DEF TwoWrite
  <2>5. ASSUME \E s \in Senders : FinishOnCompleteRun(s) \/ WebhookSetStatus(s) PROVE ~TwoWrite(pc', hook')
    <3>1. /\ pc' = pc
          /\ \A s \in Senders : hook'[s] \in HookSection => hook[s] \in HookSection
      BY <2>5 DEF FinishOnCompleteRun, WebhookSetStatus, HookSection
    <3>2. QED BY <2>1, <3>1 DEF TwoWrite
  <2>6. ~TwoWrite(pc', hook')
    BY <2>2, <2>3, <2>4, <2>5
  <2>7. QED BY <1>2, <2>6 DEF Next, Races
<1>3. QED BY <1>1, <1>2

LEMMA LifecycleStep ==
  TypeOK /\ TypeOK' /\ CompleteInv /\ WriteInv /\ [Next]_vars
    => [Lifecycle!Next]_Lifecycle!lifecycleVars
<1> SUFFICES ASSUME TypeOK, TypeOK', CompleteInv, WriteInv, [Next]_vars
             PROVE  [Lifecycle!Next]_Lifecycle!lifecycleVars
  OBVIOUS
<1>0. CASE UNCHANGED vars
  BY <1>0 DEF vars, stateVars, Lifecycle!lifecycleVars
<1> SUFFICES ASSUME Next PROVE [Lifecycle!Next]_Lifecycle!lifecycleVars
  BY <1>0
<1> USE DEF Lifecycle!Next, Lifecycle!lifecycleVars
<1>1. ASSUME NEW r \in Requests, UpsertStepSubmission(r)
      PROVE  [Lifecycle!Next]_Lifecycle!lifecycleVars
  <2>1. Steps \subseteq submitted => Steps \subseteq submitted'
    BY <1>1 DEF UpsertStepSubmission
  <2>2. UNCHANGED <<run, status>> /\ ("write" \in raced') = ("write" \in raced)
    BY <1>1, WritersWereInside DEF UpsertStepSubmission
  <2>3. CASE Steps \subseteq submitted'
    BY <2>2, <2>3 DEF Lifecycle!Finish
  <2>4. CASE ~(Steps \subseteq submitted')
    BY <2>1, <2>2, <2>4
  <2>5. QED BY <2>3, <2>4
<1>2. ASSUME \/ \E r \in Requests : DeleteOnCompleteRun(r) \/ StartOnCompleteRun(r) \/ MarkVerifying(r)
             \/ \E s \in Senders : FinishOnCompleteRun(s) \/ WebhookSetStatus(s),
             "write" \in raced,
             UNCHANGED submitted
      PROVE  [Lifecycle!Next]_Lifecycle!lifecycleVars
  <2>1. ("write" \in raced') = ("write" \in raced)
    BY <1>2, WritersWereInside
  <2>2. run'.status \in Lifecycle!Phases /\ status' \in {"in_progress", "verifying", "approved"}
    BY DEF TypeOK, Runs, NoRun, SessionStatus, Lifecycle!Phases
  <2>3. CASE Steps \subseteq submitted
    BY <1>2, <2>1, <2>2, <2>3 DEF Lifecycle!Astray
  <2>4. CASE ~(Steps \subseteq submitted)
    <3>1. /\ \A r \in Requests : pc[r] \notin {"start_run", "mark"}
          /\ \A s \in Senders : hook[s] = "idle"
          /\ run = NoRun
      BY <2>4 DEF CompleteInv, CompleteBeforeVerification, PastCompletenessCheck
    <3>2. UNCHANGED <<run, status>>
      BY <1>2, <3>1 DEF DeleteOnCompleteRun, StartOnCompleteRun, MarkVerifying,
                        FinishOnCompleteRun, WebhookSetStatus
    <3>3. QED BY <1>2, <2>1, <3>2
  <2>5. QED BY <2>3, <2>4
<1>3. ASSUME NEW r \in Requests, DeleteOnCompleteRun(r), "write" \notin raced
      PROVE  [Lifecycle!Next]_Lifecycle!lifecycleVars
  <2>1. /\ run.status = "rejected" /\ UNCHANGED <<status, submitted>>
        /\ ("write" \in raced') = ("write" \in raced)
    BY <1>3, WritersWereInside DEF DeleteOnCompleteRun, WriteInv, FreshReads
  <2>2. CASE run' = NoRun
    BY <2>1, <2>2 DEF Lifecycle!Redo, NoRun
  <2>3. CASE run' = run
    BY <2>1, <2>3
  <2>4. QED BY <1>3, <2>2, <2>3 DEF DeleteOnCompleteRun
<1>4. ASSUME NEW r \in Requests, StartOnCompleteRun(r), "write" \notin raced
      PROVE  [Lifecycle!Next]_Lifecycle!lifecycleVars
  <2>1. Steps \subseteq submitted
    BY <1>4 DEF StartOnCompleteRun, CompleteInv, PastCompletenessCheck
  <2>2. run = NoRun /\ ("write" \in raced') = ("write" \in raced)
    BY <1>4, WritersWereInside DEF StartOnCompleteRun, WriteInv, FreshReads
  <2>3. QED BY <1>4, <2>1, <2>2 DEF StartOnCompleteRun, NoRun, Lifecycle!Trigger
<1>5. ASSUME NEW r \in Requests, MarkVerifying(r), "write" \notin raced
      PROVE  [Lifecycle!Next]_Lifecycle!lifecycleVars
  BY <1>5, WritersWereInside
  DEF MarkVerifying, WriteInv, FreshReads, Lifecycle!Show, Lifecycle!ShownFor
<1>6. ASSUME NEW s \in Senders, FinishOnCompleteRun(s), "write" \notin raced
      PROVE  [Lifecycle!Next]_Lifecycle!lifecycleVars
  BY <1>6, WritersWereInside
  DEF FinishOnCompleteRun, Resolved, WriteInv, FreshReads, NoRun, Lifecycle!Verdict
<1>7. ASSUME NEW s \in Senders, WebhookSetStatus(s), "write" \notin raced
      PROVE  [Lifecycle!Next]_Lifecycle!lifecycleVars
  BY <1>7, WritersWereInside
  DEF WebhookSetStatus, WriteInv, FreshReads, Lifecycle!Show, Lifecycle!ShownFor
<1>8. ASSUME \/ \E r \in Requests : DeleteOnCompleteRun(r) \/ StartOnCompleteRun(r) \/ MarkVerifying(r)
             \/ \E s \in Senders : FinishOnCompleteRun(s) \/ WebhookSetStatus(s)
      PROVE  UNCHANGED submitted
  BY <1>8 DEF DeleteOnCompleteRun, StartOnCompleteRun, MarkVerifying, FinishOnCompleteRun,
              WebhookSetStatus
<1>9. ASSUME NEW r \in Requests,
             \/ \E id \in Steps : SubmitStep(r, id)
             \/ GetSession(r) \/ LoadSession(r) \/ ReadRejection(r) \/ GetStepSubmissions(r)
             \/ ComputeRepairs(r) \/ GetOnCompleteRun(r) \/ Launch(r) \/ FailRequest(r)
      PROVE  UNCHANGED <<run, status, submitted>>
  BY <1>9 DEF SubmitStep, GetSession, LoadSession, ReadRejection, GetStepSubmissions,
              ComputeRepairs, GetOnCompleteRun, Launch, FailRequest
<1>10. ASSUME NEW s \in Senders,
              \/ PostVerdict(s) \/ \E v \in Verdicts : Deliver(s, v)
              \/ WebhookGetRun(s) \/ FailSender(s)
       PROVE  UNCHANGED <<run, status, submitted>>
  BY <1>10 DEF PostVerdict, Deliver, WebhookGetRun, FailSender
<1>11. Restart => UNCHANGED <<run, status, submitted>>
  BY DEF Restart
<1>12. UNCHANGED <<run, status, submitted>> => [Lifecycle!Next]_Lifecycle!lifecycleVars
  BY RunUnchanged
<1>13. QED
  BY <1>1, <1>2, <1>3, <1>4, <1>5, <1>6, <1>7, <1>8, <1>9, <1>10, <1>11, <1>12
  DEF Next, Handlers, RequestStep, WebhookStep, Senders

(* Every behaviour of requests, webhooks, failures and restarts, in any     *)
(* interleaving, is one of the verification lifecycle, whose promises end   *)
(* where two handlers are in their sections at the same time.               *)
THEOREM CodeImplementsLifecycle == Spec => ImplementsLifecycle
<1>1. Init => Lifecycle!Init
  <2> SUFFICES ASSUME Init PROVE Lifecycle!Init
    OBVIOUS
  <2>1. ~(Steps \subseteq submitted)
    BY KycAssumption DEF Init, Steps
  <2>2. run.status = "none" /\ status = "in_progress" /\ raced = {}
    BY DEF Init, NoRun
  <2>3. QED BY <2>1, <2>2 DEF Lifecycle!Init
<1>2. Init => CompleteInv
  BY DEF Init, CompleteInv, CompleteBeforeVerification, PastCompletenessCheck
<1>3. QED
  BY <1>1, <1>2, TypeCorrect, CompleteInvStep, WriteInvariant, LifecycleStep, PTL
  DEF Spec, ImplementsLifecycle, Lifecycle!Spec

=============================================================================
