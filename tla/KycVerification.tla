--------------------------- MODULE KycVerification ---------------------------
(***************************************************************************)
(* The asynchronous identity verification of one registration session:     *)
(* sessions.status, its on_complete_runs row for the vendor_kyc adapter,   *)
(* the HTTP requests that reach BuildEnvelope and ensureOnComplete, the    *)
(* goroutines of the mock vendor and the webhook deliveries.               *)
(*                                                                         *)
(* Every store call of the code is one autocommit round trip and no        *)
(* handler takes a lock or opens a transaction, so a step of this module   *)
(* is one such round trip and handlers interleave between any two of them. *)
(* What a handler read earlier stays in its record and may be stale.       *)
(*                                                                         *)
(* Abstractions: rows of other sessions are never touched, so one session  *)
(* is modelled; reads with no effect here (Authenticate's, the flow        *)
(* definition's, the idempotency record's) and the audit log are left      *)
(* out, as are submissions that fail validation, which write nothing. A    *)
(* repair that is not about the verification (an expired document, a legal *)
(* text) and an unsubmitted conditional step are one nondeterministic      *)
(* outcome of computeRepairs.                                              *)
(***************************************************************************)
EXTENDS Naturals, FiniteSets

CONSTANTS
  Requests,     \* HTTP requests that may be in flight at once
  Goroutines,   \* slots for the sleeping runMockKYC goroutines
  Deliveries,   \* slots for verdicts delivered by a vendor outside this process
  Captures,     \* steps submitted through submitCapture (camera and signature)
  OtherSteps,   \* the other unconditional steps of the flow
  Reasons       \* reasons a vendor may give for a rejection

\* The camera step a rejection sends the user back to.
stepForRejectionReason(reason) == IF reason = "blurry_selfie" THEN "selfie" ELSE "id_card"

ASSUME KycAssumption ==
  /\ \A reason \in Reasons : stepForRejectionReason(reason) \in Captures
  /\ Reasons \cap {"none", "approved"} = {}
  /\ "none" \notin Captures \cup OtherSteps
  /\ Captures \cup OtherSteps # {}
  /\ Goroutines \cap Deliveries = {}

VARIABLES
  status,     \* sessions.status
  run,        \* the on_complete_runs row, or NoRun
  submitted,  \* steps with a step_submissions row
  pc,         \* where each request's handler is
  step,       \* the step it submits, while that matters
  seen,       \* the session status it has read, while that matters
  hook,       \* where each goroutine or webhook handler is
  verdict,    \* the verdict it carries
  called,     \* the vendor has been called about this session
  faulted,    \* history: a call has failed or the process has restarted
  raced       \* history: the races that handlers have run into, see Races

requestVars == <<pc, step, seen>>
hookVars == <<hook, verdict>>
stateVars == <<status, run, submitted, requestVars, hookVars, called, faulted>>
vars == <<stateVars, raced>>

Steps == Captures \cup OtherSteps
Senders == Goroutines \cup Deliveries

SessionStatus == {"in_progress", "verifying", "approved"}
Verdicts == {"approved"} \cup Reasons     \* a rejection is named by its reason

NoRun == [status |-> "none", attempt |-> 0, reason |-> "none"]
\* The column counts attempts without end; 2 stands for two or more.
Runs == {NoRun} \cup
        [status : {"pending", "approved", "rejected"}, attempt : 1..2,
         reason : Reasons \cup {"none"}]

RequestPcs ==
  {"idle", "upsert", "clear_read", "clear_delete",          \* submitting a step
   "load", "read_subs", "repairs",                          \* BuildEnvelope
   "get_run", "start_run", "mark", "launch"}                \* ensureOnComplete
HookPcs == {"idle", "asleep", "read_run", "finish_run", "set_status"}

TypeOK ==
  /\ status \in SessionStatus
  /\ run \in Runs
  /\ submitted \subseteq Steps
  /\ pc \in [Requests -> RequestPcs]
  /\ step \in [Requests -> Steps \cup {"none"}]
  /\ \A r \in Requests : pc[r] = "upsert" => step[r] \in Steps
  /\ seen \in [Requests -> SessionStatus \cup {"none"}]
  /\ hook \in [Senders -> HookPcs]
  /\ verdict \in [Senders -> Verdicts \cup {"none"}]
  /\ \A s \in Senders : hook[s] # "idle" => verdict[s] \in Verdicts
  /\ called \in BOOLEAN
  /\ faulted \in BOOLEAN
  /\ raced \subseteq {"trigger", "write", "status"}

Init ==
  /\ status = "in_progress"
  /\ run = NoRun
  /\ submitted = {}
  /\ pc = [r \in Requests |-> "idle"]
  /\ step = [r \in Requests |-> "none"]
  /\ seen = [r \in Requests |-> "none"]
  /\ hook = [s \in Senders |-> "idle"]
  /\ verdict = [s \in Senders |-> "none"]
  /\ called = FALSE
  /\ faulted = FALSE
  /\ raced = {}

----------------------------------------------------------------------------
(* Helpers                                                                 *)

Goto(r, location) == pc' = [pc EXCEPT ![r] = location] /\ UNCHANGED <<step, seen>>
Reply(r) ==
  /\ pc' = [pc EXCEPT ![r] = "idle"]
  /\ step' = [step EXCEPT ![r] = "none"]
  /\ seen' = [seen EXCEPT ![r] = "none"]

HookGoto(s, location) == hook' = [hook EXCEPT ![s] = location] /\ UNCHANGED verdict
HookReply(s) ==
  /\ hook' = [hook EXCEPT ![s] = "idle"]
  /\ verdict' = [verdict EXCEPT ![s] = "none"]

----------------------------------------------------------------------------
(* POST /sessions/{id}/steps/{stepId}: what precedes BuildEnvelope         *)

SubmitStep(r, id) ==
  /\ pc[r] = "idle"
  /\ pc' = [pc EXCEPT ![r] = "upsert"]
  /\ step' = [step EXCEPT ![r] = id]
  /\ UNCHANGED <<status, run, submitted, seen, hookVars, called, faulted>>

UpsertStepSubmission(r) ==
  /\ pc[r] = "upsert"
  /\ submitted' = submitted \cup {step[r]}
  /\ Goto(r, IF step[r] \in Captures THEN "clear_read" ELSE "load")
  /\ UNCHANGED <<status, run, hookVars, called, faulted>>

\* Mutant: any run is cleared, not only a rejected one.
ReadRejection_AnyRun(r) ==
  /\ pc[r] = "clear_read"
  /\ Goto(r, IF run # NoRun THEN "clear_delete" ELSE "load")
  /\ UNCHANGED <<status, run, submitted, hookVars, called, faulted>>

\* submitCapture looks for a rejected run; a failure of the read is ignored.
ReadRejection(r) ==
  /\ pc[r] = "clear_read"
  /\ \/ /\ run.status = "rejected"
        /\ Goto(r, "clear_delete")
        /\ UNCHANGED faulted
     \/ /\ run.status # "rejected"
        /\ Goto(r, "load")
        /\ UNCHANGED faulted
     \/ /\ Goto(r, "load")
        /\ faulted' = TRUE
  /\ UNCHANGED <<status, run, submitted, hookVars, called>>

\* DELETE of the row, whatever it says by now; a failure is ignored too.
DeleteOnCompleteRun(r) ==
  /\ pc[r] = "clear_delete"
  /\ \/ run' = NoRun /\ UNCHANGED faulted
     \/ run' = run /\ faulted' = TRUE
  /\ Goto(r, "load")
  /\ UNCHANGED <<status, submitted, hookVars, called>>

----------------------------------------------------------------------------
(* GET /sessions/{id}, a resume, and the tail of a submit: BuildEnvelope   *)

GetSession(r) ==
  /\ pc[r] = "idle"
  /\ Goto(r, "load")
  /\ UNCHANGED <<status, run, submitted, hookVars, called, faulted>>

\* The session row as this request knows it from now on.
LoadSession(r) ==
  /\ pc[r] = "load"
  /\ pc' = [pc EXCEPT ![r] = "read_subs"]
  /\ step' = [step EXCEPT ![r] = "none"]
  /\ seen' = [seen EXCEPT ![r] = status]
  /\ UNCHANGED <<status, run, submitted, hookVars, called, faulted>>

\* Mutant: the envelope looks only at the captures.
GetStepSubmissions_CapturesOnly(r) ==
  /\ pc[r] = "read_subs"
  /\ IF Captures \subseteq submitted THEN Goto(r, "repairs") ELSE Reply(r)
  /\ UNCHANGED <<status, run, submitted, hookVars, called, faulted>>

\* A step with no submission is the next step and ends the request.
GetStepSubmissions(r) ==
  /\ pc[r] = "read_subs"
  /\ IF Steps \subseteq submitted THEN Goto(r, "repairs") ELSE Reply(r)
  /\ UNCHANGED <<status, run, submitted, hookVars, called, faulted>>

\* A rejected run is a redo_step repair, so the request ends with a next step;
\* it may also end with another repair or with an unsubmitted conditional step.
ComputeRepairs(r) ==
  /\ pc[r] = "repairs"
  /\ \/ run.status # "rejected" /\ Goto(r, "get_run")
     \/ Reply(r)
  /\ UNCHANGED <<status, run, submitted, hookVars, called, faulted>>

----------------------------------------------------------------------------
(* ensureOnComplete                                                        *)

\* Mutant: only a finished run is skipped.
GetOnCompleteRun_SkipsFinishedOnly(r) ==
  /\ pc[r] = "get_run"
  /\ IF run.status \in {"none", "pending"} THEN Goto(r, "start_run") ELSE Reply(r)
  /\ UNCHANGED <<status, run, submitted, hookVars, called, faulted>>

\* A run that is pending, approved or rejected is left alone.
GetOnCompleteRun(r) ==
  /\ pc[r] = "get_run"
  /\ IF run = NoRun THEN Goto(r, "start_run") ELSE Reply(r)
  /\ UNCHANGED <<status, run, submitted, hookVars, called, faulted>>

\* INSERT, or on conflict the next attempt: whatever the row says, it is pending.
StartOnCompleteRun(r) ==
  /\ pc[r] = "start_run"
  /\ run' = [status |-> "pending", reason |-> "none",
             attempt |-> IF run = NoRun THEN 1 ELSE 2]
  /\ Goto(r, IF seen[r] = "in_progress" THEN "mark" ELSE "launch")
  /\ UNCHANGED <<status, submitted, hookVars, called, faulted>>

\* UpdateSessionStatus(verifying), decided on the status read by LoadSession.
MarkVerifying(r) ==
  /\ pc[r] = "mark"
  /\ status' = "verifying"
  /\ Goto(r, "launch")
  /\ UNCHANGED <<run, submitted, hookVars, called, faulted>>

RunMockKYC(g) ==
  /\ hook' = [hook EXCEPT ![g] = "asleep"]
  /\ verdict' = [verdict EXCEPT ![g] = "approved"]

\* Mutant: the vendor is called only by the request that marks the session.
Launch_OnlyWithMark(r) ==
  /\ pc[r] = "launch"
  /\ IF seen[r] = "in_progress"
     THEN \E g \in Goroutines : hook[g] = "idle" /\ RunMockKYC(g)
     ELSE UNCHANGED hookVars
  /\ called' = TRUE
  /\ Reply(r)
  /\ UNCHANGED <<status, run, submitted, faulted>>

\* go e.runMockKYC. When every slot is taken and one of them sleeps, the new
\* goroutine, which will post the same message, shares that slot.
Launch(r) ==
  /\ pc[r] = "launch"
  /\ \/ \E g \in Goroutines : hook[g] = "idle" /\ RunMockKYC(g)
     \/ /\ \A g \in Goroutines : hook[g] # "idle"
        /\ \E g \in Goroutines : hook[g] = "asleep"
        /\ UNCHANGED hookVars
  /\ called' = TRUE
  /\ Reply(r)
  /\ UNCHANGED <<status, run, submitted, faulted>>

----------------------------------------------------------------------------
(* The verdict: runMockKYC's call or another delivery, and HandleKYCWebhook *)

\* The mock vendor wakes up and posts its approval to the webhook.
PostVerdict(g) ==
  /\ hook[g] = "asleep"
  /\ HookGoto(g, "read_run")
  /\ UNCHANGED <<status, run, submitted, requestVars, called, faulted>>

\* A verdict from a vendor outside the process: late, repeated or contradicting
\* another one, but never before the vendor was called about the session.
Deliver(d, v) ==
  /\ hook[d] = "idle" /\ called
  /\ hook' = [hook EXCEPT ![d] = "read_run"]
  /\ verdict' = [verdict EXCEPT ![d] = v]
  /\ UNCHANGED <<status, run, submitted, requestVars, called, faulted>>

\* Mutant: a verdict is applied to a finished run as well.
WebhookGetRun_AnyRun(s) ==
  /\ hook[s] = "read_run"
  /\ IF run # NoRun THEN HookGoto(s, "finish_run") ELSE HookReply(s)
  /\ UNCHANGED <<status, run, submitted, requestVars, called, faulted>>

\* No run, or a run already resolved: an idempotent no-op.
WebhookGetRun(s) ==
  /\ hook[s] = "read_run"
  /\ IF run.status = "pending" THEN HookGoto(s, "finish_run") ELSE HookReply(s)
  /\ UNCHANGED <<status, run, submitted, requestVars, called, faulted>>

\* Mutant: the vendor's own word is stored instead of approved or rejected.
FinishOnCompleteRun_RawVerdict(s) ==
  /\ hook[s] = "finish_run"
  /\ run' = IF run = NoRun THEN run ELSE [run EXCEPT !.status = verdict[s]]
  /\ HookGoto(s, "set_status")
  /\ UNCHANGED <<status, submitted, requestVars, called, faulted>>

Resolved(outcome, reason) == [status |-> outcome, attempt |-> run.attempt, reason |-> reason]

\* An UPDATE with no condition on the status; without a row it changes nothing.
FinishOnCompleteRun(s) ==
  /\ hook[s] = "finish_run"
  /\ run' = IF run = NoRun THEN run
            ELSE IF verdict[s] = "approved" THEN Resolved("approved", "none")
            ELSE Resolved("rejected", verdict[s])
  /\ HookGoto(s, "set_status")
  /\ UNCHANGED <<status, submitted, requestVars, called, faulted>>

\* Mutant: a rejection leaves the session verifying.
WebhookSetStatus_ApprovalOnly(s) ==
  /\ hook[s] = "set_status"
  /\ status' = IF verdict[s] = "approved" THEN "approved" ELSE status
  /\ HookReply(s)
  /\ UNCHANGED <<run, submitted, requestVars, called, faulted>>

\* UpdateSessionStatus, decided on the verdict alone.
WebhookSetStatus(s) ==
  /\ hook[s] = "set_status"
  /\ status' = IF verdict[s] = "approved" THEN "approved" ELSE "in_progress"
  /\ HookReply(s)
  /\ UNCHANGED <<run, submitted, requestVars, called, faulted>>

----------------------------------------------------------------------------
(* Faults                                                                  *)

\* A store call fails, or the client goes away and its context is cancelled:
\* the handler returns an error and what it had written stays.
FailRequest(r) ==
  /\ pc[r] \in {"upsert", "load", "read_subs", "repairs", "get_run", "start_run", "mark"}
  /\ Reply(r)
  /\ faulted' = TRUE
  /\ UNCHANGED <<status, run, submitted, hookVars, called>>

\* The webhook call cannot be made, or its handler fails; nothing retries it.
FailSender(s) ==
  /\ hook[s] # "idle"
  /\ HookReply(s)
  /\ faulted' = TRUE
  /\ UNCHANGED <<status, run, submitted, requestVars, called>>

\* The process dies and comes back: the rows survive, handlers and goroutines
\* do not, and nothing looks for pending runs at boot.
Restart ==
  /\ pc' = [r \in Requests |-> "idle"]
  /\ step' = [r \in Requests |-> "none"]
  /\ seen' = [r \in Requests |-> "none"]
  /\ hook' = [s \in Senders |-> "idle"]
  /\ verdict' = [s \in Senders |-> "none"]
  /\ faulted' = TRUE
  /\ UNCHANGED <<status, run, submitted, called>>

----------------------------------------------------------------------------

RequestStep(r) ==
  \/ UpsertStepSubmission(r) \/ ReadRejection(r) \/ DeleteOnCompleteRun(r)
  \/ LoadSession(r) \/ GetStepSubmissions(r) \/ ComputeRepairs(r)
  \/ GetOnCompleteRun(r) \/ StartOnCompleteRun(r) \/ MarkVerifying(r) \/ Launch(r)

WebhookStep(s) == WebhookGetRun(s) \/ FinishOnCompleteRun(s) \/ WebhookSetStatus(s)

Handlers ==
  \/ \E r \in Requests : GetSession(r) \/ RequestStep(r) \/ FailRequest(r)
  \/ \E r \in Requests, id \in Steps : SubmitStep(r, id)
  \/ \E g \in Goroutines : PostVerdict(g)
  \/ \E d \in Deliveries, v \in Verdicts : Deliver(d, v)
  \/ \E s \in Senders : WebhookStep(s) \/ FailSender(s)
  \/ Restart

(* The races that no lock or transaction of the code rules out, as they     *)
(* show in one state: between reading the store and writing what that       *)
(* reading decided, a handler is in a section that nobody else should be in. *)
(*   "trigger"  two requests have both found no run and will both start it   *)
(*   "write"    two handlers are in such sections at the same time           *)
(*   "status"   a request that is about to start a run has read a status     *)
(*              that is no longer the session's                              *)
RequestSection == {"clear_delete", "start_run", "mark"}
HookSection == {"finish_run", "set_status"}

TwoStart(pcs) == \E q, r \in Requests : q # r /\ pcs[q] = "start_run" /\ pcs[r] = "start_run"
TwoWrite(pcs, hooks) ==
  \/ \E q, r \in Requests : q # r /\ pcs[q] \in RequestSection /\ pcs[r] \in RequestSection
  \/ \E s, t \in Senders : s # t /\ hooks[s] \in HookSection /\ hooks[t] \in HookSection
  \/ \E r \in Requests, s \in Senders : pcs[r] \in RequestSection /\ hooks[s] \in HookSection
StartsOnOldStatus(pcs, seens, current) ==
  \E r \in Requests : pcs[r] = "start_run" /\ seens[r] # current

Races(pcs, seens, hooks, current) ==
  {race \in {"trigger", "write", "status"} :
     \/ race = "trigger" /\ TwoStart(pcs)
     \/ race = "write" /\ TwoWrite(pcs, hooks)
     \/ race = "status" /\ StartsOnOldStatus(pcs, seens, current)}

Next == Handlers /\ raced' = raced \cup Races(pc', seen', hook', status')

Spec == Init /\ [][Next]_vars

(* A handler that has begun goes on, and a sleeping goroutine wakes up: the *)
(* Go scheduler runs every runnable goroutine and KYCDelay is finite. No    *)
(* user has to come back and no vendor outside has to deliver anything.     *)
Fairness ==
  /\ \A r \in Requests : WF_stateVars(RequestStep(r))
  /\ \A g \in Goroutines : WF_stateVars(PostVerdict(g))
  /\ \A s \in Senders : WF_stateVars(WebhookStep(s))

\* Both properties that need fairness are about behaviours without faults, and
\* faulted stays: what follows a fault cannot refute them.
FaultlessSpec == Init /\ [][Next /\ ~faulted']_vars /\ Fairness

----------------------------------------------------------------------------
(* Properties                                                              *)

(* The vendor is paid, and a session shown as verifying or approved, only   *)
(* once every unconditional step was submitted: ensureOnComplete is reached *)
(* from no other place than an envelope with nothing left to resolve.       *)
CompleteBeforeVerification ==
  run # NoRun \/ called \/ status # "in_progress" => Steps \subseteq submitted

(* A pending run always has someone who will resolve it, as long as no call *)
(* failed: the request about to call the vendor, the vendor's goroutine, or *)
(* a webhook handler that has not written its verdict yet. Whoever starts a *)
(* run launches a goroutine, even when it lost the race to mark the session. *)
Responsible ==
  \/ \E r \in Requests : pc[r] \in {"mark", "launch"}
  \/ \E s \in Senders : hook[s] \in {"asleep", "read_run", "finish_run"}
NoOrphanedRun == ~faulted /\ run.status = "pending" => Responsible

(* Without faults a pending run is eventually resolved, whatever overlaps. *)
RunResolves == run.status = "pending" ~> (run.status # "pending" \/ faulted)

(* The adapter is triggered once per round: a second attempt on the same    *)
(* row means that two requests both found no run and both called the vendor *)
(* (kyc.go: "triggers every on_complete adapter exactly once per session"). *)
TriggeredOnce == run.attempt <= 1

(* What the code keeps of that claim: with any number of handlers in flight *)
(* a second attempt has one cause, two requests that stood between the read *)
(* of the run and the upsert at the same time. No retry, redo, late verdict, *)
(* failure or restart triggers the vendor again.                            *)
TriggeredOnceUnlessRaced == run.attempt <= 1 \/ "trigger" \in raced

(* Once approved a session stays approved: later verdicts, submits and      *)
(* envelopes leave it alone (contract 2.7: "duplicate verdict on a terminal *)
(* session is a no-op"), however many handlers are in flight, unless two of *)
(* them were inside a section that acts on an earlier read at the same time. *)
ApprovedIsFinal ==
  [][status = "approved" /\ "write" \notin raced => status' = "approved"]_vars

(* While no handler stands between the two writes of a run and its status,  *)
(* the session's status says what the run says, unless a handler was cut    *)
(* short or one of the races has happened.                                  *)
Lifecycle == INSTANCE VerificationLifecycle
  WITH phase <- run.status, shown <- status, complete <- Steps \subseteq submitted,
       crossed <- "write" \in raced
NothingToShow ==
  /\ \A r \in Requests : pc[r] # "mark"
  /\ \A s \in Senders : hook[s] # "set_status"
StatusAgreesWithRun ==
  ~faulted /\ raced = {} /\ NothingToShow => status = Lifecycle!ShownFor(run.status)

(* The code implements the lifecycle, crashes and failures included, for as *)
(* long as no two handlers have been in their sections at the same time.    *)
ImplementsLifecycle == Lifecycle!Spec

(* A session that is being verified does not stay so for ever, unless a     *)
(* call failed or two handlers' writes crossed.                             *)
VerifyingEnds ==
  status = "verifying" ~> (status # "verifying" \/ faulted \/ "write" \in raced)

=============================================================================
