--------------------------- MODULE Reconciliation ---------------------------
(***************************************************************************)
(* One session on its way through a flow that is republished, and a legal  *)
(* document that is revised, while the user fills it in. Every accepted    *)
(* submit and every GET ends in BuildEnvelope, which may move the session  *)
(* to the latest flow version, computes the repairs, tells the client the  *)
(* next step, and starts the verification when nothing is left.            *)
(*                                                                         *)
(* Each round trip that writes, and the read it depends on, is a step of   *)
(* its request, so requests of the session overlap. The reads from the     *)
(* submissions to next_step are one step: KycVerification takes them apart.*)
(* Steps are forms, cameras, documents, or "other" (signature, pin,        *)
(* external: anything that is complete once it was submitted). A capture   *)
(* whose upload is refused writes nothing and is left out: CaptureUpload.  *)
(***************************************************************************)
EXTENDS FlowDefinition

CONSTANTS
  Requests,     \* requests in flight at once
  Steps,        \* the step ids of every version
  Keys,         \* the field keys of every version
  Values,       \* what a field may be answered
  Flow,         \* Flow[v]: the definition published as version v
  Legal,        \* versions of the legal document, in the order they take effect
  Reacceptance, \* those whose reacceptance is "required"
  MaxEdits,     \* bound on pages the user submits unasked
  MaxEvents     \* bound on expiries, revisions, publishings, rejections and failures

VARIABLES
  published,    \* the latest flow version in flow_versions
  active,       \* the legal version in effect
  version, status,               \* the sessions row
  run, reason,                   \* the on_complete_runs row, and the step it rejected
  answers, submitted, expired,   \* submissions, and cameras past their TTL
  consent,                       \* the latest consent's version, 0 for none
  told, shown,                   \* the client: the step it was told, the legal text it shows
  pc, step, page, doc,           \* each request: where it is and what it submits
  using,                         \* the flow version it validates with
  seenVersion, seenStatus,       \* the session as its BuildEnvelope read it
  returned,                      \* history: a rejection has sent the user back
  behind,                        \* history: what others wrote since a request read it
  edits, events                  \* what the bounds have used up

configuration == <<published, active>>
sessionVars == <<version, status, run, reason, returned>>
submissionVars == <<answers, submitted, expired, consent>>
clientVars == <<told, shown>>
requestVars == <<pc, step, page, doc, using, seenVersion, seenStatus>>
vars == <<configuration, sessionVars, submissionVars, clientVars, requestVars, edits, events, behind>>

Versions == DOMAIN Flow
Pages == [Keys -> Values \cup {Blank}]
Empty == [k \in Keys |-> Blank]
\* What may be submitted as step s: the code drops every other key unread.
KeysOf(s) == {f.key : f \in UNION {Flow[v].fields[s] : v \in Versions}}
PagesOf ==
  [s \in Steps |-> {[k \in Keys |-> IF k \in KeysOf(s) THEN p[k] ELSE Blank] : p \in Pages}]
Done == "done"

ASSUME FlowAssumption ==
  /\ Versions \subseteq Nat \ {0} /\ 1 \in Versions
  /\ \A v \in Versions : WellFormed(Flow[v]) /\ DOMAIN Flow[v].fields = Steps
  /\ \A v \in Versions, s \in Steps : \A f \in Flow[v].fields[s] : f.key \in Keys
  /\ Legal \subseteq Nat \ {0} /\ 1 \in Legal /\ Reacceptance \subseteq Legal
  /\ {NoStep, Done} \cap Steps = {}
  /\ MaxEdits \in Nat /\ MaxEvents \in Nat

Locations == {"idle", "process", "consent", "write", "load", "upgrade", "pin", "reconcile", "trigger", "start", "mark"}
Statuses == {"in_progress", "verifying", "approved"}

TypeOK ==
  /\ published \in Versions /\ active \in Legal
  /\ version \in Versions /\ status \in Statuses
  /\ run \in {"none", "started", "pending", "approved", "rejected"}
  /\ reason \in Steps \cup {NoStep} /\ returned \in BOOLEAN
  /\ answers \in [Steps -> Pages]
  /\ submitted \in SUBSET Steps /\ expired \in SUBSET Steps
  /\ consent \in Legal \cup {0}
  /\ told \in Steps \cup {Done, NoStep} /\ shown \in Legal
  /\ pc \in [Requests -> Locations]
  /\ step \in [Requests -> Steps \cup {NoStep}]
  /\ \A r \in Requests : pc[r] \in {"process", "consent", "write"} => step[r] \in Steps
  /\ page \in [Requests -> Pages] /\ doc \in [Requests -> Legal \cup {0}]
  /\ using \in [Requests -> Versions \cup {0}]
  /\ seenVersion \in [Requests -> Versions \cup {0}]
  /\ seenStatus \in [Requests -> Statuses]
  /\ edits \in 0..MaxEdits /\ events \in 0..MaxEvents
  /\ behind \in [Requests -> SUBSET {"answers", "version"}]

Init ==
  /\ published = 1 /\ active = 1
  /\ version = 1 /\ status = "in_progress"
  /\ run = "none" /\ reason = NoStep /\ returned = FALSE
  /\ answers = [s \in Steps |-> Empty]
  /\ submitted = {} /\ expired = {} /\ consent = 0
  /\ told = NoStep /\ shown = 1
  /\ pc = [r \in Requests |-> "idle"]
  /\ step = [r \in Requests |-> NoStep]
  /\ page = [r \in Requests |-> Empty]
  /\ doc = [r \in Requests |-> 0]
  /\ using = [r \in Requests |-> 0]
  /\ seenVersion = [r \in Requests |-> 0]
  /\ seenStatus = [r \in Requests |-> "in_progress"]
  /\ edits = 0 /\ events = 0
  /\ behind = [r \in Requests |-> {}]

Goto(r, location) == pc' = [pc EXCEPT ![r] = location]
Finish(r) ==
  /\ pc' = [pc EXCEPT ![r] = "idle"]
  /\ step' = [step EXCEPT ![r] = NoStep]
  /\ page' = [page EXCEPT ![r] = Empty]
  /\ doc' = [doc EXCEPT ![r] = 0]
  /\ using' = [using EXCEPT ![r] = 0]
  /\ seenVersion' = [seenVersion EXCEPT ![r] = 0]
  /\ seenStatus' = [seenStatus EXCEPT ![r] = "in_progress"]

body == <<step, page, doc, using>>
seen == <<seenVersion, seenStatus>>
bounds == <<edits, events>>

Definition(r) == Flow[using[r]]
Type(r) == Definition(r).type[step[r]]
Event == events < MaxEvents /\ events' = events + 1 /\ UNCHANGED edits

----------------------------------------------------------------------------
(* POST /sessions/{id}/steps/{stepId}: authentication and processStep      *)

\* The session as it is now decides which version the body is checked with.
Begin(r, s, p) ==
  /\ pc[r] = "idle"
  /\ Goto(r, "process")
  /\ step' = [step EXCEPT ![r] = s]
  /\ page' = [page EXCEPT ![r] = p]
  /\ doc' = [doc EXCEPT ![r] = shown]
  /\ using' = [using EXCEPT ![r] = version]
  /\ UNCHANGED <<configuration, sessionVars, submissionVars, clientVars, seen>>

\* 404: not a step of this version.
UnknownStep(r) ==
  /\ pc[r] = "process" /\ step[r] \notin ToSet(Definition(r).steps)
  /\ Finish(r)
  /\ UNCHANGED <<configuration, sessionVars, submissionVars, clientVars, bounds>>

\* The page is checked against the answers stored now; 422 writes nothing.
SubmitForm(r) ==
  /\ pc[r] = "process" /\ step[r] \in ToSet(Definition(r).steps) /\ Type(r) = "form"
  /\ IF ValidateForm(Definition(r), step[r], page[r], answers)
     THEN Goto(r, "write") /\ UNCHANGED <<body, seen>>
     ELSE Finish(r)
  /\ UNCHANGED <<configuration, sessionVars, submissionVars, clientVars, bounds>>

\* Only the version in effect is accepted; 409 carries the one to show instead.
SubmitDocument(r) ==
  /\ pc[r] = "process" /\ step[r] \in ToSet(Definition(r).steps) /\ Type(r) = "document"
  /\ IF doc[r] = active
     THEN Goto(r, "consent") /\ UNCHANGED <<body, seen, shown>>
     ELSE Finish(r) /\ shown' = active
  /\ UNCHANGED <<configuration, sessionVars, submissionVars, told, bounds>>

InsertConsent(r) ==
  /\ pc[r] = "consent"
  /\ consent' = doc[r]
  /\ Goto(r, "write")
  /\ UNCHANGED <<configuration, sessionVars, answers, submitted, expired, clientVars, body, seen, bounds>>

\* The checks of the other step types are CaptureUpload's, or none.
SubmitOther(r) ==
  /\ pc[r] = "process" /\ step[r] \in ToSet(Definition(r).steps)
  /\ Type(r) \notin {"form", "document"}
  /\ Goto(r, "write")
  /\ UNCHANGED <<configuration, sessionVars, submissionVars, clientVars, body, seen, bounds>>

\* The whole page is replaced; a capture is fresh and clears a rejected run
\* (round trips of their own, which CaptureUpload and KycVerification have).
UpsertStepSubmission(r) ==
  /\ pc[r] = "write"
  /\ submitted' = submitted \cup {step[r]}
  /\ answers' = [answers EXCEPT ![step[r]] = Kept(Definition(r), step[r], page[r])]
  /\ expired' = expired \ {step[r]}
  /\ run' = IF run = "rejected" /\ Type(r) \in {"camera", "signature"} THEN "none" ELSE run
  /\ reason' = IF run' = "none" THEN NoStep ELSE reason
  /\ Goto(r, "load")
  /\ UNCHANGED <<configuration, version, status, returned, consent, clientVars, body, seen, bounds>>

----------------------------------------------------------------------------
(* GET /sessions/{id}, and BuildEnvelope                                   *)

GetSession(r) ==
  /\ pc[r] = "idle"
  /\ Goto(r, "load")
  /\ UNCHANGED <<configuration, sessionVars, submissionVars, clientVars, body, seen, bounds>>

LoadSession(r) ==
  /\ pc[r] = "load"
  /\ seenVersion' = [seenVersion EXCEPT ![r] = version]
  /\ seenStatus' = [seenStatus EXCEPT ![r] = status]
  /\ Goto(r, "upgrade")
  /\ UNCHANGED <<configuration, sessionVars, submissionVars, clientVars, body, bounds>>

\* Mutant: any session is upgraded.
MaybeUpgradeFlowVersion_AnyStatus(r) ==
  /\ pc[r] = "upgrade"
  /\ Goto(r, IF published > seenVersion[r] THEN "pin" ELSE "reconcile")
  /\ UNCHANGED <<configuration, sessionVars, submissionVars, clientVars, body, seen, bounds>>

\* Mutant: sessions stay on the version they started on.
MaybeUpgradeFlowVersion_Never(r) ==
  /\ pc[r] = "upgrade"
  /\ Goto(r, "reconcile")
  /\ UNCHANGED <<configuration, sessionVars, submissionVars, clientVars, body, seen, bounds>>

MaybeUpgradeFlowVersion(r) ==
  /\ pc[r] = "upgrade"
  /\ Goto(r, IF seenStatus[r] = "in_progress" /\ published > seenVersion[r] THEN "pin" ELSE "reconcile")
  /\ UNCHANGED <<configuration, sessionVars, submissionVars, clientVars, body, seen, bounds>>

\* Mutant: one version too far.
UpdateSessionFlowVersion_OneMore(r) ==
  /\ pc[r] = "pin"
  /\ version' = published + 1
  /\ seenVersion' = [seenVersion EXCEPT ![r] = published + 1]
  /\ Goto(r, "reconcile")
  /\ UNCHANGED <<configuration, status, run, reason, returned, submissionVars, clientVars, body, seenStatus, bounds>>

UpdateSessionFlowVersion(r) ==
  /\ pc[r] = "pin"
  /\ version' = published
  /\ seenVersion' = [seenVersion EXCEPT ![r] = published]
  /\ Goto(r, "reconcile")
  /\ UNCHANGED <<configuration, status, run, reason, returned, submissionVars, clientVars, body, seenStatus, bounds>>

CollectFields(d, s) ==
  d.type[s] = "form" /\ s \in submitted /\ Missing(d, s, answers[s], answers) # {}
ReacceptDocument(d, s) ==
  d.type[s] = "document" /\ consent # 0 /\ active # consent /\ active \in Reacceptance
RedoStep(d, s) ==
  \/ d.type[s] = "camera" /\ s \in expired
  \/ run = "rejected" /\ reason = s

\* Mutant: a repair never outlives the step's submission.
Unresolved_SubmittedIsDone(d, s) == s \notin submitted

\* Mutant: a rejection has no repair.
Unresolved_IgnoresRejection(d, s) ==
  \/ CollectFields(d, s) \/ ReacceptDocument(d, s)
  \/ d.type[s] = "camera" /\ s \in expired
  \/ s \notin submitted

\* nextUnresolved: the target of a repair, or not completed yet.
Unresolved(d, s) ==
  CollectFields(d, s) \/ ReacceptDocument(d, s) \/ RedoStep(d, s) \/ s \notin submitted

\* The envelope names the first unresolved step of the order.
ServeNext(r) ==
  LET d == Flow[seenVersion[r]]
      order == ResolveOrder(d, answers)
  IN /\ pc[r] = "reconcile"
     /\ \E s \in Steps :
          /\ \E i \in DOMAIN order :
               /\ order[i] = s /\ Unresolved(d, s)
               /\ \A j \in 1..i - 1 : ~Unresolved(d, order[j])
          /\ told' = s
          /\ shown' = IF d.type[s] = "document" THEN active ELSE shown
     /\ Finish(r)
     /\ UNCHANGED <<configuration, sessionVars, submissionVars, bounds>>

FlowComplete(r) ==
  LET d == Flow[seenVersion[r]]
      order == ResolveOrder(d, answers)
  IN /\ pc[r] = "reconcile"
     /\ \A i \in DOMAIN order : ~Unresolved(d, order[i])
     /\ Goto(r, "trigger")
     /\ UNCHANGED <<configuration, sessionVars, submissionVars, clientVars, body, seen, bounds>>

\* A run that exists is left alone.
GetOnCompleteRun(r) ==
  /\ pc[r] = "trigger"
  /\ IF run = "none"
     THEN Goto(r, "start") /\ UNCHANGED <<told, body, seen>>
     ELSE told' = Done /\ Finish(r)
  /\ UNCHANGED <<configuration, sessionVars, submissionVars, shown, bounds>>

\* The row is pending, whatever it was; "started" until the vendor is called.
StartOnCompleteRun(r) ==
  /\ pc[r] = "start"
  /\ run' = IF run \in {"none", "started"} THEN "started" ELSE "pending"
  /\ reason' = NoStep
  /\ Goto(r, "mark")
  /\ UNCHANGED <<configuration, version, status, returned, submissionVars, clientVars, body, seen, bounds>>

\* The session is marked by the status its request read, and the vendor called.
MarkVerifying(r) ==
  /\ pc[r] = "mark"
  /\ run' = IF run = "started" THEN "pending" ELSE run
  /\ status' = IF seenStatus[r] = "in_progress" THEN "verifying" ELSE status
  /\ told' = Done
  /\ Finish(r)
  /\ UNCHANGED <<configuration, version, reason, returned, submissionVars, shown, bounds>>

----------------------------------------------------------------------------
(* What happens around the requests                                        *)

\* The verdict on a run the vendor was given; late ones, and the round trips of
\* the webhook, are KycVerification's.
Approve ==
  /\ run = "pending"
  /\ run' = "approved" /\ status' = "approved"
  /\ UNCHANGED <<configuration, version, reason, returned, submissionVars, clientVars, requestVars, bounds>>
\* A rejection hands the session back to the user.
Reject(s) ==
  /\ run = "pending" /\ Flow[version].type[s] = "camera" /\ Event
  /\ run' = "rejected" /\ reason' = s /\ status' = "in_progress" /\ returned' = TRUE
  /\ UNCHANGED <<configuration, version, submissionVars, clientVars, requestVars>>

\* A capture passes DocumentTTL.
Expire(s) ==
  /\ s \in submitted \ expired /\ Flow[version].type[s] = "camera" /\ Event
  /\ expired' = expired \cup {s}
  /\ UNCHANGED <<configuration, sessionVars, answers, submitted, consent, clientVars, requestVars>>

\* The next legal version's effective_at passes.
TakeEffect(v) ==
  /\ v > active /\ (\A w \in Legal : w <= active \/ w >= v) /\ Event
  /\ active' = v
  /\ UNCHANGED <<published, sessionVars, submissionVars, clientVars, requestVars>>

\* A flow version is published by seeding it at boot: requests in flight are gone.
Publish(v) ==
  /\ v > published /\ Event
  /\ published' = v
  /\ pc' = [r \in Requests |-> "idle"]
  /\ step' = [r \in Requests |-> NoStep]
  /\ page' = [r \in Requests |-> Empty]
  /\ doc' = [r \in Requests |-> 0]
  /\ using' = [r \in Requests |-> 0]
  /\ seenVersion' = [r \in Requests |-> 0]
  /\ seenStatus' = [r \in Requests |-> "in_progress"]
  /\ UNCHANGED <<active, sessionVars, submissionVars, clientVars>>

\* A store call of a request fails, or its client goes away.
Fail(r) ==
  /\ pc[r] # "idle" /\ Event
  /\ Finish(r)
  /\ UNCHANGED <<configuration, sessionVars, submissionVars, clientVars>>

\* The user fills in the step the client shows as the flow asks for it; the
\* client leaves out the fields it does not show.
Answer(r) ==
  /\ told \in Steps /\ pc[r] = "idle"
  /\ \E p \in PagesOf[told] :
       /\ Flow[version].type[told] = "form" => ValidateForm(Flow[version], told, p, answers)
       /\ \A f \in Flow[version].fields[told] : ~Visible(f, p, answers) => p[f.key] = Blank
       /\ Begin(r, told, p)
  /\ UNCHANGED bounds

\* The user, or an old client, submits any page.
Edit(r, s, p) ==
  /\ edits < MaxEdits /\ edits' = edits + 1 /\ UNCHANGED events
  /\ Begin(r, s, p)

----------------------------------------------------------------------------

Submit(r) ==
  UnknownStep(r) \/ SubmitForm(r) \/ SubmitDocument(r) \/ InsertConsent(r) \/ SubmitOther(r) \/ UpsertStepSubmission(r)
BuildEnvelope(r) ==
  LoadSession(r) \/ MaybeUpgradeFlowVersion(r) \/ UpdateSessionFlowVersion(r)
  \/ ServeNext(r) \/ FlowComplete(r)
  \/ GetOnCompleteRun(r) \/ StartOnCompleteRun(r) \/ MarkVerifying(r)

Move ==
  \/ \E r \in Requests :
       \/ Answer(r) \/ GetSession(r) \/ Submit(r) \/ BuildEnvelope(r) \/ Fail(r)
       \/ \E s \in Steps : \E p \in PagesOf[s] : Edit(r, s, p)
  \/ Approve
  \/ \E s \in Steps : Reject(s) \/ Expire(s)
  \/ \E v \in Legal : TakeEffect(v)
  \/ \E v \in Versions : Publish(v)

\* What a request writes in this step: a page, or the flow version.
Writes(r) ==
  {w \in {"answers", "version"} :
     IF w = "answers" THEN pc[r] = "write" /\ pc'[r] = "load" ELSE pc[r] = "pin" /\ pc'[r] = "reconcile"}

\* What it starts over with: everything before its page is checked, the version
\* when it reads the session or moves it, the answers when it finds them complete.
Refreshes(r) ==
  {w \in {"answers", "version"} :
     \/ pc'[r] \in {"idle", "process"}
     \/ w = "version" /\ (pc[r] = "load" \/ (pc[r] = "pin" /\ pc'[r] # "pin"))
     \/ w = "answers" /\ pc[r] = "reconcile" /\ pc'[r] = "trigger"}

Next ==
  /\ Move
  /\ behind' = [r \in Requests |->
       (behind[r] \cup UNION {Writes(q) : q \in Requests \ {r}}) \ Refreshes(r)]

Spec == Init /\ [][Next]_vars

\* Handlers run to their end; a user who is told a step keeps answering it, and
\* looks again otherwise.
Fairness ==
  \A r \in Requests :
    /\ WF_pc(Submit(r) \/ BuildEnvelope(r))
    /\ SF_pc(Answer(r))
    /\ WF_pc(GetSession(r))

FairSpec == Spec /\ Fairness

----------------------------------------------------------------------------
(* Properties                                                              *)

\* A GET that read a session while it was verified may outlive the rejection and
\* race with the redo: it goes on as if the session were completed.
Undisturbed == returned => \A p, q \in Requests : p = q

(* reconcile.go: "a completed/terminal session never moves". A verifying or *)
(* approved session keeps its flow version, even when a request that read   *)
(* it before it was completed has yet to upgrade it.                        *)
TerminalNeverMoves ==
  [][Undisturbed /\ status # "in_progress" => version' = version]_vars

(* A verification, the first or one after a rejection, is of the flow       *)
(* version published last: no session completes on a replaced version.      *)
VerifiedOnLatestFlow ==
  [][Undisturbed /\ run = "none" /\ run' = "started" => version = published]_vars

(* When a verification is started, every step of the order was submitted    *)
(* and no page misses a required answer, whatever was edited, republished   *)
(* or made conditional on the way, by however many requests at once; unless *)
(* another request replaced a page after this one found the answers         *)
(* complete or, once a rejection sent the user back, moved the session to   *)
(* another version after this one read it.                                  *)
VerifiedOnCompleteAnswers ==
  [][\A r \in Requests :
       /\ StartOnCompleteRun(r) /\ run = "none"
       /\ "answers" \notin behind[r]
       /\ returned => "version" \notin behind[r]
       => LET d == Flow[version]
              order == ResolveOrder(d, answers)
          IN \A i \in DOMAIN order :
               /\ order[i] \in submitted
               /\ d.type[order[i]] = "form" => Missing(d, order[i], answers[order[i]], answers) = {}]_vars

(* A form page that was accepted is not asked for again in the same answer, *)
(* unless the session moved to a newer flow version in between, or another  *)
(* request replaced a page (plan.md: "Step already completed, still valid:  *)
(* keep, never re-ask").                                                    *)
AcceptedPageIsNotAskedAgain ==
  [][\A r \in Requests :
       /\ step[r] # NoStep /\ Type(r) = "form"
       /\ using[r] = seenVersion[r] /\ "answers" \notin behind[r]
       /\ ServeNext(r)
       => told' # step[r]]_vars

(* A user who answers what the session asks for gets to a verification:     *)
(* repairs, branches and upgrades never send them round in circles, and a   *)
(* rejection leads to another verification.                                 *)
VerificationIsReached ==
  run \in {"none", "rejected"} ~> run \in {"started", "pending", "approved"}

(* A version with required reacceptance that took effect since the consent  *)
(* is asked about before the flow is complete (the contract's trigger of    *)
(* reaccept_document).                                                      *)
ReacceptanceIsAsked ==
  [][\A r \in Requests : FlowComplete(r) /\ consent # 0 =>
       \A v \in Reacceptance : ~(consent < v /\ v <= active)]_vars

=============================================================================
