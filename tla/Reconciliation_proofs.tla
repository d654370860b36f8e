------------------------ MODULE Reconciliation_proofs ------------------------
(***************************************************************************)
(* Theorems of Reconciliation, for any number of overlapping requests, any *)
(* flow and any number of its versions.                                    *)
(***************************************************************************)
EXTENDS Reconciliation, FlowDefinition_proofs

----------------------------------------------------------------------------
(* Types                                                                   *)

LEMMA KeptIsAPage ==
  ASSUME NEW d, NEW s, NEW p \in Pages
  PROVE  Kept(d, s, p) \in Pages
BY DEF Kept, Pages

LEMMA EmptyIsAPage == Empty \in Pages
BY DEF Empty, Pages

LEMMA InitTypeOK == Init => TypeOK
<1> SUFFICES ASSUME Init PROVE TypeOK
  OBVIOUS
<1>1. /\ published \in Versions /\ active \in Legal /\ version \in Versions /\ status \in Statuses
      /\ run \in {"none", "started", "pending", "approved", "rejected"}
      /\ reason \in Steps \cup {NoStep} /\ returned \in BOOLEAN
  BY FlowAssumption DEF Init, Statuses
<1>2. /\ answers \in [Steps -> Pages]
      /\ submitted \in SUBSET Steps /\ expired \in SUBSET Steps
      /\ consent \in Legal \cup {0} /\ told \in Steps \cup {Done, NoStep} /\ shown \in Legal
  BY FlowAssumption, EmptyIsAPage DEF Init
<1>3. /\ pc \in [Requests -> Locations]
      /\ step \in [Requests -> Steps \cup {NoStep}]
      /\ \A r \in Requests : pc[r] \in {"process", "consent", "write"} => step[r] \in Steps
  BY DEF Init, Locations
<1>4. /\ page \in [Requests -> Pages] /\ doc \in [Requests -> Legal \cup {0}]
      /\ using \in [Requests -> Versions \cup {0}]
      /\ seenVersion \in [Requests -> Versions \cup {0}]
      /\ seenStatus \in [Requests -> Statuses]
  BY EmptyIsAPage DEF Init, Statuses
<1>5. /\ edits \in 0..MaxEdits /\ events \in 0..MaxEvents
      /\ behind \in [Requests -> SUBSET {"answers", "version"}]
  BY FlowAssumption DEF Init
<1> QED
  BY <1>1, <1>2, <1>3, <1>4, <1>5 DEF TypeOK

\* The part of the type invariant about requests, the store, the bounds, and what
\* is recorded of the requests.
RequestTypes ==
  /\ pc \in [Requests -> Locations]
  /\ step \in [Requests -> Steps \cup {NoStep}]
  /\ \A r \in Requests : pc[r] \in {"process", "consent", "write"} => step[r] \in Steps
  /\ page \in [Requests -> Pages] /\ doc \in [Requests -> Legal \cup {0}]
  /\ using \in [Requests -> Versions \cup {0}]
  /\ seenVersion \in [Requests -> Versions \cup {0}]
  /\ seenStatus \in [Requests -> Statuses]
StoreTypes ==
  /\ published \in Versions /\ active \in Legal
  /\ version \in Versions /\ status \in Statuses
  /\ run \in {"none", "started", "pending", "approved", "rejected"}
  /\ reason \in Steps \cup {NoStep} /\ returned \in BOOLEAN
  /\ answers \in [Steps -> Pages]
  /\ submitted \in SUBSET Steps /\ expired \in SUBSET Steps
  /\ consent \in Legal \cup {0}
  /\ told \in Steps \cup {Done, NoStep} /\ shown \in Legal
BoundTypes == edits \in 0..MaxEdits /\ events \in 0..MaxEvents
RecordTypes == behind \in [Requests -> SUBSET {"answers", "version"}]

LEMMA TypeParts == TypeOK <=> RequestTypes /\ StoreTypes /\ BoundTypes /\ RecordTypes
BY DEF TypeOK, RequestTypes, StoreTypes, BoundTypes, RecordTypes

LEMMA FinishKeepsTypes ==
  ASSUME RequestTypes, NEW r \in Requests, Finish(r)
  PROVE  RequestTypes'
BY EmptyIsAPage DEF RequestTypes, Finish, Locations, Statuses

LEMMA GotoKeepsTypes ==
  ASSUME RequestTypes, NEW r \in Requests, NEW location \in Locations,
         location \in {"process", "consent", "write"} => step[r] \in Steps,
         Goto(r, location), UNCHANGED <<body, seen>>
  PROVE  RequestTypes'
BY DEF RequestTypes, Goto, body, seen

LEMMA BeginKeepsTypes ==
  ASSUME RequestTypes, StoreTypes,
         NEW r \in Requests, NEW s \in Steps, NEW p \in Pages, Begin(r, s, p)
  PROVE  RequestTypes' /\ StoreTypes'
<1>1. RequestTypes'
  BY DEF RequestTypes, StoreTypes, Begin, Goto, Locations, seen
<1>2. StoreTypes'
  BY DEF StoreTypes, Begin, configuration, sessionVars, submissionVars, clientVars
<1> QED
  BY <1>1, <1>2

\* Every step of every request, and every step around them, keeps the types.
LEMMA RequestStepKeepsTypes ==
  ASSUME RequestTypes, StoreTypes, BoundTypes,
         NEW r \in Requests, Submit(r) \/ BuildEnvelope(r) \/ GetSession(r)
  PROVE  RequestTypes' /\ StoreTypes' /\ BoundTypes'
<1> USE DEF configuration, sessionVars, submissionVars, clientVars, bounds
<1>0. pc[r] \in Locations /\ page[r] \in Pages /\ doc[r] \in Legal \cup {0}
  BY DEF RequestTypes
<1>1. CASE UnknownStep(r)
  BY <1>1, FinishKeepsTypes DEF UnknownStep, StoreTypes, BoundTypes
<1>2. CASE SubmitForm(r)
  <2>1. CASE Goto(r, "write") /\ UNCHANGED <<body, seen>>
    BY <1>2, <2>1, GotoKeepsTypes DEF SubmitForm, StoreTypes, BoundTypes, RequestTypes, Locations
  <2>2. CASE Finish(r)
    BY <1>2, <2>2, FinishKeepsTypes DEF SubmitForm, StoreTypes, BoundTypes
  <2> QED
    BY <1>2, <2>1, <2>2 DEF SubmitForm
<1>3. CASE SubmitDocument(r)
  <2>1. CASE Goto(r, "consent") /\ UNCHANGED <<body, seen, shown>>
    BY <1>3, <2>1, GotoKeepsTypes DEF SubmitDocument, StoreTypes, BoundTypes, RequestTypes, Locations
  <2>2. CASE Finish(r) /\ shown' = active
    BY <1>3, <2>2, FinishKeepsTypes DEF SubmitDocument, StoreTypes, BoundTypes
  <2> QED
    BY <1>3, <2>1, <2>2 DEF SubmitDocument
<1>4. CASE InsertConsent(r)
  BY <1>0, <1>4, GotoKeepsTypes DEF InsertConsent, StoreTypes, BoundTypes, RequestTypes, Locations
<1>5. CASE SubmitOther(r)
  BY <1>5, GotoKeepsTypes DEF SubmitOther, StoreTypes, BoundTypes, RequestTypes, Locations
<1>6. CASE UpsertStepSubmission(r)
  <2>1. step[r] \in Steps
    BY <1>6 DEF UpsertStepSubmission, RequestTypes
  <2>2. answers' \in [Steps -> Pages]
    BY <1>0, <1>6, <2>1, KeptIsAPage DEF UpsertStepSubmission, StoreTypes
  <2>3. submitted' \in SUBSET Steps /\ expired' \in SUBSET Steps
    BY <1>6, <2>1 DEF UpsertStepSubmission, StoreTypes
  <2>4. run' \in {"none", "started", "pending", "approved", "rejected"}
        /\ reason' \in Steps \cup {NoStep}
    BY <1>6 DEF UpsertStepSubmission, StoreTypes
  <2>5. RequestTypes'
    BY <1>6, GotoKeepsTypes DEF UpsertStepSubmission, Locations
  <2> QED
    BY <1>6, <2>2, <2>3, <2>4, <2>5 DEF UpsertStepSubmission, StoreTypes, BoundTypes
<1>7. CASE GetSession(r)
  BY <1>7, GotoKeepsTypes DEF GetSession, StoreTypes, BoundTypes, Locations
<1>8. CASE LoadSession(r)
  BY <1>8 DEF LoadSession, Goto, body, StoreTypes, BoundTypes, RequestTypes, Locations
<1>9. CASE MaybeUpgradeFlowVersion(r)
  <2>1. \E location \in {"pin", "reconcile"} : Goto(r, location) /\ UNCHANGED <<body, seen>>
    BY <1>9 DEF MaybeUpgradeFlowVersion
  <2> QED
    BY <1>9, <2>1, GotoKeepsTypes DEF MaybeUpgradeFlowVersion, StoreTypes, BoundTypes, Locations
<1>10. CASE UpdateSessionFlowVersion(r)
  BY <1>10 DEF UpdateSessionFlowVersion, Goto, body, StoreTypes, BoundTypes, RequestTypes, Locations
<1>11. CASE ServeNext(r)
  <2>1. Finish(r)
    BY <1>11 DEF ServeNext
  <2>2. PICK s \in Steps :
          told' = s /\ shown' = IF Flow[seenVersion[r]].type[s] = "document" THEN active ELSE shown
    BY <1>11 DEF ServeNext
  <2>3. told' \in Steps \cup {Done, NoStep} /\ shown' \in Legal
    BY <2>2 DEF StoreTypes
  <2> QED
    BY <1>11, <2>1, <2>3, FinishKeepsTypes DEF ServeNext, StoreTypes, BoundTypes
<1>12. CASE FlowComplete(r)
  BY <1>12, GotoKeepsTypes DEF FlowComplete, StoreTypes, BoundTypes, Locations
<1>13. CASE GetOnCompleteRun(r)
  <2>1. CASE Goto(r, "start") /\ UNCHANGED <<told, body, seen>>
    BY <1>13, <2>1, GotoKeepsTypes DEF GetOnCompleteRun, StoreTypes, BoundTypes, Locations
  <2>2. CASE told' = Done /\ Finish(r)
    BY <1>13, <2>2, FinishKeepsTypes DEF GetOnCompleteRun, StoreTypes, BoundTypes
  <2> QED
    BY <1>13, <2>1, <2>2 DEF GetOnCompleteRun
<1>14. CASE StartOnCompleteRun(r)
  BY <1>14, GotoKeepsTypes DEF StartOnCompleteRun, StoreTypes, BoundTypes, Locations
<1>15. CASE MarkVerifying(r)
  <2>1. Finish(r)
    BY <1>15 DEF MarkVerifying
  <2>2. status' \in Statuses /\ run' \in {"none", "started", "pending", "approved", "rejected"}
    BY <1>15 DEF MarkVerifying, StoreTypes, Statuses
  <2> QED
    BY <1>15, <2>1, <2>2, FinishKeepsTypes DEF MarkVerifying, StoreTypes, BoundTypes
<1> QED
  BY <1>1, <1>2, <1>3, <1>4, <1>5, <1>6, <1>7, <1>8, <1>9, <1>10, <1>11, <1>12, <1>13, <1>14, <1>15
  DEF Submit, BuildEnvelope

LEMMA EventIsBounded ==
  ASSUME BoundTypes, Event
  PROVE  BoundTypes'
BY FlowAssumption DEF BoundTypes, Event

LEMMA OtherStepKeepsTypes ==
  ASSUME RequestTypes, StoreTypes, BoundTypes,
         \/ \E r \in Requests :
              Answer(r) \/ Fail(r) \/ \E s \in Steps : \E p \in PagesOf[s] : Edit(r, s, p)
         \/ Approve
         \/ \E s \in Steps : Reject(s) \/ Expire(s)
         \/ \E v \in Legal : TakeEffect(v)
         \/ \E v \in Versions : Publish(v)
  PROVE  RequestTypes' /\ StoreTypes' /\ BoundTypes'
<1> USE DEF configuration, sessionVars, submissionVars, clientVars, bounds
<1>1. ASSUME NEW s \in Steps, NEW p \in PagesOf[s] PROVE p \in Pages
  BY <1>1 DEF PagesOf, Pages
<1>2. ASSUME NEW r \in Requests, Answer(r) PROVE RequestTypes' /\ StoreTypes' /\ BoundTypes'
  BY <1>1, <1>2, BeginKeepsTypes DEF Answer, BoundTypes
<1>3. ASSUME NEW r \in Requests, NEW s \in Steps, NEW p \in PagesOf[s], Edit(r, s, p)
      PROVE  RequestTypes' /\ StoreTypes' /\ BoundTypes'
  <2>1. BoundTypes'
    BY <1>3, FlowAssumption DEF Edit, BoundTypes
  <2> QED
    BY <1>1, <1>3, <2>1, BeginKeepsTypes DEF Edit
<1>4. ASSUME NEW r \in Requests, Fail(r) PROVE RequestTypes' /\ StoreTypes' /\ BoundTypes'
  BY <1>4, FinishKeepsTypes, EventIsBounded DEF Fail, StoreTypes
<1>5. CASE Approve
  BY <1>5 DEF Approve, requestVars, RequestTypes, StoreTypes, BoundTypes, Statuses
<1>6. ASSUME NEW s \in Steps, Reject(s) PROVE RequestTypes' /\ StoreTypes' /\ BoundTypes'
  BY <1>6, EventIsBounded DEF Reject, requestVars, RequestTypes, StoreTypes, Statuses
<1>7. ASSUME NEW s \in Steps, Expire(s) PROVE RequestTypes' /\ StoreTypes' /\ BoundTypes'
  BY <1>7, EventIsBounded DEF Expire, requestVars, RequestTypes, StoreTypes
<1>8. ASSUME NEW v \in Legal, TakeEffect(v) PROVE RequestTypes' /\ StoreTypes' /\ BoundTypes'
  BY <1>8, EventIsBounded DEF TakeEffect, requestVars, RequestTypes, StoreTypes
<1>9. ASSUME NEW v \in Versions, Publish(v) PROVE RequestTypes' /\ StoreTypes' /\ BoundTypes'
  <2>1. RequestTypes'
    BY <1>9, EmptyIsAPage DEF Publish, RequestTypes, Locations, Statuses
  <2>2. StoreTypes'
    BY <1>9 DEF Publish, StoreTypes
  <2> QED
    BY <1>9, <2>1, <2>2, EventIsBounded DEF Publish
<1> QED
  BY <1>2, <1>3, <1>4, <1>5, <1>6, <1>7, <1>8, <1>9

LEMMA StepTypeOK == TypeOK /\ [Next]_vars => TypeOK'
<1> SUFFICES ASSUME TypeOK, [Next]_vars PROVE TypeOK'
  OBVIOUS
<1>1. RequestTypes /\ StoreTypes /\ BoundTypes /\ RecordTypes
  BY TypeParts
<1>2. CASE UNCHANGED vars
  BY <1>2 DEF TypeOK, vars, configuration, sessionVars, submissionVars, clientVars, requestVars
<1>3. CASE Next
  <2>1. RequestTypes' /\ StoreTypes' /\ BoundTypes'
    BY <1>1, <1>3, RequestStepKeepsTypes, OtherStepKeepsTypes DEF Next, Move
  <2>2. RecordTypes'
    <3>1. \A q \in Requests : Writes(q) \subseteq {"answers", "version"}
      BY DEF Writes
    <3> QED
      BY <1>1, <1>3, <3>1 DEF Next, RecordTypes
  <2> QED
    BY <2>1, <2>2 DEF TypeOK, RequestTypes, StoreTypes, BoundTypes, RecordTypes
<1> QED
  BY <1>2, <1>3

\* Every variable of the session, its requests and its client keeps its type.
THEOREM TypeCorrect == Spec => []TypeOK
BY InitTypeOK, StepTypeOK, PTL DEF Spec

----------------------------------------------------------------------------
(* The flow upgrade                                                        *)

Past(r, locations) == pc[r] \in locations

\* Requests of the session do not overlap.
OneRequest == \A p, q \in Requests : p = q

\* What is known of a request that read the session before: one that goes on with
\* a session it saw in progress has the latest version, and so has the session.
UpgradeInv ==
  /\ version <= published
  /\ returned = FALSE => run # "rejected"
  /\ \A r \in Requests :
       /\ Past(r, {"upgrade", "pin", "reconcile", "trigger", "start", "mark"}) => seenVersion[r] <= version
       /\ Past(r, {"reconcile", "trigger", "start", "mark"}) /\ seenStatus[r] = "in_progress" =>
            version = published /\ seenVersion[r] = published
       /\ Past(r, {"pin"}) => seenStatus[r] = "in_progress"

\* How the run and the status go together, when nobody's redo overlaps another
\* request: the session is in progress until the vendor has been called. Only
\* requests that overlap start a run that exists.
RunInv ==
  /\ run \in {"none", "rejected"} => status = "in_progress"
  /\ run \in {"pending", "approved"} => status # "in_progress"
  /\ \A r \in Requests : Past(r, {"mark"}) => run \notin {"none", "rejected"}
  /\ OneRequest => \A r \in Requests :
       /\ Past(r, {"start"}) => run = "none"
       /\ Past(r, {"mark"}) => run = "started"

\* And how requests saw the session: one they saw completed was since at most
\* rejected; and one that was completed behind their back had the latest version.
SeenInv ==
  \A r \in Requests :
    /\ Past(r, {"upgrade", "pin", "reconcile", "trigger", "start", "mark"})
       /\ seenStatus[r] # "in_progress" => status # "in_progress" \/ run = "rejected"
    /\ Past(r, {"upgrade", "pin"}) /\ seenStatus[r] = "in_progress" /\ status # "in_progress" =>
         version = published

CalmInv == Undisturbed => RunInv /\ SeenInv

LEMMA InitUpgrade == Init => UpgradeInv /\ CalmInv
BY FlowAssumption DEF Init, UpgradeInv, CalmInv, RunInv, SeenInv, Past

LEMMA VersionsAreNumbers ==
  ASSUME RequestTypes
  PROVE  \A r \in Requests : seenVersion[r] \in Nat
<1>1. Versions \cup {0} \subseteq Nat
  BY FlowAssumption
<1> QED
  BY <1>1 DEF RequestTypes

\* Nothing the invariants read changes but that some requests come to rest, and
\* one may go from finding the answers complete to starting the verification.
LEMMA QuietKeepsUpgrade ==
  ASSUME UpgradeInv, CalmInv,
         UNCHANGED <<version, published, status, run, returned>>,
         \A r \in Requests :
           \/ ~Past(r, {"upgrade", "pin", "reconcile", "trigger", "start", "mark"})'
           \/ pc'[r] = pc[r] /\ seenVersion'[r] = seenVersion[r] /\ seenStatus'[r] = seenStatus[r]
           \/ /\ pc[r] = "reconcile" /\ pc'[r] = "trigger"
              /\ seenVersion'[r] = seenVersion[r] /\ seenStatus'[r] = seenStatus[r]
  PROVE  UpgradeInv' /\ CalmInv'
<1>1. UpgradeInv'
  BY DEF UpgradeInv, Past
<1>2. CalmInv'
  <2>1. RunInv => RunInv'
    BY DEF RunInv, OneRequest, Past
  <2>2. SeenInv => SeenInv'
    BY DEF SeenInv, Past
  <2> QED
    BY <2>1, <2>2 DEF CalmInv, Undisturbed
<1> QED
  BY <1>1, <1>2

\* The requests a step of r leaves alone.
OthersStay(r) ==
  \A q \in Requests \ {r} :
    pc'[q] = pc[q] /\ seenVersion'[q] = seenVersion[q] /\ seenStatus'[q] = seenStatus[q]

LEMMA UpsertKeepsUpgrade ==
  ASSUME UpgradeInv, CalmInv, TypeOK, NEW r \in Requests, UpsertStepSubmission(r)
  PROVE  UpgradeInv' /\ CalmInv'
<1>0. RequestTypes
  BY TypeParts
<1>1. /\ UNCHANGED <<version, published, status, returned>> /\ pc'[r] = "load" /\ OthersStay(r)
      /\ (run' = run \/ (run = "rejected" /\ run' = "none"))
  BY <1>0 DEF UpsertStepSubmission, Goto, seen, OthersStay, RequestTypes, configuration
<1>2. CASE run' = run
  BY <1>1, <1>2, QuietKeepsUpgrade DEF OthersStay, Past
<1>3. CASE run = "rejected" /\ run' = "none"
  <2>1. returned = TRUE
    BY <1>3, TypeParts DEF UpgradeInv, StoreTypes
  <2>2. UpgradeInv'
    BY <1>1, <1>3 DEF UpgradeInv, Past, OthersStay
  <2>3. CalmInv'
    <3>1. SUFFICES ASSUME Undisturbed, RunInv, SeenInv PROVE RunInv' /\ SeenInv'
      BY <1>1 DEF CalmInv, Undisturbed
    <3>2. \A q \in Requests : q = r
      BY <2>1, <3>1 DEF Undisturbed
    <3>3. RunInv'
      BY <1>1, <1>3, <3>1, <3>2 DEF RunInv, Past
    <3>4. SeenInv'
      BY <1>1, <1>3, <3>2 DEF SeenInv, Past
    <3> QED
      BY <3>3, <3>4
  <2> QED
    BY <2>2, <2>3
<1> QED
  BY <1>1, <1>2, <1>3

LEMMA LoadKeepsUpgrade ==
  ASSUME UpgradeInv, CalmInv, TypeOK, NEW r \in Requests, LoadSession(r)
  PROVE  UpgradeInv' /\ CalmInv'
<1>0. RequestTypes /\ version \in Nat
  BY TypeParts, FlowAssumption DEF StoreTypes
<1>1. /\ UNCHANGED <<version, published, status, run, returned>>
      /\ pc'[r] = "upgrade" /\ seenVersion'[r] = version /\ seenStatus'[r] = status
      /\ OthersStay(r) /\ version \in Nat
  BY <1>0 DEF LoadSession, Goto, OthersStay, RequestTypes, configuration, sessionVars
<1>2. UpgradeInv'
  BY <1>1 DEF UpgradeInv, Past, OthersStay
<1>3. CalmInv'
  <2>1. SUFFICES ASSUME Undisturbed, RunInv, SeenInv PROVE RunInv' /\ SeenInv'
    BY <1>1 DEF CalmInv, Undisturbed
  <2>2. RunInv'
    BY <1>1, <2>1 DEF RunInv, OneRequest, Past, OthersStay
  <2>3. SeenInv'
    BY <1>1, <2>1 DEF RunInv, SeenInv, Past, OthersStay
  <2> QED
    BY <2>2, <2>3
<1> QED
  BY <1>2, <1>3

LEMMA MaybeUpgradeKeepsUpgrade ==
  ASSUME UpgradeInv, CalmInv, TypeOK, NEW r \in Requests, MaybeUpgradeFlowVersion(r)
  PROVE  UpgradeInv' /\ CalmInv'
<1>0. RequestTypes /\ StoreTypes /\ version \in Nat /\ published \in Nat
  BY TypeParts, FlowAssumption DEF StoreTypes
<1>1. /\ UNCHANGED <<version, published, status, run, returned, seenVersion, seenStatus>>
      /\ pc[r] = "upgrade" /\ OthersStay(r)
      /\ \/ pc'[r] = "pin" /\ seenStatus[r] = "in_progress"
         \/ pc'[r] = "reconcile" /\ ~(seenStatus[r] = "in_progress" /\ published > seenVersion[r])
  BY <1>0 DEF MaybeUpgradeFlowVersion, Goto, seen, OthersStay, RequestTypes, configuration, sessionVars
<1>2. seenVersion[r] \in Nat
  BY <1>0, VersionsAreNumbers
<1>3. seenVersion[r] <= version /\ version <= published
  BY <1>1 DEF UpgradeInv, Past
<1>4. pc'[r] = "reconcile" /\ seenStatus[r] = "in_progress" => version = published /\ seenVersion[r] = published
  BY <1>0, <1>1, <1>2, <1>3
<1>5. UpgradeInv'
  BY <1>1, <1>3, <1>4 DEF UpgradeInv, Past, OthersStay
<1>6. CalmInv'
  <2>1. SUFFICES ASSUME Undisturbed, RunInv, SeenInv PROVE RunInv' /\ SeenInv'
    BY <1>1 DEF CalmInv, Undisturbed
  <2>2. RunInv'
    BY <1>1, <2>1 DEF RunInv, OneRequest, Past, OthersStay
  <2>3. SeenInv'
    BY <1>1, <2>1 DEF RunInv, SeenInv, Past, OthersStay
  <2> QED
    BY <2>2, <2>3
<1> QED
  BY <1>5, <1>6

LEMMA PinKeepsUpgrade ==
  ASSUME UpgradeInv, CalmInv, TypeOK, NEW r \in Requests, UpdateSessionFlowVersion(r)
  PROVE  UpgradeInv' /\ CalmInv'
<1>0. RequestTypes /\ StoreTypes /\ version \in Nat /\ published \in Nat
  BY TypeParts, FlowAssumption DEF StoreTypes
<1>1. /\ UNCHANGED <<published, status, run, returned, seenStatus>>
      /\ version' = published
      /\ pc[r] = "pin" /\ pc'[r] = "reconcile" /\ seenVersion'[r] = published /\ OthersStay(r)
  BY <1>0 DEF UpdateSessionFlowVersion, Goto, OthersStay, RequestTypes, configuration
<1>2. \A q \in Requests : seenVersion[q] \in Nat
  BY <1>0, VersionsAreNumbers
<1>3. \A q \in Requests :
        Past(q, {"upgrade", "pin", "reconcile", "trigger", "start", "mark"})' => seenVersion'[q] <= version'
  <2>1. version <= published
    BY DEF UpgradeInv
  <2>2. ASSUME NEW q \in Requests \ {r}, Past(q, {"upgrade", "pin", "reconcile", "trigger", "start", "mark"})'
        PROVE  seenVersion'[q] <= version'
    <3>1. seenVersion[q] <= version /\ seenVersion'[q] = seenVersion[q] /\ seenVersion[q] \in Nat
      BY <1>1, <1>2, <2>2 DEF UpgradeInv, Past, OthersStay
    <3> QED
      BY <1>0, <1>1, <2>1, <3>1
  <2>3. seenVersion'[r] <= version'
    BY <1>0, <1>1
  <2> QED
    BY <2>2, <2>3
<1>4. version' <= published' /\ version' = published'
  <2>1. published' = published
    BY <1>1
  <2> QED
    BY <1>0, <1>1, <2>1
<1>5. UpgradeInv'
  BY <1>1, <1>3, <1>4 DEF UpgradeInv, Past, OthersStay
<1>6. CalmInv'
  <2>1. SUFFICES ASSUME Undisturbed, RunInv, SeenInv PROVE RunInv' /\ SeenInv'
    BY <1>1 DEF CalmInv, Undisturbed
  <2>4. RunInv'
    BY <1>1, <2>1 DEF RunInv, OneRequest, Past, OthersStay
  <2>2. \A q \in Requests \ {r} :
          Past(q, {"upgrade", "pin", "reconcile", "trigger", "start", "mark"})' /\ seenStatus'[q] # "in_progress"
            => status' # "in_progress" \/ run' = "rejected"
    BY <1>1, <2>1 DEF SeenInv, Past, OthersStay
  <2>3. seenStatus'[r] = "in_progress"
    BY <1>1 DEF UpgradeInv, Past
  <2>5. SeenInv'
    BY <1>1, <1>4, <2>1, <2>2, <2>3 DEF SeenInv
  <2> QED
    BY <2>4, <2>5
<1> QED
  BY <1>5, <1>6

LEMMA TriggerKeepsUpgrade ==
  ASSUME UpgradeInv, CalmInv, TypeOK, NEW r \in Requests, GetOnCompleteRun(r)
  PROVE  UpgradeInv' /\ CalmInv'
<1> USE DEF configuration, sessionVars
<1>0. RequestTypes
  BY TypeParts
<1>1. CASE run # "none"
  BY <1>0, <1>1, QuietKeepsUpgrade DEF GetOnCompleteRun, Finish, Past, RequestTypes
<1>2. CASE run = "none"
  <2>1. /\ UNCHANGED <<version, published, status, run, returned, seenVersion, seenStatus>>
        /\ pc[r] = "trigger" /\ pc'[r] = "start" /\ OthersStay(r)
    BY <1>0, <1>2 DEF GetOnCompleteRun, Goto, seen, OthersStay, RequestTypes
  <2>2. UpgradeInv'
    BY <2>1 DEF UpgradeInv, Past, OthersStay
  <2>3. CalmInv'
    <3>1. SUFFICES ASSUME Undisturbed, RunInv, SeenInv PROVE RunInv' /\ SeenInv'
      BY <2>1 DEF CalmInv, Undisturbed
    <3>2. RunInv'
      BY <1>2, <2>1, <3>1 DEF RunInv, OneRequest, Past, OthersStay
    <3>3. SeenInv'
      BY <2>1, <3>1 DEF SeenInv, Past, OthersStay
    <3> QED
      BY <3>2, <3>3
  <2> QED
    BY <2>2, <2>3
<1> QED
  BY <1>1, <1>2

LEMMA StartKeepsUpgrade ==
  ASSUME UpgradeInv, CalmInv, TypeOK, NEW r \in Requests, StartOnCompleteRun(r)
  PROVE  UpgradeInv' /\ CalmInv'
<1> USE DEF configuration
<1>0. RequestTypes
  BY TypeParts
<1>1. /\ UNCHANGED <<version, published, status, returned, seenVersion, seenStatus>>
      /\ pc[r] = "start" /\ pc'[r] = "mark" /\ OthersStay(r)
      /\ run' = IF run \in {"none", "started"} THEN "started" ELSE "pending"
  BY <1>0 DEF StartOnCompleteRun, Goto, seen, OthersStay, RequestTypes
<1>2. UpgradeInv'
  BY <1>1 DEF UpgradeInv, Past, OthersStay
<1>3. CalmInv'
  <2>1. SUFFICES ASSUME Undisturbed, RunInv, SeenInv PROVE RunInv' /\ SeenInv'
    BY <1>1 DEF CalmInv, Undisturbed
  <2>2. run # "rejected"
    <3>1. CASE returned = FALSE
      BY <3>1 DEF UpgradeInv
    <3>2. CASE returned = TRUE
      BY <1>1, <2>1, <3>2 DEF Undisturbed, RunInv, OneRequest, Past
    <3> QED
      BY <3>1, <3>2, TypeParts DEF StoreTypes
  <2>3. run' \in {"started", "pending"} /\ (run' = "pending" => run \in {"pending", "approved"})
    BY <1>1, <2>2, TypeParts DEF StoreTypes
  <2>4. OneRequest => run' = "started"
    BY <1>1, <2>1 DEF RunInv, OneRequest, Past
  <2>5. RunInv'
    BY <1>1, <2>1, <2>3, <2>4 DEF RunInv, OneRequest, Past, OthersStay
  <2>6. SeenInv'
    BY <1>1, <2>1, <2>2 DEF SeenInv, Past, OthersStay
  <2> QED
    BY <2>5, <2>6
<1> QED
  BY <1>2, <1>3

LEMMA MarkKeepsUpgrade ==
  ASSUME UpgradeInv, CalmInv, TypeOK, NEW r \in Requests, MarkVerifying(r)
  PROVE  UpgradeInv' /\ CalmInv'
<1>1. /\ UNCHANGED <<version, published, returned>> /\ OthersStay(r)
      /\ pc[r] = "mark" /\ pc'[r] = "idle"
      /\ run' = IF run = "started" THEN "pending" ELSE run
      /\ status' = IF seenStatus[r] = "in_progress" THEN "verifying" ELSE status
  BY TypeParts DEF MarkVerifying, Finish, OthersStay, RequestTypes, configuration
<1>2. seenStatus[r] = "in_progress" => version = published
  BY <1>1 DEF UpgradeInv, Past
<1>3. UpgradeInv'
  BY <1>1, <1>2 DEF UpgradeInv, Past, OthersStay
<1>4. CalmInv'
  <2>1. SUFFICES ASSUME Undisturbed, RunInv, SeenInv PROVE RunInv' /\ SeenInv'
    BY <1>1 DEF CalmInv, Undisturbed
  <2>2. run \notin {"none", "rejected"} /\ run' \notin {"none", "rejected"}
    BY <1>1, <2>1 DEF RunInv, Past
  <2>3. status' # "in_progress"
    BY <1>1, <2>1, <2>2 DEF SeenInv, Past
  <2>4. OneRequest => \A q \in Requests : q = r
    BY DEF OneRequest
  <2>5. RunInv'
    BY <1>1, <2>1, <2>2, <2>3, <2>4 DEF RunInv, OneRequest, Past, OthersStay
  <2>6. ASSUME NEW q \in Requests \ {r},
               Past(q, {"upgrade", "pin"})', seenStatus'[q] = "in_progress"
        PROVE  version' = published'
    BY <1>1, <1>2, <2>1, <2>3, <2>6 DEF SeenInv, Past, OthersStay
  <2>7. SeenInv'
    BY <1>1, <2>3, <2>6 DEF SeenInv, Past
  <2> QED
    BY <2>5, <2>7
<1> QED
  BY <1>3, <1>4

LEMMA RequestStepKeepsUpgrade ==
  ASSUME UpgradeInv, CalmInv, TypeOK, NEW r \in Requests, Submit(r) \/ BuildEnvelope(r) \/ GetSession(r)
  PROVE  UpgradeInv' /\ CalmInv'
<1> USE DEF configuration, sessionVars
<1>0. RequestTypes
  BY TypeParts
<1>1. CASE UnknownStep(r)
  BY <1>0, <1>1, QuietKeepsUpgrade DEF UnknownStep, Finish, Past, RequestTypes
<1>2. CASE SubmitForm(r)
  <2>1. CASE Goto(r, "write") /\ UNCHANGED <<body, seen>>
    BY <1>0, <1>2, <2>1, QuietKeepsUpgrade DEF SubmitForm, Goto, seen, Past, RequestTypes
  <2>2. CASE Finish(r)
    BY <1>0, <1>2, <2>2, QuietKeepsUpgrade DEF SubmitForm, Finish, Past, RequestTypes
  <2> QED
    BY <1>2, <2>1, <2>2 DEF SubmitForm
<1>3. CASE SubmitDocument(r)
  <2>1. CASE Goto(r, "consent") /\ UNCHANGED <<body, seen, shown>>
    BY <1>0, <1>3, <2>1, QuietKeepsUpgrade DEF SubmitDocument, Goto, seen, Past, RequestTypes
  <2>2. CASE Finish(r) /\ shown' = active
    BY <1>0, <1>3, <2>2, QuietKeepsUpgrade DEF SubmitDocument, Finish, Past, RequestTypes
  <2> QED
    BY <1>3, <2>1, <2>2 DEF SubmitDocument
<1>4. CASE InsertConsent(r)
  BY <1>0, <1>4, QuietKeepsUpgrade DEF InsertConsent, Goto, seen, Past, RequestTypes
<1>5. CASE SubmitOther(r)
  BY <1>0, <1>5, QuietKeepsUpgrade DEF SubmitOther, Goto, seen, Past, RequestTypes
<1>6. CASE GetSession(r)
  BY <1>0, <1>6, QuietKeepsUpgrade DEF GetSession, Goto, seen, Past, RequestTypes
<1>7. CASE ServeNext(r)
  <2>1. Finish(r) /\ UNCHANGED <<version, published, status, run, returned>>
    BY <1>7 DEF ServeNext
  <2> QED
    BY <1>0, <2>1, QuietKeepsUpgrade DEF Finish, Past, RequestTypes
<1>8. CASE FlowComplete(r)
  <2>1. /\ pc[r] = "reconcile" /\ Goto(r, "trigger")
        /\ UNCHANGED <<version, published, status, run, returned, seen>>
    BY <1>8 DEF FlowComplete
  <2> QED
    BY <1>0, <2>1, QuietKeepsUpgrade DEF Goto, seen, Past, RequestTypes
<1> QED
  BY <1>1, <1>2, <1>3, <1>4, <1>5, <1>6, <1>7, <1>8, UpsertKeepsUpgrade, LoadKeepsUpgrade,
     MaybeUpgradeKeepsUpgrade, PinKeepsUpgrade, TriggerKeepsUpgrade,
     StartKeepsUpgrade, MarkKeepsUpgrade
  DEF Submit, BuildEnvelope

LEMMA OtherStepKeepsUpgrade ==
  ASSUME UpgradeInv, CalmInv, TypeOK,
         \/ \E r \in Requests :
              Answer(r) \/ Fail(r) \/ \E s \in Steps : \E p \in PagesOf[s] : Edit(r, s, p)
         \/ Approve
         \/ \E s \in Steps : Reject(s) \/ Expire(s)
         \/ \E v \in Legal : TakeEffect(v)
         \/ \E v \in Versions : Publish(v)
  PROVE  UpgradeInv' /\ CalmInv'
<1> USE DEF configuration, sessionVars
<1>0. RequestTypes /\ StoreTypes /\ version \in Nat /\ published \in Nat
  BY TypeParts, FlowAssumption DEF StoreTypes
<1>1. ASSUME NEW r \in Requests, NEW s \in Steps, NEW p, Begin(r, s, p)
      PROVE  UpgradeInv' /\ CalmInv'
  BY <1>0, <1>1, QuietKeepsUpgrade DEF Begin, Goto, seen, Past, RequestTypes
<1>2. ASSUME NEW r \in Requests, Fail(r) PROVE UpgradeInv' /\ CalmInv'
  BY <1>0, <1>2, QuietKeepsUpgrade DEF Fail, Finish, Past, RequestTypes
<1>3. CASE Approve
  <2>1. UpgradeInv'
    BY <1>3 DEF Approve, requestVars, UpgradeInv, Past
  <2>2. CalmInv'
    <3>1. RunInv => RunInv'
      BY <1>3 DEF Approve, requestVars, RunInv, OneRequest, Past
    <3>2. RunInv /\ SeenInv => SeenInv'
      BY <1>3 DEF Approve, requestVars, RunInv, SeenInv, Past
    <3> QED
      BY <1>3, <3>1, <3>2 DEF Approve, CalmInv, Undisturbed
  <2> QED
    BY <2>1, <2>2
<1>4. ASSUME NEW s \in Steps, Reject(s) PROVE UpgradeInv' /\ CalmInv'
  <2>1. UpgradeInv'
    BY <1>4 DEF Reject, requestVars, UpgradeInv, Past
  <2>2. CalmInv'
    <3>1. SUFFICES ASSUME Undisturbed' PROVE RunInv' /\ SeenInv'
      BY DEF CalmInv
    <3>2. /\ run = "pending" /\ run' = "rejected" /\ status' = "in_progress" /\ returned' = TRUE
          /\ UNCHANGED <<pc, published, version>>
      BY <1>4 DEF Reject, requestVars
    <3>3. OneRequest /\ RunInv
      BY <3>1, <3>2 DEF Undisturbed, OneRequest, CalmInv
    <3>4. \A r \in Requests : ~Past(r, {"start", "mark"})
      BY <3>2, <3>3 DEF RunInv, Past
    <3>5. RunInv'
      BY <3>2, <3>4 DEF RunInv, Past
    <3>6. SeenInv'
      BY <3>2 DEF SeenInv
    <3> QED
      BY <3>5, <3>6
  <2> QED
    BY <2>1, <2>2
<1>5. ASSUME NEW s \in Steps, Expire(s) PROVE UpgradeInv' /\ CalmInv'
  BY <1>5, QuietKeepsUpgrade DEF Expire, requestVars
<1>6. ASSUME NEW v \in Legal, TakeEffect(v) PROVE UpgradeInv' /\ CalmInv'
  BY <1>6, QuietKeepsUpgrade DEF TakeEffect, requestVars
<1>7. ASSUME NEW v \in Versions, Publish(v) PROVE UpgradeInv' /\ CalmInv'
  <2>1. /\ UNCHANGED <<version, status, run, returned>> /\ v > published /\ published' = v
        /\ \A r \in Requests : pc'[r] = "idle"
    BY <1>7 DEF Publish
  <2>2. version <= published' /\ v \in Nat
    BY <1>0, <2>1, FlowAssumption DEF UpgradeInv
  <2>3. UpgradeInv'
    BY <2>1, <2>2 DEF UpgradeInv, Past
  <2>4. CalmInv'
    BY <2>1 DEF CalmInv, RunInv, SeenInv, Undisturbed, OneRequest, Past
  <2> QED
    BY <2>3, <2>4
<1> QED
  BY <1>1, <1>2, <1>3, <1>4, <1>5, <1>6, <1>7 DEF Answer, Edit

LEMMA StepUpgrade == UpgradeInv /\ CalmInv /\ TypeOK /\ [Next]_vars => UpgradeInv' /\ CalmInv'
<1> SUFFICES ASSUME UpgradeInv, CalmInv, TypeOK, [Next]_vars PROVE UpgradeInv' /\ CalmInv'
  OBVIOUS
<1>1. CASE UNCHANGED vars
  BY <1>1, QuietKeepsUpgrade DEF vars, configuration, sessionVars, requestVars
<1>2. CASE Next
  BY <1>2, RequestStepKeepsUpgrade, OtherStepKeepsUpgrade DEF Next, Move
<1> QED
  BY <1>1, <1>2

LEMMA UpgradeCorrect == Spec => [](UpgradeInv /\ CalmInv)
BY InitUpgrade, StepUpgrade, TypeCorrect, PTL DEF Spec

\* A verifying or approved session keeps its flow version, whoever read it before,
\* until a rejection sends it back while requests overlap.
THEOREM CompletedSessionStays == Spec => TerminalNeverMoves
<1>1. ASSUME UpgradeInv, CalmInv, [Next]_vars, Undisturbed, status # "in_progress"
      PROVE  version' = version
  <2>1. SUFFICES ASSUME version' # version PROVE FALSE
    OBVIOUS
  <2>2. PICK r \in Requests : UpdateSessionFlowVersion(r)
    BY <1>1, <2>1 DEF Next, Move, Submit, BuildEnvelope, vars, configuration, sessionVars, Answer, Edit, Begin,
       GetSession, UnknownStep, SubmitForm, SubmitDocument, InsertConsent, SubmitOther, UpsertStepSubmission,
       LoadSession, MaybeUpgradeFlowVersion, ServeNext, FlowComplete, GetOnCompleteRun, StartOnCompleteRun,
       MarkVerifying, Fail, Approve, Reject, Expire, TakeEffect, Publish
  <2>3. version' = published /\ Past(r, {"pin"})
    BY <2>2 DEF UpdateSessionFlowVersion, Past
  <2> QED
    BY <1>1, <2>1, <2>2, <2>3 DEF UpgradeInv, CalmInv, SeenInv, Past
<1>2. UpgradeInv /\ CalmInv /\ [Next]_vars =>
        [Undisturbed /\ status # "in_progress" => version' = version]_vars
  BY <1>1
<1> QED
  BY <1>2, UpgradeCorrect, PTL DEF Spec, TerminalNeverMoves

\* The steps that start a run.
LEMMA OnlyStartStarts ==
  ASSUME [Next]_vars, run = "none", run' = "started"
  PROVE  \E r \in Requests : StartOnCompleteRun(r)
<1>1. ~ UNCHANGED run
  OBVIOUS
<1> QED
  BY <1>1 DEF Next, Move, Submit, BuildEnvelope, vars, configuration, sessionVars, Answer, Edit, Begin,
     GetSession, UnknownStep, SubmitForm, SubmitDocument, InsertConsent, SubmitOther, UpsertStepSubmission,
     LoadSession, MaybeUpgradeFlowVersion, UpdateSessionFlowVersion, ServeNext, FlowComplete, GetOnCompleteRun,
     MarkVerifying, Fail, Approve, Reject, Expire, TakeEffect, Publish

\* Likewise a verification is of the latest flow version.
THEOREM VerificationIsOfLatestFlow == Spec => VerifiedOnLatestFlow
<1>1. ASSUME UpgradeInv, CalmInv, [Next]_vars, Undisturbed, run = "none", run' = "started"
      PROVE  version = published
  <2>1. PICK r \in Requests : StartOnCompleteRun(r)
    BY <1>1, OnlyStartStarts
  <2>2. Past(r, {"start"})
    BY <2>1 DEF StartOnCompleteRun, Past
  <2>3. status = "in_progress"
    BY <1>1 DEF CalmInv, RunInv
  <2>4. seenStatus[r] = "in_progress"
    BY <1>1, <2>2, <2>3 DEF CalmInv, SeenInv, Past
  <2> QED
    BY <1>1, <2>2, <2>4 DEF UpgradeInv, Past
<1>2. UpgradeInv /\ CalmInv /\ [Next]_vars =>
        [Undisturbed /\ run = "none" /\ run' = "started" => version = published]_vars
  BY <1>1
<1> QED
  BY <1>2, UpgradeCorrect, PTL DEF Spec, VerifiedOnLatestFlow

----------------------------------------------------------------------------
(* What a request has checked, and what others write behind its back       *)

\* The answers are complete as version v orders and asks for them.
CompleteAnswers(v) ==
  \A i \in DOMAIN ResolveOrder(Flow[v], answers) :
    LET d == Flow[v]
        s == ResolveOrder(d, answers)[i]
    IN /\ s \in submitted
       /\ d.type[s] = "form" => Missing(d, s, answers[s], answers) = {}

\* What a request has established on its way. As long as no other request wrote
\* answers: the page it writes is acceptable with the answers as they are, the
\* page it wrote misses nothing, and it found them complete. As long as no other
\* request moved the session: the version it read is the session's.
RequestPage(r) ==
  /\ pc[r] = "idle" => step[r] = NoStep
  /\ step[r] # NoStep => using[r] \in Versions
  /\ Past(r, {"consent"}) => Type(r) = "document"
  /\ "answers" \notin behind[r] =>
       /\ Past(r, {"write"}) /\ Type(r) = "form" =>
            ValidateForm(Definition(r), step[r], page[r], answers)
       /\ Past(r, {"load", "upgrade", "pin", "reconcile"}) /\ step[r] # NoStep /\ Type(r) = "form" =>
            step[r] \in submitted /\ Missing(Definition(r), step[r], answers[step[r]], answers) = {}
       /\ Past(r, {"trigger", "start"}) => CompleteAnswers(seenVersion[r])
  /\ Past(r, {"upgrade", "pin", "reconcile", "trigger", "start"}) /\ "version" \notin behind[r] =>
       seenVersion[r] = version

PageInv == \A r \in Requests : RequestPage(r)

LEMMA InitPage == Init => PageInv
BY DEF Init, PageInv, RequestPage, Past

\* What is recorded of a request stays, until it starts over.
StillBehind(r) ==
  /\ "answers" \in behind[r] =>
       "answers" \in behind'[r] \/ pc'[r] \in {"idle", "process"} \/ (pc[r] = "reconcile" /\ pc'[r] = "trigger")
  /\ "version" \in behind[r] =>
       "version" \in behind'[r] \/ pc'[r] \in {"idle", "process"} \/ pc[r] = "load" \/ (pc[r] = "pin" /\ pc'[r] # "pin")

\* A write by q is recorded of r, if r is on its way and has read what is written.
Overtaken(q, r) ==
  pc'[r] = pc[r] /\ pc[r] \notin {"idle", "process"} =>
    /\ pc[q] = "write" /\ pc'[q] = "load" => "answers" \in behind'[r]
    /\ pc[q] = "pin" /\ pc'[q] = "reconcile" /\ pc[r] # "load" => "version" \in behind'[r]

LEMMA RecordIsKept ==
  ASSUME Next, NEW r \in Requests
  PROVE  StillBehind(r) /\ \A q \in Requests \ {r} : Overtaken(q, r)
<1>1. behind'[r] = (behind[r] \cup UNION {Writes(q) : q \in Requests \ {r}}) \ Refreshes(r)
  BY DEF Next
<1>2. "answers" # "version" /\ "reconcile" # "trigger"
  OBVIOUS
<1>3. StillBehind(r)
  BY <1>1, <1>2 DEF StillBehind, Refreshes
<1>4. ASSUME NEW q \in Requests \ {r}, pc'[r] = pc[r], pc[r] \notin {"idle", "process"}
      PROVE  /\ pc[q] = "write" /\ pc'[q] = "load" => "answers" \in behind'[r]
             /\ pc[q] = "pin" /\ pc'[q] = "reconcile" /\ pc[r] # "load" => "version" \in behind'[r]
  <2>1. pc[q] = "write" /\ pc'[q] = "load" => "answers" \in Writes(q)
    BY DEF Writes
  <2>2. pc[q] = "pin" /\ pc'[q] = "reconcile" => "version" \in Writes(q)
    BY <1>2 DEF Writes
  <2>3. "answers" \notin Refreshes(r)
    BY <1>2, <1>4 DEF Refreshes
  <2>4. pc[r] # "load" => "version" \notin Refreshes(r)
    BY <1>2, <1>4 DEF Refreshes
  <2> QED
    BY <1>1, <2>1, <2>2, <2>3, <2>4
<1> QED
  BY <1>3, <1>4 DEF Overtaken

\* A request that comes to rest.
LEMMA RestKeepsPage ==
  ASSUME NEW r \in Requests, pc'[r] = "idle", step'[r] = NoStep
  PROVE  RequestPage(r)'
BY DEF RequestPage, Past

\* A request that stays where it is, while what it read does not change or the
\* change is recorded.
LEMMA StayKeepsPage ==
  ASSUME NEW r \in Requests, RequestPage(r), StillBehind(r),
         pc'[r] = pc[r], UNCHANGED <<step[r], page[r], using[r], seenVersion[r]>>,
         \/ UNCHANGED <<answers, submitted>>
         \/ pc[r] \notin {"idle", "process"} => "answers" \in behind'[r],
         \/ UNCHANGED version
         \/ pc[r] \notin {"idle", "process", "load"} => "version" \in behind'[r]
  PROVE  RequestPage(r)'
<1>1. Type(r)' = Type(r) /\ Definition(r)' = Definition(r)
  BY DEF Type, Definition
<1>2. "answers" \notin behind'[r] /\ pc[r] \notin {"idle", "process"} =>
        "answers" \notin behind[r] /\ UNCHANGED <<answers, submitted>>
  BY DEF StillBehind
<1>3. "version" \notin behind'[r] /\ pc[r] \notin {"idle", "process", "load"} =>
        "version" \notin behind[r] /\ UNCHANGED version
  BY DEF StillBehind
<1>4. ASSUME UNCHANGED <<answers, submitted>>
      PROVE  CompleteAnswers(seenVersion[r])' <=> CompleteAnswers(seenVersion[r])
  BY <1>4 DEF CompleteAnswers
<1> QED
  BY <1>1, <1>2, <1>3, <1>4 DEF RequestPage, Past

LEMMA FinishKeepsPage ==
  ASSUME RequestTypes, NEW r \in Requests, Finish(r)
  PROVE  RequestPage(r)'
BY RestKeepsPage DEF Finish, RequestTypes

\* The submission: what it writes was validated with the answers it changes.
LEMMA SubmitKeepsPage ==
  ASSUME TypeOK, NEW r \in Requests, RequestPage(r), StillBehind(r), Submit(r)
  PROVE  RequestPage(r)'
<1> USE DEF sessionVars, submissionVars, body, seen
<1>0. RequestTypes /\ StoreTypes
  BY TypeParts
<1>1. CASE UnknownStep(r)
  BY <1>0, <1>1, FinishKeepsPage DEF UnknownStep
<1>2. CASE SubmitForm(r)
  <2>1. CASE ValidateForm(Definition(r), step[r], page[r], answers)
    <3>1. /\ pc'[r] = "write" /\ UNCHANGED <<body, seen, version, answers, submitted>>
      BY <1>0, <1>2, <2>1 DEF SubmitForm, Goto, RequestTypes
    <3> QED
      BY <2>1, <3>1 DEF RequestPage, Past, Type, Definition
  <2>2. CASE ~ValidateForm(Definition(r), step[r], page[r], answers)
    BY <1>0, <1>2, <2>2, FinishKeepsPage DEF SubmitForm
  <2> QED
    BY <2>1, <2>2
<1>3. CASE SubmitDocument(r)
  <2>1. CASE doc[r] = active
    <3>1. /\ pc'[r] = "consent" /\ Type(r) = "document" /\ UNCHANGED <<step, using>>
      BY <1>0, <1>3, <2>1 DEF SubmitDocument, Goto, RequestTypes
    <3> QED
      BY <3>1 DEF RequestPage, Past, Type, Definition
  <2>2. CASE doc[r] # active
    BY <1>0, <1>3, <2>2, FinishKeepsPage DEF SubmitDocument
  <2> QED
    BY <2>1, <2>2
<1>4. CASE InsertConsent(r)
  <2>1. /\ pc'[r] = "write" /\ Type(r) = "document" /\ UNCHANGED <<step, using>>
    BY <1>0, <1>4 DEF InsertConsent, Goto, RequestTypes, RequestPage, Past
  <2> QED
    BY <2>1 DEF RequestPage, Past, Type, Definition
<1>5. CASE SubmitOther(r)
  <2>1. /\ pc'[r] = "write" /\ Type(r) # "form" /\ UNCHANGED <<step, using>>
    BY <1>0, <1>5 DEF SubmitOther, Goto, RequestTypes
  <2> QED
    BY <2>1 DEF RequestPage, Past, Type, Definition
<1>6. CASE UpsertStepSubmission(r)
  <2> DEFINE d == Definition(r)
             s == step[r]
             p == page[r]
  <2>1. s \in Steps /\ s # NoStep /\ answers \in [Steps -> Pages] /\ p \in Pages
    BY <1>0, <1>6, FlowAssumption DEF UpsertStepSubmission, RequestTypes, StoreTypes
  <2>2. /\ pc[r] = "write" /\ pc'[r] = "load" /\ UNCHANGED <<step, using>> /\ s \in submitted'
        /\ answers' = [answers EXCEPT ![s] = Kept(d, s, p)]
    BY <1>0, <1>6 DEF UpsertStepSubmission, Goto, RequestTypes
  <2>3. answers'[s] = Kept(d, s, p)
    BY <2>1, <2>2
  <2>4. using[r] \in Versions
    BY <2>1 DEF RequestPage
  <2>5. ASSUME Type(r) = "form", "answers" \notin behind[r] PROVE Missing(d, s, answers'[s], answers') = {}
    <3>1. ValidateForm(d, s, p, answers)
      BY <1>6, <2>5 DEF UpsertStepSubmission, RequestPage, Past
    <3>2. WellFormed(d) /\ s \in DOMAIN d.fields /\ s \in DOMAIN answers
      BY <2>1, <2>4, FlowAssumption DEF Definition
    <3>3. \A f \in d.fields[s] : f.key \in DOMAIN p
      BY <2>1, <2>4, FlowAssumption DEF Definition, Pages
    <3>4. Missing(d, s, Kept(d, s, p), [answers EXCEPT ![s] = Kept(d, s, p)]) = {}
      BY <3>1, <3>2, <3>3, AcceptedPageMissesNothing
    <3> QED
      BY <2>2, <2>3, <3>4
  <2>6. Type(r)' = Type(r) /\ Definition(r)' = d /\ step'[r] = s
    BY <2>2 DEF Type, Definition
  <2>7. "answers" \notin behind'[r] => "answers" \notin behind[r]
    BY <2>2 DEF StillBehind
  <2> HIDE DEF d, s, p
  <2>8. "answers" \notin behind'[r] /\ Type(r)' = "form" =>
          step'[r] \in submitted' /\ Missing(Definition(r)', step'[r], answers'[step'[r]], answers') = {}
    BY <2>2, <2>5, <2>6, <2>7
  <2>9. using'[r] \in Versions
    BY <2>2, <2>4
  <2> QED
    BY <2>2, <2>8, <2>9 DEF RequestPage, Past
<1> QED
  BY <1>1, <1>2, <1>3, <1>4, <1>5, <1>6 DEF Submit

\* The reads: the session is read as it is, and found complete as it is.
LEMMA EnvelopeKeepsPage ==
  ASSUME TypeOK, NEW r \in Requests, RequestPage(r), StillBehind(r), BuildEnvelope(r) \/ GetSession(r)
  PROVE  RequestPage(r)'
<1> USE DEF sessionVars, submissionVars, body, seen
<1>0. RequestTypes /\ StoreTypes
  BY TypeParts
<1>1. CASE GetSession(r)
  <2>1. pc[r] = "idle" /\ pc'[r] = "load" /\ UNCHANGED step
    BY <1>0, <1>1 DEF GetSession, Goto, RequestTypes
  <2> QED
    BY <2>1 DEF RequestPage, Past
<1>2. CASE LoadSession(r)
  <2>1. /\ pc[r] = "load" /\ pc'[r] = "upgrade" /\ seenVersion'[r] = version
        /\ UNCHANGED <<version, answers, submitted, step, using>>
    BY <1>0, <1>2 DEF LoadSession, Goto, RequestTypes
  <2> QED
    BY <2>1 DEF RequestPage, Past, Type, Definition, StillBehind
<1>3. CASE MaybeUpgradeFlowVersion(r)
  <2>1. /\ pc[r] = "upgrade" /\ pc'[r] \in {"pin", "reconcile"}
        /\ UNCHANGED <<version, answers, submitted, step, using, seenVersion>>
    BY <1>0, <1>3 DEF MaybeUpgradeFlowVersion, Goto, RequestTypes
  <2> QED
    BY <2>1 DEF RequestPage, Past, Type, Definition, StillBehind
<1>4. CASE UpdateSessionFlowVersion(r)
  <2>1. /\ pc[r] = "pin" /\ pc'[r] = "reconcile" /\ seenVersion'[r] = version'
        /\ UNCHANGED <<answers, submitted, step, using>>
    BY <1>0, <1>4 DEF UpdateSessionFlowVersion, Goto, RequestTypes
  <2> QED
    BY <2>1 DEF RequestPage, Past, Type, Definition, StillBehind
<1>5. CASE ServeNext(r)
  <2>1. Finish(r)
    BY <1>5 DEF ServeNext
  <2> QED
    BY <1>0, <2>1, FinishKeepsPage
<1>6. CASE FlowComplete(r)
  <2>1. /\ pc[r] = "reconcile" /\ pc'[r] = "trigger"
        /\ UNCHANGED <<version, answers, submitted, step, using, seenVersion>>
    BY <1>0, <1>6 DEF FlowComplete, Goto, RequestTypes
  <2>2. \A i \in DOMAIN ResolveOrder(Flow[seenVersion[r]], answers) :
          ~Unresolved(Flow[seenVersion[r]], ResolveOrder(Flow[seenVersion[r]], answers)[i])
    BY <1>6 DEF FlowComplete
  <2>3. CompleteAnswers(seenVersion[r])
    BY <2>2 DEF CompleteAnswers, Unresolved, CollectFields
  <2>4. CompleteAnswers(seenVersion[r])'
    BY <2>1, <2>3 DEF CompleteAnswers
  <2> QED
    BY <2>1, <2>4 DEF RequestPage, Past, StillBehind
<1>7. CASE GetOnCompleteRun(r)
  <2>1. CASE run = "none"
    <3>1. /\ pc[r] = "trigger" /\ pc'[r] = "start"
          /\ UNCHANGED <<version, answers, submitted, step, using, seenVersion>>
      BY <1>0, <1>7, <2>1 DEF GetOnCompleteRun, Goto, RequestTypes
    <3>2. CompleteAnswers(seenVersion[r])' <=> CompleteAnswers(seenVersion[r])
      BY <3>1 DEF CompleteAnswers
    <3> QED
      BY <3>1, <3>2 DEF RequestPage, Past, StillBehind
  <2>2. CASE run # "none"
    BY <1>0, <1>7, <2>2, FinishKeepsPage DEF GetOnCompleteRun
  <2> QED
    BY <2>1, <2>2
<1>8. CASE StartOnCompleteRun(r)
  <2>1. pc'[r] = "mark" /\ UNCHANGED <<step, using>>
    BY <1>0, <1>8 DEF StartOnCompleteRun, Goto, RequestTypes
  <2> QED
    BY <2>1 DEF RequestPage, Past
<1>9. CASE MarkVerifying(r)
  BY <1>0, <1>9, FinishKeepsPage DEF MarkVerifying
<1> QED
  BY <1>1, <1>2, <1>3, <1>4, <1>5, <1>6, <1>7, <1>8, <1>9 DEF BuildEnvelope

\* The requests that a step of q leaves where they are, and what it may write.
LeavesAlone(q, r) ==
  /\ pc'[r] = pc[r] /\ UNCHANGED <<step[r], page[r], using[r], seenVersion[r]>>
  /\ UNCHANGED <<answers, submitted>> \/ (pc[q] = "write" /\ pc'[q] = "load")
  /\ UNCHANGED version \/ (pc[q] = "pin" /\ pc'[q] = "reconcile")

LEMMA RequestsLeaveOthersAlone ==
  ASSUME TypeOK, NEW q \in Requests, NEW r \in Requests \ {q},
         Submit(q) \/ BuildEnvelope(q) \/ GetSession(q) \/ Fail(q) \/ \E s, p : Begin(q, s, p)
  PROVE  LeavesAlone(q, r)
<1> USE DEF LeavesAlone, sessionVars, submissionVars, body, seen, Goto, Finish
<1>0. RequestTypes
  BY TypeParts
<1>1. CASE Submit(q)
  <2>1. CASE UpsertStepSubmission(q)
    BY <1>0, <2>1 DEF UpsertStepSubmission, RequestTypes
  <2>2. CASE UnknownStep(q) \/ SubmitForm(q) \/ SubmitDocument(q) \/ InsertConsent(q) \/ SubmitOther(q)
    BY <1>0, <2>2 DEF UnknownStep, SubmitForm, SubmitDocument, InsertConsent, SubmitOther, RequestTypes
  <2> QED
    BY <1>1, <2>1, <2>2 DEF Submit
<1>2. CASE BuildEnvelope(q)
  <2>1. CASE UpdateSessionFlowVersion(q)
    BY <1>0, <2>1 DEF UpdateSessionFlowVersion, RequestTypes
  <2>2. CASE ServeNext(q)
    <3>1. Finish(q) /\ UNCHANGED <<sessionVars, submissionVars>>
      BY <2>2 DEF ServeNext
    <3> QED
      BY <1>0, <3>1 DEF RequestTypes
  <2>3. CASE LoadSession(q) \/ MaybeUpgradeFlowVersion(q) \/ FlowComplete(q) \/ GetOnCompleteRun(q)
             \/ StartOnCompleteRun(q) \/ MarkVerifying(q)
    BY <1>0, <2>3 DEF LoadSession, MaybeUpgradeFlowVersion, FlowComplete, GetOnCompleteRun,
       StartOnCompleteRun, MarkVerifying, RequestTypes
  <2> QED
    BY <1>2, <2>1, <2>2, <2>3 DEF BuildEnvelope
<1>3. CASE GetSession(q) \/ Fail(q) \/ \E s, p : Begin(q, s, p)
  BY <1>0, <1>3 DEF GetSession, Fail, Begin, RequestTypes
<1> QED
  BY <1>1, <1>2, <1>3

LEMMA OwnStepKeepsPage ==
  ASSUME TypeOK, NEW r \in Requests, RequestPage(r), StillBehind(r),
         Submit(r) \/ BuildEnvelope(r) \/ GetSession(r) \/ Fail(r) \/ \E s \in Steps : \E p : Begin(r, s, p)
  PROVE  RequestPage(r)'
<1>0. RequestTypes /\ StoreTypes
  BY TypeParts
<1>1. CASE Fail(r)
  BY <1>0, <1>1, FinishKeepsPage DEF Fail
<1>2. ASSUME NEW s \in Steps, NEW p, Begin(r, s, p) PROVE RequestPage(r)'
  <2>1. pc'[r] = "process" /\ using'[r] \in Versions
    BY <1>0, <1>2 DEF Begin, Goto, RequestTypes, StoreTypes
  <2> QED
    BY <2>1 DEF RequestPage, Past
<1> QED
  BY <1>1, <1>2, SubmitKeepsPage, EnvelopeKeepsPage

LEMMA StepPage == PageInv /\ TypeOK /\ [Next]_vars => PageInv'
<1> SUFFICES ASSUME PageInv, TypeOK, [Next]_vars PROVE PageInv'
  OBVIOUS
<1>1. CASE UNCHANGED vars
  <2>1. ASSUME NEW r \in Requests PROVE RequestPage(r)'
    BY <1>1, StayKeepsPage DEF PageInv, StillBehind, vars, sessionVars, submissionVars, requestVars
  <2> QED
    BY <2>1 DEF PageInv
<1>2. CASE Next
  <2>1. \A r \in Requests : StillBehind(r) /\ \A q \in Requests \ {r} : Overtaken(q, r)
    BY <1>2, RecordIsKept
  <2>2. ASSUME NEW q \in Requests,
               Submit(q) \/ BuildEnvelope(q) \/ GetSession(q) \/ Fail(q) \/ \E s \in Steps : \E p : Begin(q, s, p)
        PROVE  PageInv'
    <3>1. RequestPage(q)'
      BY <2>1, <2>2, OwnStepKeepsPage DEF PageInv
    <3>2. ASSUME NEW r \in Requests \ {q} PROVE RequestPage(r)'
      <4>1. LeavesAlone(q, r)
        BY <2>2, RequestsLeaveOthersAlone
      <4>2. RequestPage(r) /\ StillBehind(r) /\ Overtaken(q, r)
        BY <2>1 DEF PageInv
      <4> QED
        BY <4>1, <4>2, StayKeepsPage DEF LeavesAlone, Overtaken
    <3> QED
      BY <3>1, <3>2 DEF PageInv
  <2>3. ASSUME UNCHANGED <<version, answers, submitted, requestVars>> PROVE PageInv'
    <3>1. ASSUME NEW r \in Requests PROVE RequestPage(r)'
      BY <2>1, <2>3, StayKeepsPage DEF PageInv, requestVars
    <3> QED
      BY <3>1 DEF PageInv
  <2>4. CASE \/ Approve
             \/ \E s \in Steps : Reject(s) \/ Expire(s)
             \/ \E v \in Legal : TakeEffect(v)
    BY <2>3, <2>4 DEF Approve, Reject, Expire, TakeEffect, sessionVars, submissionVars
  <2>5. CASE \E v \in Versions : Publish(v)
    BY <2>5, RestKeepsPage DEF Publish, PageInv
  <2> QED
    BY <1>2, <2>2, <2>4, <2>5 DEF Next, Move, Answer, Edit
<1> QED
  BY <1>1, <1>2

LEMMA PageCorrect == Spec => []PageInv
BY InitPage, StepPage, TypeCorrect, PTL DEF Spec

\* Whatever requests overlap, a verification is started on complete answers, unless
\* they were replaced, or once a rejection sent the user back the session moved,
\* after they were read.
THEOREM VerificationIsOfCompleteAnswers == Spec => VerifiedOnCompleteAnswers
<1> DEFINE Complete ==
      \A r \in Requests :
        /\ StartOnCompleteRun(r) /\ run = "none"
        /\ "answers" \notin behind[r]
        /\ returned => "version" \notin behind[r]
        => LET d == Flow[version]
               order == ResolveOrder(d, answers)
           IN \A i \in DOMAIN order :
                /\ order[i] \in submitted
                /\ d.type[order[i]] = "form" => Missing(d, order[i], answers[order[i]], answers) = {}
<1>1. ASSUME TypeOK, UpgradeInv, CalmInv, PageInv PROVE Complete
  <2>1. SUFFICES ASSUME NEW r \in Requests, StartOnCompleteRun(r), run = "none",
                        "answers" \notin behind[r], returned => "version" \notin behind[r]
                 PROVE  CompleteAnswers(version)
    BY DEF CompleteAnswers
  <2>2. Past(r, {"start"})
    BY <2>1 DEF StartOnCompleteRun, Past
  <2>3. CompleteAnswers(seenVersion[r])
    BY <1>1, <2>1, <2>2 DEF PageInv, RequestPage, Past
  <2>4. CASE returned
    BY <1>1, <2>1, <2>2, <2>3, <2>4 DEF PageInv, RequestPage, Past
  <2>5. CASE ~returned
    <3>1. RunInv /\ SeenInv
      BY <1>1, <2>5 DEF CalmInv, Undisturbed
    <3>2. status = "in_progress"
      BY <2>1, <3>1 DEF RunInv
    <3>3. seenStatus[r] = "in_progress"
      BY <2>1, <2>2, <3>1, <3>2 DEF SeenInv, Past
    <3>4. seenVersion[r] = version
      BY <1>1, <2>2, <3>3 DEF UpgradeInv, Past
    <3> QED
      BY <2>3, <3>4
  <2> QED
    BY <2>4, <2>5
<1>2. TypeOK /\ UpgradeInv /\ CalmInv /\ PageInv => [Complete]_vars
  BY <1>1
<1> QED
  BY <1>2, TypeCorrect, UpgradeCorrect, PageCorrect, PTL DEF Spec, VerifiedOnCompleteAnswers

\* What published versions are expected to keep to: a step is of one type.
StepsKeepTheirType == \A v, w \in Versions : Flow[v].type = Flow[w].type

\* A rejection is about a capture, whichever version the session moves to.
RejectionInv == run = "rejected" => \A v \in Versions : Flow[v].type[reason] = "camera"

\* A rejection names a camera step, and its reason stays.
LEMMA StepRejection ==
  ASSUME StepsKeepTheirType, TypeOK, RejectionInv, [Next]_vars
  PROVE  RejectionInv'
<1>1. SUFFICES ASSUME run' = "rejected" PROVE \A v \in Versions : Flow[v].type[reason'] = "camera"
  BY DEF RejectionInv
<1>2. CASE run = "rejected"
  <2>1. reason' = reason
    BY <1>1, <1>2 DEF Next, Move, Submit, BuildEnvelope, vars, configuration, sessionVars, Answer, Edit, Begin,
       GetSession, UnknownStep, SubmitForm, SubmitDocument, InsertConsent, SubmitOther, UpsertStepSubmission,
       LoadSession, MaybeUpgradeFlowVersion, UpdateSessionFlowVersion, ServeNext, FlowComplete,
       GetOnCompleteRun, StartOnCompleteRun, MarkVerifying, Fail, Approve, Reject, Expire, TakeEffect, Publish
  <2> QED
    BY <1>2, <2>1 DEF RejectionInv
<1>3. CASE run # "rejected"
  <2>1. ~ UNCHANGED run
    BY <1>1, <1>3
  <2>2. PICK s \in Steps : Reject(s)
    BY <1>1, <2>1 DEF Next, Move, Submit, BuildEnvelope, vars, configuration, sessionVars, Answer, Edit, Begin,
       GetSession, UnknownStep, SubmitForm, SubmitDocument, InsertConsent, SubmitOther, UpsertStepSubmission,
       LoadSession, MaybeUpgradeFlowVersion, UpdateSessionFlowVersion, ServeNext, FlowComplete,
       GetOnCompleteRun, StartOnCompleteRun, MarkVerifying, Fail, Approve, Expire, TakeEffect, Publish
  <2>3. version \in Versions
    BY DEF TypeOK
  <2> QED
    BY <2>2, <2>3 DEF Reject, StepsKeepTheirType
<1> QED
  BY <1>2, <1>3

LEMMA RejectionCorrect ==
  ASSUME StepsKeepTheirType
  PROVE  Spec => []RejectionInv
<1>1. Init => RejectionInv
  BY DEF Init, RejectionInv
<1>2. RejectionInv /\ TypeOK /\ [Next]_vars => RejectionInv'
  BY StepRejection
<1> QED
  BY <1>1, <1>2, TypeCorrect, PTL DEF Spec

\* Whatever requests overlap, a form page that was accepted is not asked again, if
\* no other request replaced a page meanwhile.
THEOREM AcceptedPageIsKept ==
  ASSUME StepsKeepTheirType
  PROVE  Spec => AcceptedPageIsNotAskedAgain
<1> DEFINE NotAgain ==
      \A r \in Requests :
        /\ step[r] # NoStep /\ Type(r) = "form"
        /\ using[r] = seenVersion[r] /\ "answers" \notin behind[r]
        /\ ServeNext(r)
        => told' # step[r]
<1>1. ASSUME TypeOK, PageInv, RejectionInv PROVE NotAgain
  <2>1. SUFFICES ASSUME NEW r \in Requests,
                        ServeNext(r), step[r] # NoStep, Type(r) = "form", using[r] = seenVersion[r],
                        "answers" \notin behind[r], told' = step[r]
                 PROVE  FALSE
    OBVIOUS
  <2>2. /\ Past(r, {"reconcile"})
        /\ Unresolved(Flow[seenVersion[r]], step[r])
    BY <2>1 DEF ServeNext, Past
  <2>3. /\ step[r] \in submitted
        /\ Missing(Definition(r), step[r], answers[step[r]], answers) = {}
        /\ using[r] \in Versions
    BY <1>1, <2>1, <2>2 DEF PageInv, RequestPage, Past
  <2>4. Flow[seenVersion[r]] = Definition(r) /\ Definition(r).type[step[r]] = "form"
    BY <2>1 DEF Definition, Type
  <2>5. ~CollectFields(Definition(r), step[r])
    BY <2>3 DEF CollectFields
  <2>6. ~ReacceptDocument(Definition(r), step[r])
    BY <2>4 DEF ReacceptDocument
  <2>7. ~RedoStep(Definition(r), step[r])
    <3>1. ~(run = "rejected" /\ reason = step[r])
      BY <1>1, <2>3, <2>4 DEF RejectionInv, Definition
    <3> QED
      BY <2>4, <3>1 DEF RedoStep
  <2> QED
    BY <2>2, <2>3, <2>4, <2>5, <2>6, <2>7 DEF Unresolved
<1>2. TypeOK /\ PageInv /\ RejectionInv => [NotAgain]_vars
  BY <1>1
<1> QED
  BY <1>2, RejectionCorrect, PageCorrect, TypeCorrect, PTL DEF Spec, AcceptedPageIsNotAskedAgain

----------------------------------------------------------------------------
(* Terms that have to be accepted again                                    *)

\* A request past its read of the session has read a version that exists.
ReadInv ==
  \A r \in Requests :
    Past(r, {"upgrade", "pin", "reconcile", "trigger", "start", "mark"}) => seenVersion[r] \in Versions

LEMMA StepRead == ReadInv /\ TypeOK /\ [Next]_vars => ReadInv'
<1> SUFFICES ASSUME ReadInv, TypeOK, [Next]_vars PROVE ReadInv'
  OBVIOUS
<1> USE DEF ReadInv, Past
<1>1. /\ pc \in [Requests -> Locations] /\ seenVersion \in [Requests -> Versions \cup {0}]
      /\ version \in Versions /\ published \in Versions
  BY DEF TypeOK
<1>2. ASSUME NEW r \in Requests,
             Answer(r) \/ GetSession(r) \/ Submit(r) \/ Fail(r)
             \/ \E s \in Steps : \E p \in PagesOf[s] : Edit(r, s, p)
      PROVE  ReadInv'
  BY <1>1, <1>2 DEF Answer, Edit, Begin, GetSession, Submit, UnknownStep, SubmitForm, SubmitDocument,
    InsertConsent, SubmitOther, UpsertStepSubmission, Fail, Finish, Goto, seen
<1>3. ASSUME NEW r \in Requests, BuildEnvelope(r)
      PROVE  ReadInv'
  <2>1. CASE LoadSession(r)
    BY <1>1, <2>1 DEF LoadSession, Goto
  <2>2. CASE MaybeUpgradeFlowVersion(r)
    BY <1>1, <2>2 DEF MaybeUpgradeFlowVersion, Goto, seen
  <2>3. CASE UpdateSessionFlowVersion(r)
    BY <1>1, <2>3 DEF UpdateSessionFlowVersion, Goto
  <2>4. CASE ServeNext(r) \/ MarkVerifying(r)
    BY <1>1, <2>4 DEF ServeNext, MarkVerifying, Finish
  <2>5. CASE FlowComplete(r) \/ GetOnCompleteRun(r) \/ StartOnCompleteRun(r)
    BY <1>1, <2>5 DEF FlowComplete, GetOnCompleteRun, StartOnCompleteRun, Goto, Finish, seen
  <2> QED
    BY <1>3, <2>1, <2>2, <2>3, <2>4, <2>5 DEF BuildEnvelope
<1>4. CASE \E v \in Versions : Publish(v)
  BY <1>1, <1>4 DEF Publish
<1>5. CASE \/ Approve \/ UNCHANGED vars
           \/ \E s \in Steps : Reject(s) \/ Expire(s)
           \/ \E v \in Legal : TakeEffect(v)
  BY <1>1, <1>5 DEF Approve, Reject, Expire, TakeEffect, vars, requestVars
<1> QED
  BY <1>2, <1>3, <1>4, <1>5 DEF Next, Move

LEMMA ReadCorrect == Spec => []ReadInv
<1>1. Init => ReadInv
  BY DEF Init, ReadInv, Past
<1> QED
  BY <1>1, StepRead, TypeCorrect, PTL DEF Spec

\* A version on top of one that has to be accepted again has to be, too.
RequiredStaysRequired == \A v \in Reacceptance, w \in Legal : v < w => w \in Reacceptance

\* Every flow version has the document, not only as a step of a branch.
DocumentOnEveryPath ==
  \A v \in Versions : \E s \in ToSet(Base(Flow[v])) : Flow[v].type[s] = "document"

\* A step that no transition inserts is in the order, whatever was answered.
LEMMA BaseIsInTheOrder ==
  ASSUME NEW v \in Versions, NEW all, NEW s \in ToSet(Base(Flow[v]))
  PROVE  \E i \in DOMAIN ResolveOrder(Flow[v], all) : ResolveOrder(Flow[v], all)[i] = s
<1>1. SoundOrder(Flow[v], all)
  BY FlowAssumption, ResolvedOrderIsSound
<1>2. s \in ToSet(ResolveOrder(Flow[v], all))
  BY <1>1 DEF SoundOrder
<1> QED
  BY <1>2 DEF ToSet

\* The editorial version on top of a required one is the only way past a
\* re-acceptance: without it no envelope finds the flow complete while a change
\* that has to be accepted is not, for any number of overlapping requests.
THEOREM ReacceptanceIsAskedUnlessHidden ==
  ASSUME RequiredStaysRequired, DocumentOnEveryPath
  PROVE  Spec => ReacceptanceIsAsked
<1> DEFINE Asked ==
      \A r \in Requests : FlowComplete(r) /\ consent # 0 =>
        \A v \in Reacceptance : ~(consent < v /\ v <= active)
<1>1. ASSUME TypeOK, ReadInv PROVE Asked
  <2>1. SUFFICES ASSUME NEW r \in Requests, FlowComplete(r), consent # 0,
                        NEW v \in Reacceptance, consent < v, v <= active
                 PROVE  FALSE
    OBVIOUS
  <2>2. seenVersion[r] \in Versions
    BY <1>1, <2>1 DEF ReadInv, Past, FlowComplete
  <2>3. v \in Nat /\ active \in Nat /\ consent \in Nat
    <3>1. active \in Legal /\ consent \in Legal \cup {0}
      BY <1>1, TypeParts DEF StoreTypes
    <3>2. Legal \cup {0} \subseteq Nat /\ Reacceptance \subseteq Nat
      BY FlowAssumption
    <3> QED
      BY <3>1, <3>2
  <2>4. active \in Reacceptance /\ active # consent
    <3>1. active = v \/ v < active
      BY <2>1, <2>3
    <3>2. active \in Reacceptance
      BY <1>1, <3>1 DEF TypeOK, RequiredStaysRequired
    <3> QED
      BY <2>1, <2>3, <3>2
  <2>5. PICK s \in ToSet(Base(Flow[seenVersion[r]])) : Flow[seenVersion[r]].type[s] = "document"
    BY <2>2 DEF DocumentOnEveryPath
  <2>6. Unresolved(Flow[seenVersion[r]], s)
    BY <2>1, <2>4, <2>5 DEF Unresolved, ReacceptDocument
  <2> QED
    BY <2>1, <2>2, <2>5, <2>6, BaseIsInTheOrder DEF FlowComplete
<1>2. TypeOK /\ ReadInv => [Asked]_vars
  BY <1>1
<1> QED
  BY <1>2, ReadCorrect, TypeCorrect, PTL DEF Spec, ReacceptanceIsAsked
=============================================================================
