------------------------------ MODULE WebClient ------------------------------
(***************************************************************************)
(* One page of the web client (app.js, api.js, config.js and the step      *)
(* renderers) and the calls it has in flight. Every answer arrives in its  *)
(* own time: it may come late, out of order or never. The server is what   *)
(* the endpoints promise (SessionRegistry and the steps it stores).        *)
(*                                                                         *)
(* A session's token stands for the session. The page keeps its id and     *)
(* token in localStorage, and its id in memory too; only the answer of     *)
(* POST /sessions names a session. A reload empties the memory. The steps  *)
(* of the flow come in order, and an answer serves the first one that is   *)
(* not stored. An accepted form's texts do not matter: a draft is the      *)
(* session (Nil is the text "null") and the step it was typed for.         *)
(***************************************************************************)
EXTENDS Naturals, Sequences, FiniteSets

CONSTANTS
  Slots,         \* bound on the calls in flight
  Steps,         \* the types of the flow's steps, in order
  MaxSessions,   \* bound on the sessions created
  MaxTroubles,   \* bound on faults (lost calls, answers that are no success)
                 \* and interrupts (reloads, locale switches, status checks)
  Nil

Pages == DOMAIN Steps
SessionIds == 1..MaxSessions
Ids == SessionIds \cup {Nil}
Types == {"form", "document", "camera"}  \* "camera" uploads; a pin is a form with no draft

ASSUME WebClientAssumption ==
  /\ Steps \in Seq(Types)
  /\ MaxSessions \in Nat /\ MaxTroubles \in Nat
  /\ Nil \notin SessionIds \cup Pages

VARIABLES
  storedId, storedToken, drafts,  \* localStorage
  sid,            \* state.sessionId
  view,           \* what the step container shows
  typed, button,  \* the rendered step: its form is filled, its button's state
  maintenance, timer,  \* the maintenance screen is up, and counting down
  calls,          \* calls in flight, by slot
  created, stored,     \* the server: sessions created, the steps each has
  faults, interrupts,  \* history: how many there were
  happened        \* history: what could cost a session

storageVars == <<storedId, storedToken, drafts>>
screenVars == <<view, typed, button, maintenance, timer>>
serverVars == <<created, stored>>
historyVars == <<faults, interrupts, happened>>
vars == <<storageVars, sid, screenVars, calls, serverVars, historyVars>>

Answers ==
  [status : {"ok", "maintenance", "unauthorized", "refused", "failed"},
   sess : Ids, next : Pages \cup {Nil}]

Requests ==
  [kind : {"post", "get", "check", "submit", "slot", "put", "legal"},
   sent : {"page", "gone"},        \* somebody waits for the answer, or not
   sid : Ids, token : Ids, page : Pages \cup {Nil}, key : Ids,
   mine : BOOLEAN,                 \* sent by the step as it is rendered now
   answer : Answers \cup {Nil}]

TypeOK ==
  /\ storedId \in Ids /\ storedToken \in Ids /\ sid \in Ids
  /\ drafts \subseteq Ids \X Pages
  /\ view \in [screen : {"loading", "fatal", "complete"}, page : {Nil}, key : {Nil}]
              \cup [screen : {"step"}, page : Pages, key : Ids]
  /\ typed \in BOOLEAN /\ button \in {"ready", "loading", "absent"}
  /\ maintenance \in BOOLEAN /\ timer \in BOOLEAN
  /\ calls \in [Slots -> Requests \cup {Nil}]
  /\ created \in 0..MaxSessions
  /\ stored \in [SessionIds -> SUBSET Pages]
  /\ faults \in 0..MaxTroubles /\ interrupts \in 0..MaxTroubles
  /\ happened \subseteq {"reload", "denied", "overlap", "failure"}

Screen(name) == [screen |-> name, page |-> Nil, key |-> Nil]
StepType == IF view.screen = "step" THEN Steps[view.page] ELSE "none"

Request(kind, id, token, page, key, mine) ==
  [kind |-> kind, sent |-> "page", sid |-> id, token |-> token,
   page |-> page, key |-> key, mine |-> mine, answer |-> Nil]

Free == {c \in Slots : calls[c] = Nil}
Slot == CHOOSE c \in Free : TRUE
Send(c, request) == calls' = [calls EXCEPT ![c] = request]

Fault ==
  /\ faults + interrupts < MaxTroubles
  /\ faults' = faults + 1

\* boot: resume what is stored, otherwise start. `page` and `key` are the step
\* whose submit waits for it, if one does.
Boot(id, token, page, key) ==
  IF id # Nil /\ token # Nil
    THEN Request("get", id, token, page, key, FALSE)
    ELSE Request("post", Nil, token, page, key, FALSE)

\* Two creations overlap when one is sent while another is awaited.
Overlap(request) ==
  IF request.kind = "post" /\ \E c \in Slots : calls[c] # Nil /\ calls[c].kind = "post"
    THEN {"overlap"} ELSE {}

Init ==
  /\ storedId = Nil /\ storedToken = Nil /\ drafts = {}
  /\ sid = Nil
  /\ view = Screen("loading") /\ typed = FALSE /\ button = "absent"
  /\ maintenance = FALSE /\ timer = FALSE
  /\ calls = [c \in Slots |-> IF c = CHOOSE d \in Slots : TRUE
                                THEN Boot(Nil, Nil, Nil, Nil) ELSE Nil]
  /\ created = 0
  /\ stored = [s \in SessionIds |-> {}]
  /\ faults = 0 /\ interrupts = 0 /\ happened = {}

----------------------------------------------------------------------------
(* The server                                                              *)

Answer(status, s, next) == [status |-> status, sess |-> s, next |-> next]

\* Nobody hears the answer of a call the page gave up.
Reply(c, answer) ==
  calls' = [calls EXCEPT ![c] = IF @.sent = "gone" THEN Nil ELSE [@ EXCEPT !.answer = answer]]

Reached(c, kinds) == calls[c] # Nil /\ calls[c].answer = Nil /\ calls[c].kind \in kinds

Authorized(c) == calls[c].sid # Nil /\ calls[c].token = calls[c].sid

\* An envelope, of the system or of maintenance.
Success(status) == IF status = "maintenance" THEN Fault ELSE status = "ok" /\ UNCHANGED faults

\* next_step: the first step that is not stored.
NextStep(has) ==
  LET left == Pages \ has
  IN IF left = {} THEN Nil ELSE CHOOSE p \in left : \A q \in left : p <= q

\* POST /sessions: the session of the token, or a new one.
CreateSession(c, status) ==
  /\ Reached(c, {"post"})
  /\ Success(status)
  /\ created' = IF calls[c].token = Nil THEN created + 1 ELSE created
  /\ created' <= MaxSessions
  /\ LET s == IF calls[c].token = Nil THEN created' ELSE calls[c].token
     IN Reply(c, Answer(status, s, NextStep(stored[s])))
  /\ UNCHANGED <<storageVars, sid, screenVars, stored, interrupts, happened>>

\* GET /sessions/{id}.
GetSession(c, status) ==
  /\ Reached(c, {"get", "check"})
  /\ Authorized(c)
  /\ Success(status)
  /\ Reply(c, Answer(status, Nil, NextStep(stored[calls[c].sid])))
  /\ UNCHANGED <<storageVars, sid, screenVars, serverVars, interrupts, happened>>

\* POST /sessions/{id}/steps/{stepId}: every attempt has a key of its own, and
\* is stored anew.
StoreStep(c, status) ==
  /\ Reached(c, {"submit"})
  /\ Authorized(c)
  /\ Success(status)
  /\ stored' = [stored EXCEPT ![calls[c].sid] = @ \cup {calls[c].page}]
  /\ Reply(c, Answer(status, Nil, NextStep(stored'[calls[c].sid])))
  /\ UNCHANGED <<storageVars, sid, screenVars, created, interrupts, happened>>

\* POST /sessions/{id}/uploads, the upload itself, GET /legal.
Provide(c) ==
  /\ Reached(c, {"slot", "put", "legal"})
  /\ calls[c].kind = "slot" => Authorized(c)
  /\ Reply(c, Answer("ok", Nil, Nil))
  /\ UNCHANGED <<storageVars, sid, screenVars, serverVars, historyVars>>

\* 401: the token is not the session's.
Unauthorized(c) ==
  /\ Reached(c, {"get", "check", "submit", "slot"})
  /\ ~Authorized(c)
  /\ Reply(c, Answer("unauthorized", Nil, Nil))
  /\ UNCHANGED <<storageVars, sid, screenVars, serverVars, historyVars>>

\* Any error of the session's lookup is a 401 too (Authenticate).
LookupFails(c) ==
  /\ Reached(c, {"get", "check", "submit", "slot"})
  /\ Fault
  /\ happened' = happened \cup {"denied"}
  /\ Reply(c, Answer("unauthorized", Nil, Nil))
  /\ UNCHANGED <<storageVars, sid, screenVars, serverVars, interrupts>>

\* 422, or 409 for a document that is not the active version.
Refuse(c) ==
  /\ Reached(c, {"submit"})
  /\ Fault
  /\ Reply(c, Answer("refused", Nil, Nil))
  /\ UNCHANGED <<storageVars, sid, screenVars, serverVars, interrupts, happened>>

\* 429 or 500.
ServerError(c) ==
  /\ Reached(c, {"post", "get", "check", "submit", "slot", "put", "legal"})
  /\ Fault
  /\ happened' = happened \cup {"failure"}
  /\ Reply(c, Answer("failed", Nil, Nil))
  /\ UNCHANGED <<storageVars, sid, screenVars, serverVars, interrupts>>

\* The connection goes while an answer's body is under way: the server has
\* done its part, and `request` rejects outside its try, with neither a
\* MaintenanceError nor an ApiError. An upload's answer has no body to read.
CutOff(c) ==
  /\ calls[c] # Nil /\ calls[c].sent = "page" /\ calls[c].kind # "put"
  /\ calls[c].answer # Nil /\ calls[c].answer.status # "failed"
  /\ Fault
  /\ happened' = happened \cup {"failure"}
  /\ Reply(c, Answer("failed", Nil, Nil))
  /\ UNCHANGED <<storageVars, sid, screenVars, serverVars, interrupts>>

----------------------------------------------------------------------------
(* The page: answers arrive                                                *)

Answered(c, kinds, statuses) ==
  /\ calls[c] # Nil /\ calls[c].answer # Nil
  /\ calls[c].kind \in kinds /\ calls[c].answer.status \in statuses

\* The renderer's `finally`: a document has none.
Released(c) == IF calls[c].mine /\ StepType # "document" THEN "ready" ELSE button

\* clearDraft of the renderer, once its submit has returned.
DraftCleared(c) == drafts \ {<<calls[c].key, calls[c].page>>}

\* Mutant: the countdown is stopped after it was set.
ShowMaintenance_Stops == maintenance' = TRUE /\ timer' = FALSE

ShowMaintenance == maintenance' = TRUE /\ timer' = TRUE

HideMaintenance == maintenance' = FALSE /\ timer' = FALSE

\* What was rendered before is not there any more.
Replaced == [c \in Slots |-> IF calls[c] = Nil THEN Nil ELSE [calls[c] EXCEPT !.mine = FALSE]]

\* Mutant: the end of the flow has no screen of its own.
DispatchStep_NoEnd(c, next, key, left) ==
  /\ view' = [screen |-> "step", page |-> next, key |-> key]
  /\ typed' = (<<key, next>> \in left)
  /\ button' = "ready"
  /\ calls' = [Replaced EXCEPT ![c] = Nil]

\* Render the step with its draft, or the completion. A document first asks
\* for its text.
DispatchStep(c, next, key, left) ==
  LET isDocument == next # Nil /\ Steps[next] = "document"
  IN
  /\ view' = IF next = Nil THEN Screen("complete")
             ELSE [screen |-> "step", page |-> next, key |-> key]
  /\ typed' = (<<key, next>> \in left)
  /\ button' = IF isDocument THEN "absent" ELSE "ready"
  /\ calls' = [Replaced EXCEPT ![c] =
       IF isDocument THEN Request("legal", Nil, Nil, Nil, Nil, TRUE) ELSE Nil]

\* Mutant: a token that is there is kept.
TakeSession_KeepsToken(s) ==
  /\ sid' = IF s # Nil THEN s ELSE sid
  /\ storedToken' = IF storedToken = Nil THEN s ELSE storedToken
  /\ storedId' = IF sid' # Nil THEN sid' ELSE storedId

\* The session and the token of an envelope that has them.
TakeSession(s) ==
  /\ sid' = IF s # Nil THEN s ELSE sid
  /\ storedToken' = IF s # Nil THEN s ELSE storedToken
  /\ storedId' = IF sid' # Nil THEN sid' ELSE storedId

\* An envelope: it replaces what is shown, unless the system is in maintenance.
HandleEnvelope(c) ==
  LET e == calls[c].answer
      left == DraftCleared(c) \ IF calls[c].kind = "submit" THEN {<<sid, calls[c].page>>} ELSE {}
  IN
  /\ Answered(c, {"post", "get", "check", "submit"}, {"ok", "maintenance"})
  /\ TakeSession(e.sess)
  /\ drafts' = left
  /\ IF e.status = "maintenance"
       THEN /\ ShowMaintenance
            /\ button' = Released(c)
            /\ Send(c, Nil)
            /\ UNCHANGED <<view, typed>>
       ELSE /\ HideMaintenance
            /\ DispatchStep(c, e.next, sid', left)
  /\ UNCHANGED <<serverVars, historyVars>>

ClearSession == storedId' = Nil /\ storedToken' = Nil

\* Start again in the same slot; `page` and `key` are those of the submit that
\* waits for it.
StartFresh(c) ==
  LET request == [Boot(Nil, Nil, calls[c].page, calls[c].key) EXCEPT !.mine = calls[c].mine]
  IN
  /\ Send(c, request)
  /\ happened' = happened \cup Overlap(request)

\* boot's resume is unauthorized: a new session.
ResumeExpired(c) ==
  /\ Answered(c, {"get"}, {"unauthorized"})
  /\ ClearSession
  /\ StartFresh(c)
  /\ UNCHANGED <<drafts, sid, screenVars, serverVars, faults, interrupts>>

\* The status button's resume is unauthorized: nothing is started.
CheckExpired(c) ==
  /\ Answered(c, {"check"}, {"unauthorized"})
  /\ ClearSession
  /\ Send(c, Nil)
  /\ UNCHANGED <<drafts, sid, screenVars, serverVars, historyVars>>

HandleAuthExpired(c) ==
  /\ Answered(c, {"submit"}, {"unauthorized"})
  /\ ClearSession
  /\ sid' = Nil
  /\ StartFresh(c)
  /\ UNCHANGED <<drafts, screenVars, serverVars, faults, interrupts>>

\* boot gives up: an error screen, under the maintenance screen if that is up.
BootFailed(c) ==
  /\ Answered(c, {"post", "get"}, {"failed"})
  /\ view' = Screen("fatal") /\ typed' = FALSE /\ button' = "absent"
  /\ drafts' = DraftCleared(c)
  /\ calls' = [Replaced EXCEPT ![c] = Nil]
  /\ UNCHANGED <<storedId, storedToken, sid, maintenance, timer, serverVars, historyVars>>

\* Mutant: a form forgets its draft whatever the answer is.
Unhandled_ClearsDraft(c) ==
  /\ Answered(c, {"check", "submit", "slot", "put", "legal"}, {"unauthorized", "refused", "failed"})
  /\ calls[c].answer.status = "unauthorized" => calls[c].kind = "slot"
  /\ calls[c].answer.status = "refused" => Steps[calls[c].page] # "document"
  /\ Send(c, Nil)
  /\ button' = Released(c)
  /\ drafts' = DraftCleared(c)
  /\ UNCHANGED <<storedId, storedToken, sid, view, typed, maintenance, timer, serverVars, historyVars>>

\* Errors the renderer shows, or nobody does: the step stays as it is.
Unhandled(c) ==
  /\ Answered(c, {"check", "submit", "slot", "put", "legal"}, {"unauthorized", "refused", "failed"})
  /\ calls[c].answer.status = "unauthorized" => calls[c].kind = "slot"
  /\ calls[c].answer.status = "refused" => Steps[calls[c].page] # "document"
  /\ Send(c, Nil)
  /\ button' = Released(c)
  /\ UNCHANGED <<storageVars, sid, view, typed, maintenance, timer, serverVars, historyVars>>

\* 409: the active version is fetched.
StaleDocument(c) ==
  /\ Answered(c, {"submit"}, {"refused"})
  /\ Steps[calls[c].page] = "document"
  /\ Send(c, Request("legal", Nil, Nil, Nil, Nil, calls[c].mine))
  /\ UNCHANGED <<storageVars, sid, screenVars, serverVars, historyVars>>

LoadDoc(c) ==
  /\ Answered(c, {"legal"}, {"ok"})
  /\ button' = IF calls[c].mine THEN "ready" ELSE button
  /\ Send(c, Nil)
  /\ UNCHANGED <<storageVars, sid, view, typed, maintenance, timer, serverVars, historyVars>>

\* The upload follows its slot, and the submit the upload: of the session the
\* page has by then.
PutUpload(c) ==
  /\ Answered(c, {"slot"}, {"ok"})
  /\ Send(c, [calls[c] EXCEPT !.kind = "put", !.answer = Nil])
  /\ UNCHANGED <<storageVars, sid, screenVars, serverVars, historyVars>>

SubmitUpload(c) ==
  /\ Answered(c, {"put"}, {"ok"})
  /\ Send(c, [calls[c] EXCEPT !.kind = "submit", !.sid = sid, !.token = storedToken, !.answer = Nil])
  /\ UNCHANGED <<storageVars, sid, screenVars, serverVars, historyVars>>

\* Mutant: an outage is taken for an expired session.
Lose_Forgets(c) ==
  /\ calls[c] # Nil /\ calls[c].sent = "page"
  /\ Fault
  /\ Send(c, Nil)
  /\ ShowMaintenance
  /\ button' = Released(c)
  /\ drafts' = DraftCleared(c)
  /\ ClearSession
  /\ UNCHANGED <<sid, view, typed, serverVars, interrupts, happened>>

\* No answer's head, or 503 from a gateway: maintenance, for all but an upload.
\* The server may still get the call. submitStep returns as if it had succeeded,
\* so its form forgets the draft.
Lose(c) ==
  /\ calls[c] # Nil /\ calls[c].sent = "page"
  /\ Fault
  /\ \/ Send(c, Nil)
     \/ calls[c].answer = Nil /\ Send(c, [calls[c] EXCEPT !.sent = "gone", !.mine = FALSE])
  /\ IF calls[c].kind = "put" THEN UNCHANGED <<maintenance, timer>> ELSE ShowMaintenance
  /\ button' = Released(c)
  /\ drafts' = DraftCleared(c)
  /\ UNCHANGED <<storedId, storedToken, sid, view, typed, serverVars, interrupts, happened>>

----------------------------------------------------------------------------
(* The page: timers and the user                                           *)

\* A boot of its own, next to whatever is in flight.
BootNow ==
  LET request == Boot(storedId, storedToken, Nil, Nil)
  IN
  /\ Free # {}
  /\ Send(Slot, request)
  /\ happened' = happened \cup Overlap(request)

\* The countdown ends.
Tick ==
  /\ timer
  /\ timer' = FALSE
  /\ BootNow
  /\ UNCHANGED <<storageVars, sid, view, typed, button, maintenance, serverVars, faults, interrupts>>

Interrupt ==
  /\ faults + interrupts < MaxTroubles
  /\ interrupts' = interrupts + 1

\* The locale buttons are in the header, which the maintenance screen hides.
SetLocale ==
  /\ ~maintenance
  /\ Interrupt
  /\ BootNow
  /\ UNCHANGED <<storageVars, sid, screenVars, serverVars, faults>>

CheckStatus ==
  /\ ~maintenance /\ view.screen = "complete"
  /\ Interrupt
  /\ Free # {}
  /\ Send(Slot, Request("check", storedId, storedToken, Nil, Nil, FALSE))
  /\ UNCHANGED <<storageVars, sid, screenVars, serverVars, faults, happened>>

Shown(type) == ~maintenance /\ StepType = type

\* A field of the form changes, and the form is saved as a draft.
Type ==
  /\ Shown("form")
  /\ ~typed
  /\ typed' = TRUE
  /\ drafts' = drafts \cup {<<view.key, view.page>>}
  /\ UNCHANGED <<storedId, storedToken, sid, view, button, maintenance, timer, calls, serverVars, historyVars>>

\* Scrolling to the end of a document arms its button, whatever it waits for.
Scroll ==
  /\ Shown("document")
  /\ button = "loading"
  /\ button' = "ready"
  /\ UNCHANGED <<storageVars, sid, view, typed, maintenance, timer, calls, serverVars, historyVars>>

\* submitStep, and first the upload's slot for a camera step: the slot is of
\* the session the step was rendered with, the submit of the one in memory.
SubmitStep ==
  /\ Shown("form") \/ Shown("document") \/ Shown("camera")
  /\ button = "ready"
  /\ StepType = "form" => typed
  /\ Free # {}
  /\ button' = "loading"
  /\ IF StepType = "camera"
       THEN Send(Slot, Request("slot", view.key, storedToken, view.page, view.key, TRUE))
       ELSE Send(Slot, Request("submit", sid, storedToken, view.page, view.key, TRUE))
  /\ UNCHANGED <<storageVars, sid, view, typed, maintenance, timer, serverVars, historyVars>>

\* The memory is empty and the page boots from localStorage. A call that was
\* sent may still be handled.
Reload ==
  /\ Interrupt
  /\ \E slot \in Slots :
     \E gone \in SUBSET {c \in Slots \ {slot} : calls[c] # Nil /\ calls[c].answer = Nil} :
       calls' = [c \in Slots |->
         IF c = slot THEN Boot(storedId, storedToken, Nil, Nil)
         ELSE IF c \in gone THEN [calls[c] EXCEPT !.sent = "gone", !.mine = FALSE]
         ELSE Nil]
  /\ sid' = Nil
  /\ view' = Screen("loading") /\ typed' = FALSE /\ button' = "absent"
  /\ maintenance' = FALSE /\ timer' = FALSE
  /\ happened' = happened \cup {"reload"}
  /\ UNCHANGED <<storageVars, serverVars, faults>>

ServerStep(c) ==
  \/ \E status \in {"ok", "maintenance"} :
       CreateSession(c, status) \/ GetSession(c, status) \/ StoreStep(c, status)
  \/ Provide(c) \/ Unauthorized(c)

Arrive(c) ==
  \/ HandleEnvelope(c) \/ ResumeExpired(c) \/ CheckExpired(c) \/ HandleAuthExpired(c)
  \/ BootFailed(c) \/ Unhandled(c) \/ StaleDocument(c) \/ LoadDoc(c)
  \/ PutUpload(c) \/ SubmitUpload(c)

Next ==
  \/ \E c \in Slots :
       ServerStep(c) \/ LookupFails(c) \/ Refuse(c) \/ ServerError(c) \/ Arrive(c) \/ Lose(c) \/ CutOff(c)
  \/ Tick \/ SetLocale \/ CheckStatus \/ Type \/ Scroll \/ SubmitStep \/ Reload

\* Calls are handled and answers arrive, the countdown runs, and the user fills
\* in what is shown and submits it.
Fairness ==
  /\ \A c \in Slots : WF_vars(ServerStep(c)) /\ WF_vars(Arrive(c))
  /\ WF_vars(Tick) /\ WF_vars(Type) /\ WF_vars(SubmitStep)

Spec == Init /\ [][Next]_vars /\ Fairness

----------------------------------------------------------------------------
(* Properties                                                              *)

(* The token, when there is one, is that of the id that is stored with it   *)
(* and of the session in memory, whatever order answers arrive in: no call  *)
(* has the id of one session and the token of another.                      *)
CredentialsBelongTogether ==
  /\ storedToken # Nil => storedId = storedToken /\ sid \in {storedToken, Nil}
  /\ \A c \in Slots : calls[c] # Nil /\ calls[c].token # Nil => calls[c].sid \in {calls[c].token, Nil}

(* A session the server has steps of is given up only after a reload, a     *)
(* failed lookup, or two creations at once: not because calls were lost,    *)
(* were late, or came in another order.                                     *)
ProgressIsKept ==
  [][storedToken # Nil /\ stored[storedToken] # {} /\ storedToken' # storedToken
       => happened \cap {"reload", "denied", "overlap"} # {}]_vars

(* What was typed is forgotten only when its session has the step, or when  *)
(* a submit of it gets no answer, loses the session, or was for another     *)
(* session (clearDraft is given the session in memory).                     *)
TypedInputIsKept ==
  [][\A d \in drafts \ drafts' :
       \/ d[1] \in SessionIds /\ d[2] \in stored[d[1]]
       \/ \E c \in Slots :
            /\ calls[c] # Nil /\ calls[c].page = d[2]
            /\ faults' > faults \/ calls[c].kind = "post" \/ calls[c].sid # d[1]]_vars

(* Without a reload, a failed lookup, a 429, a 500 or an answer cut off in  *)
(* its body, a user who answers what is shown gets to the end, however many *)
(* calls get no answer, a late one or a refusal and however creations       *)
(* overlap: an outage that is met before an answer begins leaves the page   *)
(* on no screen that it does not leave by itself.                           *)
RecoversByItself ==
  [](happened \subseteq {"overlap"}) => <>(view.screen = "complete")
=============================================================================
