--------------------------- MODULE WebClient_proofs ---------------------------
(***************************************************************************)
(* The page keeps its types, its id with its token, its session, and what  *)
(* was typed, for any flow, any number of calls in flight, and any number  *)
(* of faults and interrupts.                                               *)
(***************************************************************************)
EXTENDS WebClient, WellFoundedInduction, TLAPS

USE WebClientAssumption

Succeeded == {"ok", "maintenance"}

\* What the answer of a call says, by its kind: only POST /sessions names a
\* session, and a submit that succeeded is stored.
AnswerFits(r, e) ==
  /\ e \in Answers
  /\ r.kind # "post" => e.sess = Nil
  /\ r.kind = "post" /\ e.status \in Succeeded => e.sess # Nil
  /\ r.kind = "submit" /\ e.status \in Succeeded =>
       r.sid \in SessionIds /\ r.page \in stored[r.sid]

CallHolds(r) ==
  /\ r \in Requests
  /\ r.kind \in {"submit", "slot", "put"} => r.page \in Pages
  /\ r.kind \in {"get", "check"} => r.page = Nil
  /\ r.answer # Nil => AnswerFits(r, r.answer)

CallsInv == \A c \in Slots : calls[c] # Nil => CallHolds(calls[c])

TypeInv == TypeOK /\ CallsInv

----------------------------------------------------------------------------
(* Calls                                                                   *)

LEMMA Least ==
  ASSUME NEW T \in SUBSET Nat, T # {}
  PROVE  \E x \in T : \A y \in T : x <= y
<1> DEFINE R == {ss \in Nat \X Nat : ss[1] < ss[2]}
<1>1. IsWellFoundedOn(R, Nat)
  BY NatLessThanWellFounded DEF OpToRel
<1>2. \E x \in T : \A y \in T : ~ (<<y, x>> \in R)
  <2> HIDE DEF R
  <2> QED
    BY <1>1, WFMin, Zenon
<1>3. PICK x \in T : \A y \in T : ~ (<<y, x>> \in R)
  BY <1>2
<1>4. ASSUME NEW y \in T PROVE x <= y
  <2>1. x \in Nat /\ y \in Nat /\ ~ (<<y, x>> \in R)
    BY <1>3
  <2> QED
    BY <2>1
<1> QED
  BY <1>4

LEMMA NextStepIsPage ==
  ASSUME NEW has
  PROVE  NextStep(has) \in Pages \cup {Nil}
<1>1. CASE Pages \ has = {}
  BY <1>1 DEF NextStep
<1>2. CASE Pages \ has # {}
  <2>1. Pages \ has \in SUBSET Nat
    BY DEF Pages
  <2>2. \E p \in Pages \ has : \A q \in Pages \ has : p <= q
    BY <1>2, <2>1, Least
  <2> QED
    BY <1>2, <2>2 DEF NextStep
<1> QED
  BY <1>1, <1>2

\* A call that was just sent.
LEMMA RequestHolds ==
  ASSUME NEW kind \in {"post", "get", "check", "submit", "slot", "put", "legal"},
         NEW id \in Ids, NEW token \in Ids, NEW page \in Pages \cup {Nil}, NEW key \in Ids,
         NEW mine \in BOOLEAN,
         kind \in {"submit", "slot", "put"} => page \in Pages,
         kind \in {"get", "check"} => page = Nil
  PROVE  CallHolds(Request(kind, id, token, page, key, mine))
<1> DEFINE r == Request(kind, id, token, page, key, mine)
<1>1. r \in Requests
  BY DEF Request, Requests
<1>2. r.kind = kind /\ r.page = page /\ r.answer = Nil
  BY DEF Request
<1>3. CallHolds(r)
  <2> HIDE DEF r
  <2> QED
    BY <1>1, <1>2 DEF CallHolds
<1> QED
  BY <1>3

LEMMA BootHolds ==
  ASSUME NEW id \in Ids, NEW token \in Ids, NEW page \in Pages \cup {Nil}, NEW key \in Ids,
         id = Nil \/ token = Nil \/ page = Nil
  PROVE  /\ CallHolds(Boot(id, token, page, key))
         /\ Boot(id, token, page, key).kind \in {"get", "post"}
<1>1. Nil \in Ids /\ FALSE \in BOOLEAN
  BY DEF Ids
<1>2. CASE id # Nil /\ token # Nil
  <2>1. CallHolds(Request("get", id, token, page, key, FALSE))
    BY <1>1, <1>2, RequestHolds
  <2> QED
    BY <1>2, <2>1 DEF Boot, Request
<1>3. CASE ~(id # Nil /\ token # Nil)
  <2>1. CallHolds(Request("post", Nil, token, page, key, FALSE))
    BY <1>1, RequestHolds
  <2> QED
    BY <1>3, <2>1 DEF Boot, Request
<1> QED
  BY <1>2, <1>3

\* One call more, or one less.
LEMMA SendHolds ==
  ASSUME TypeInv, stored' = stored, NEW c, NEW r, r # Nil => CallHolds(r), Send(c, r)
  PROVE  calls' \in [Slots -> Requests \cup {Nil}] /\ CallsInv'
<1>1. calls' = [calls EXCEPT ![c] = r] /\ calls \in [Slots -> Requests \cup {Nil}]
  BY DEF Send, TypeInv, TypeOK
<1>2. r \in Requests \cup {Nil}
  BY DEF CallHolds
<1>3. calls' \in [Slots -> Requests \cup {Nil}]
  BY <1>1, <1>2
<1>4. ASSUME NEW d \in Slots, calls'[d] # Nil PROVE CallHolds(calls'[d])
  BY <1>1, <1>4 DEF TypeInv, CallsInv
<1> QED
  BY <1>3, <1>4 DEF CallsInv, CallHolds, AnswerFits

LEMMA ReplacedHolds ==
  ASSUME TypeInv
  PROVE  /\ Replaced \in [Slots -> Requests \cup {Nil}]
         /\ \A d \in Slots : Replaced[d] # Nil => CallHolds(Replaced[d])
<1> SUFFICES ASSUME NEW d \in Slots
             PROVE  /\ Replaced[d] \in Requests \cup {Nil}
                    /\ Replaced[d] # Nil => CallHolds(Replaced[d])
  BY DEF Replaced
<1>1. CASE calls[d] = Nil
  BY <1>1 DEF Replaced
<1>2. CASE calls[d] # Nil
  <2> DEFINE r == calls[d]
             s == [r EXCEPT !.mine = FALSE]
  <2>1. Replaced[d] = s
    BY <1>2 DEF Replaced
  <2>2. CallHolds(r)
    BY <1>2 DEF TypeInv, CallsInv
  <2>3. s \in Requests /\ s.kind = r.kind /\ s.page = r.page /\ s.sid = r.sid /\ s.answer = r.answer
    BY <2>2 DEF CallHolds, Requests
  <2> HIDE DEF r, s
  <2>4. CallHolds(s)
    BY <2>2, <2>3 DEF CallHolds, AnswerFits
  <2> QED
    BY <2>1, <2>3, <2>4
<1> QED
  BY <1>1, <1>2

\* A step is rendered anew.
LEMMA RenderHolds ==
  ASSUME TypeInv, stored' = stored, NEW c, NEW r, r # Nil => CallHolds(r),
         calls' = [Replaced EXCEPT ![c] = r]
  PROVE  calls' \in [Slots -> Requests \cup {Nil}] /\ CallsInv'
<1>1. r \in Requests \cup {Nil}
  BY DEF CallHolds
<1>2. calls' \in [Slots -> Requests \cup {Nil}]
  BY <1>1, ReplacedHolds
<1>3. ASSUME NEW d \in Slots, calls'[d] # Nil PROVE CallHolds(calls'[d])
  BY <1>3, ReplacedHolds
<1> QED
  BY <1>2, <1>3 DEF CallsInv, CallHolds, AnswerFits

\* The server answers, having stored what it stored.
LEMMA ReplyHolds ==
  ASSUME TypeInv, NEW c \in Slots, calls[c] # Nil, NEW e \in Answers,
         \A s \in SessionIds : stored[s] \subseteq stored'[s],
         calls[c].kind # "post" => e.sess = Nil,
         calls[c].kind = "post" /\ e.status \in Succeeded => e.sess # Nil,
         calls[c].kind = "submit" /\ e.status \in Succeeded =>
           calls[c].sid \in SessionIds /\ calls[c].page \in stored'[calls[c].sid],
         Reply(c, e)
  PROVE  calls' \in [Slots -> Requests \cup {Nil}] /\ CallsInv'
<1> DEFINE r == calls[c]
           s == [r EXCEPT !.answer = e]
<1>1. CallHolds(r)
  BY DEF TypeInv, CallsInv
<1>2. s \in Requests /\ s.kind = r.kind /\ s.page = r.page /\ s.sid = r.sid /\ s.answer = e
  BY <1>1 DEF CallHolds, Requests
<1>3. calls' = [calls EXCEPT ![c] = Nil] \/ calls' = [calls EXCEPT ![c] = s]
  BY DEF Reply
<1>4. calls \in [Slots -> Requests \cup {Nil}]
  BY DEF TypeInv, TypeOK
<1>5. calls' \in [Slots -> Requests \cup {Nil}]
  BY <1>2, <1>3, <1>4
<1> HIDE DEF s
<1>6. ASSUME NEW d \in Slots, calls'[d] # Nil PROVE CallHolds(calls[d])'
  <2>1. CASE calls'[d] = calls[d]
    <3>1. CallHolds(calls[d])
      BY <2>1, <1>6 DEF TypeInv, CallsInv
    <3> QED
      BY <3>1, <2>1 DEF CallHolds, AnswerFits
  <2>2. CASE calls'[d] = s
    BY <2>2, <1>1, <1>2 DEF CallHolds, AnswerFits
  <2> QED
    BY <1>3, <1>4, <1>6, <2>1, <2>2
<1> QED
  BY <1>5, <1>6 DEF CallsInv

LEMMA CallTypes ==
  ASSUME TypeInv, NEW c \in Slots, calls[c] # Nil
  PROVE  /\ CallHolds(calls[c])
         /\ calls[c].sid \in Ids /\ calls[c].token \in Ids /\ calls[c].key \in Ids
         /\ calls[c].page \in Pages \cup {Nil} /\ calls[c].mine \in BOOLEAN
         /\ calls[c].answer # Nil =>
              /\ calls[c].answer.sess \in Ids
              /\ calls[c].answer.next \in Pages \cup {Nil}
<1>1. CallHolds(calls[c])
  BY DEF TypeInv, CallsInv
<1>2. calls[c] \in Requests
  BY <1>1 DEF CallHolds
<1>3. calls[c].answer # Nil => calls[c].answer \in Answers
  BY <1>1 DEF CallHolds, AnswerFits
<1> QED
  BY <1>1, <1>2, <1>3 DEF Requests, Answers

LEMMA AnswerTypes ==
  ASSUME NEW status \in {"ok", "maintenance", "unauthorized", "refused", "failed"},
         NEW s \in Ids, NEW next \in Pages \cup {Nil}
  PROVE  /\ Answer(status, s, next) \in Answers
         /\ Answer(status, s, next).status = status
         /\ Answer(status, s, next).sess = s
BY DEF Answer, Answers

----------------------------------------------------------------------------
(* Types                                                                   *)

LEMMA TypeInit == Init => TypeInv
<1> SUFFICES ASSUME Init PROVE TypeInv
  OBVIOUS
<1> DEFINE first == CHOOSE d \in Slots : TRUE
<1>1. Nil \in Ids
  BY DEF Ids
<1>2. CallHolds(Boot(Nil, Nil, Nil, Nil))
  BY <1>1, BootHolds
<1>3. Boot(Nil, Nil, Nil, Nil) \in Requests
  BY <1>2 DEF CallHolds
<1>4. calls = [c \in Slots |-> IF c = first THEN Boot(Nil, Nil, Nil, Nil) ELSE Nil]
  BY DEF Init
<1> HIDE DEF first
<1>5. calls \in [Slots -> Requests \cup {Nil}] /\ CallsInv
  BY <1>2, <1>3, <1>4 DEF CallsInv
<1>6. view \in [screen : {"loading", "fatal", "complete"}, page : {Nil}, key : {Nil}]
  BY DEF Init, Screen
<1>7. TypeOK
  <2>1. created \in 0..MaxSessions /\ faults \in 0..MaxTroubles /\ interrupts \in 0..MaxTroubles
    BY DEF Init
  <2>2. stored \in [SessionIds -> SUBSET Pages] /\ drafts \subseteq Ids \X Pages
    BY DEF Init
  <2>3. typed \in BOOLEAN /\ maintenance \in BOOLEAN /\ timer \in BOOLEAN
    BY Zenon DEF Init
  <2>4. /\ storedId \in Ids /\ storedToken \in Ids /\ sid \in Ids /\ button = "absent"
        /\ happened \subseteq {"reload", "denied", "overlap", "failure"}
    BY <1>1 DEF Init
  <2> QED
    BY <1>5, <1>6, <2>1, <2>2, <2>3, <2>4 DEF TypeOK
<1> QED
  BY <1>5, <1>7 DEF TypeInv

\* The server's steps change the calls, and what it stores.
LEMMA ServerTypes ==
  ASSUME TypeInv, NEW c \in Slots,
         \/ ServerStep(c) \/ LookupFails(c) \/ Refuse(c) \/ ServerError(c) \/ CutOff(c)
  PROVE  TypeInv'
<1> USE DEF TypeInv
<1>1. Nil \in Ids /\ Nil \in Pages \cup {Nil}
  BY DEF Ids
<1>2. UNCHANGED <<storageVars, sid, screenVars>> /\ calls[c] # Nil
  BY DEF ServerStep, CreateSession, GetSession, StoreStep, Provide, Unauthorized,
         LookupFails, Refuse, ServerError, CutOff, Reached
<1>3. /\ interrupts' = interrupts
      /\ happened' \in {happened, happened \cup {"denied"}, happened \cup {"failure"}}
      /\ faults' = faults \/ (faults + interrupts < MaxTroubles /\ faults' = faults + 1)
  BY DEF ServerStep, CreateSession, GetSession, StoreStep, Provide, Unauthorized,
         LookupFails, Refuse, ServerError, CutOff, Success, Fault, historyVars
<1>4. faults' \in 0..MaxTroubles /\ interrupts' \in 0..MaxTroubles
      /\ happened' \subseteq {"reload", "denied", "overlap", "failure"}
  BY <1>3 DEF TypeOK
<1> DEFINE Handled ==
      /\ created' \in 0..MaxSessions
      /\ stored' \in [SessionIds -> SUBSET Pages]
      /\ calls' \in [Slots -> Requests \cup {Nil}] /\ CallsInv'
<1>5. Handled
  <2>1. ASSUME NEW status \in Succeeded, CreateSession(c, status) PROVE Handled
    <3> DEFINE s == IF calls[c].token = Nil THEN created' ELSE calls[c].token
               e == Answer(status, s, NextStep(stored[s]))
    <3>1. created' \in 0..MaxSessions /\ stored' = stored /\ calls[c].kind = "post" /\ Reply(c, e)
      BY <2>1 DEF CreateSession, TypeOK, Reached
    <3>2. s \in SessionIds
      BY <2>1, <1>2, CallTypes DEF CreateSession, SessionIds, Ids, TypeOK
    <3> HIDE DEF s
    <3>3. e \in Answers /\ e.sess # Nil
      BY <3>2, NextStepIsPage, AnswerTypes DEF Succeeded, Ids
    <3> HIDE DEF e
    <3> QED
      BY <3>1, <3>3, <1>2, ReplyHolds DEF TypeOK
  <2>2. ASSUME NEW status \in Succeeded, GetSession(c, status) PROVE Handled
    <3> DEFINE e == Answer(status, Nil, NextStep(stored[calls[c].sid]))
    <3>1. created' = created /\ stored' = stored /\ calls[c].kind \in {"get", "check"} /\ Reply(c, e)
      BY <2>2 DEF GetSession, Reached, serverVars
    <3>2. e \in Answers /\ e.sess = Nil
      BY <1>1, NextStepIsPage, AnswerTypes DEF Succeeded
    <3> HIDE DEF e
    <3> QED
      BY <3>1, <3>2, <1>2, ReplyHolds DEF TypeOK
  <2>3. ASSUME NEW status \in Succeeded, StoreStep(c, status) PROVE Handled
    <3> DEFINE e == Answer(status, Nil, NextStep(stored'[calls[c].sid]))
    <3>1. /\ created' = created /\ calls[c].kind = "submit" /\ Reply(c, e)
          /\ stored' = [stored EXCEPT ![calls[c].sid] = @ \cup {calls[c].page}]
      BY <2>3 DEF StoreStep, Reached
    <3>2. e \in Answers /\ e.sess = Nil
      BY <1>1, NextStepIsPage, AnswerTypes DEF Succeeded
    <3> HIDE DEF e
    <3>3. calls[c].sid \in SessionIds /\ calls[c].page \in Pages
      BY <2>3, <1>2, <3>1, CallTypes DEF StoreStep, Authorized, Ids, CallHolds
    <3>4. stored' \in [SessionIds -> SUBSET Pages]
          /\ calls[c].page \in stored'[calls[c].sid]
          /\ \A s \in SessionIds : stored[s] \subseteq stored'[s]
      BY <3>1, <3>3 DEF TypeOK
    <3> QED
      BY <3>1, <3>2, <3>3, <3>4, <1>2, ReplyHolds DEF TypeOK
  <2>4. ASSUME Provide(c) PROVE Handled
    <3> DEFINE e == Answer("ok", Nil, Nil)
    <3>1. created' = created /\ stored' = stored /\ calls[c].kind \in {"slot", "put", "legal"} /\ Reply(c, e)
      BY <2>4 DEF Provide, Reached, serverVars
    <3>2. e \in Answers /\ e.sess = Nil
      BY <1>1, AnswerTypes
    <3> HIDE DEF e
    <3> QED
      BY <3>1, <3>2, <1>2, ReplyHolds DEF TypeOK
  <2>5. ASSUME Unauthorized(c) \/ LookupFails(c) \/ Refuse(c) \/ ServerError(c) \/ CutOff(c) PROVE Handled
    <3>1. PICK status \in {"unauthorized", "refused", "failed"} :
            created' = created /\ stored' = stored /\ Reply(c, Answer(status, Nil, Nil))
      BY <2>5 DEF Unauthorized, LookupFails, Refuse, ServerError, CutOff, serverVars
    <3> DEFINE e == Answer(status, Nil, Nil)
    <3>2. e \in Answers /\ e.sess = Nil /\ e.status \notin Succeeded
      BY <1>1, AnswerTypes DEF Succeeded
    <3>3. Reply(c, e)
      BY <3>1
    <3>4. calls[c].kind = "post" => e.status \notin Succeeded
      BY <3>2
    <3> HIDE DEF e
    <3> QED
      BY <3>1, <3>2, <3>3, <1>2, ReplyHolds DEF TypeOK
  <2> QED
    BY <2>1, <2>2, <2>3, <2>4, <2>5 DEF ServerStep, Succeeded
<1> QED
  BY <1>2, <1>4, <1>5 DEF TypeOK, storageVars, screenVars

\* The page's screen, whatever is rendered.
LEMMA ScreenTypes ==
  ASSUME NEW next \in Pages \cup {Nil}, NEW key \in Ids
  PROVE  (IF next = Nil THEN Screen("complete") ELSE [screen |-> "step", page |-> next, key |-> key])
         \in [screen : {"loading", "fatal", "complete"}, page : {Nil}, key : {Nil}]
             \cup [screen : {"step"}, page : Pages, key : Ids]
BY DEF Screen

\* A fresh boot, and what it says of overlaps.
LEMMA OverlapTypes ==
  ASSUME TypeInv, NEW request, happened' = happened \cup Overlap(request)
  PROVE  happened' \subseteq {"reload", "denied", "overlap", "failure"}
BY DEF TypeInv, TypeOK, Overlap

LEMMA FaultTypes ==
  ASSUME TypeInv
  PROVE  /\ Fault => faults' \in 0..MaxTroubles
         /\ Interrupt => interrupts' \in 0..MaxTroubles
BY DEF Fault, Interrupt, TypeInv, TypeOK

LEMMA HandleEnvelopeTypes ==
  ASSUME TypeInv, NEW c \in Slots, HandleEnvelope(c)
  PROVE  TypeInv'
<1> DEFINE e == calls[c].answer
           left == DraftCleared(c) \ IF calls[c].kind = "submit" THEN {<<sid, calls[c].page>>} ELSE {}
<1>1. calls[c] # Nil /\ e # Nil /\ e.sess \in Ids /\ e.next \in Pages \cup {Nil}
  BY CallTypes DEF HandleEnvelope, Answered
<1>2. TakeSession(e.sess) /\ drafts' = left /\ UNCHANGED <<serverVars, historyVars>>
  BY DEF HandleEnvelope
<1>3. sid' \in Ids /\ storedToken' \in Ids /\ storedId' \in Ids
  BY <1>1, <1>2 DEF TakeSession, TypeInv, TypeOK
<1>4. drafts' \subseteq Ids \X Pages
  BY <1>2 DEF DraftCleared, TypeInv, TypeOK
<1>5. stored' = stored
  BY <1>2 DEF serverVars
<1>6. CASE e.status = "maintenance"
  <2>1. ShowMaintenance /\ button' = Released(c) /\ Send(c, Nil) /\ UNCHANGED <<view, typed>>
    BY <1>6 DEF HandleEnvelope
  <2>2. calls' \in [Slots -> Requests \cup {Nil}] /\ CallsInv'
    BY <2>1, <1>5, SendHolds
  <2> QED
    BY <1>2, <1>3, <1>4, <2>1, <2>2
       DEF TypeInv, TypeOK, ShowMaintenance, Released, serverVars, historyVars
<1>7. CASE e.status # "maintenance"
  <2>1. HideMaintenance /\ DispatchStep(c, e.next, sid', left)
    BY <1>7 DEF HandleEnvelope
  <2>2. view' \in [screen : {"loading", "fatal", "complete"}, page : {Nil}, key : {Nil}]
                  \cup [screen : {"step"}, page : Pages, key : Ids]
    BY <2>1, <1>1, <1>3, ScreenTypes DEF DispatchStep
  <2>3. CallHolds(Request("legal", Nil, Nil, Nil, Nil, TRUE))
    <3>1. Nil \in Ids /\ Nil \in Pages \cup {Nil} /\ TRUE \in BOOLEAN
      BY DEF Ids
    <3> QED
      BY <3>1, RequestHolds
  <2>4. \E r : calls' = [Replaced EXCEPT ![c] = r] /\ (r # Nil => CallHolds(r))
    BY <2>1, <2>3 DEF DispatchStep
  <2>5. calls' \in [Slots -> Requests \cup {Nil}] /\ CallsInv'
    BY <2>4, <1>5, RenderHolds
  <2>6. typed' \in BOOLEAN /\ maintenance' \in BOOLEAN /\ timer' \in BOOLEAN
    <3>1. typed' = (<<sid', e.next>> \in left)
      BY <2>1 DEF DispatchStep
    <3>2. typed' \in BOOLEAN
      <4> DEFINE kept == <<sid', e.next>> \in left
      <4>1. kept \in BOOLEAN
        OBVIOUS
      <4> HIDE DEF kept
      <4>2. typed' = kept
        BY <3>1 DEF kept
      <4> QED
        BY <4>1, <4>2, Zenon
    <3>3. maintenance' = FALSE /\ timer' = FALSE
      BY <2>1 DEF HideMaintenance
    <3> QED
      BY <3>2, <3>3
  <2>7. button' \in {"ready", "loading", "absent"}
    BY <2>1 DEF DispatchStep
  <2> QED
    BY <1>2, <1>3, <1>4, <2>2, <2>5, <2>6, <2>7 DEF TypeInv, TypeOK, serverVars, historyVars
<1> QED
  BY <1>6, <1>7

\* A boot in the slot of a call that was answered.
LEMMA StartFreshTypes ==
  ASSUME TypeInv, NEW c \in Slots, calls[c] # Nil, StartFresh(c), stored' = stored
  PROVE  /\ calls' \in [Slots -> Requests \cup {Nil}] /\ CallsInv'
         /\ happened' \subseteq {"reload", "denied", "overlap", "failure"}
<1> DEFINE page == calls[c].page
           key == calls[c].key
           request == [Boot(Nil, Nil, page, key) EXCEPT !.mine = calls[c].mine]
<1>1. Nil \in Ids /\ page \in Pages \cup {Nil} /\ key \in Ids /\ calls[c].mine \in BOOLEAN
  BY CallTypes DEF Ids
<1>2. request = Request("post", Nil, Nil, page, key, calls[c].mine)
  BY DEF Boot, Request
<1>3. CallHolds(Request("post", Nil, Nil, page, key, calls[c].mine))
  BY <1>1, RequestHolds
<1>4. CallHolds(request) /\ Send(c, request) /\ happened' = happened \cup Overlap(request)
  BY <1>2, <1>3 DEF StartFresh
<1> HIDE DEF request
<1> QED
  BY <1>4, SendHolds, OverlapTypes

LEMMA FreshTypes ==
  ASSUME TypeInv, NEW c \in Slots, ResumeExpired(c) \/ HandleAuthExpired(c)
  PROVE  TypeInv'
<1>1. calls[c] # Nil /\ StartFresh(c) /\ stored' = stored
  BY DEF ResumeExpired, HandleAuthExpired, Answered, serverVars
<1>2. /\ calls' \in [Slots -> Requests \cup {Nil}] /\ CallsInv'
      /\ happened' \subseteq {"reload", "denied", "overlap", "failure"}
  BY <1>1, StartFreshTypes
<1>3. storedId' = Nil /\ storedToken' = Nil /\ sid' \in {sid, Nil}
  BY DEF ResumeExpired, HandleAuthExpired, ClearSession
<1>4. UNCHANGED <<drafts, screenVars, serverVars, faults, interrupts>>
  BY DEF ResumeExpired, HandleAuthExpired
<1> QED
  BY <1>2, <1>3, <1>4 DEF TypeInv, TypeOK, Ids, screenVars, serverVars

LEMMA OtherAnswerTypes ==
  ASSUME TypeInv, NEW c \in Slots,
         CheckExpired(c) \/ Unhandled(c) \/ LoadDoc(c) \/ Lose(c)
  PROVE  TypeInv'
<1>1. calls[c] # Nil
  BY DEF CheckExpired, Unhandled, LoadDoc, Lose, Answered
<1>2. PICK r : Send(c, r) /\ (r # Nil => CallHolds(r))
  <2>1. CASE Send(c, Nil)
    BY <2>1
  <2>2. CASE Send(c, [calls[c] EXCEPT !.sent = "gone", !.mine = FALSE]) /\ calls[c].answer = Nil
    <3> DEFINE r == calls[c]
               s == [r EXCEPT !.sent = "gone", !.mine = FALSE]
    <3>1. CallHolds(r)
      BY <1>1, CallTypes
    <3>2. s \in Requests /\ s.kind = r.kind /\ s.page = r.page /\ s.answer = Nil
      BY <3>1, <2>2 DEF CallHolds, Requests
    <3>3. Send(c, s)
      BY <2>2
    <3> HIDE DEF s
    <3> QED
      BY <3>1, <3>2, <3>3 DEF CallHolds
  <2> QED
    BY <2>1, <2>2 DEF CheckExpired, Unhandled, LoadDoc, Lose
<1>3. stored' = stored /\ created' = created /\ happened' = happened /\ interrupts' = interrupts
      /\ (faults' = faults \/ Fault)
  BY DEF CheckExpired, Unhandled, LoadDoc, Lose, serverVars, historyVars
<1>4. calls' \in [Slots -> Requests \cup {Nil}] /\ CallsInv'
  BY <1>2, <1>3, SendHolds
<1>5. faults' \in 0..MaxTroubles
  BY <1>3, FaultTypes DEF TypeInv, TypeOK
<1>6. button' \in {"ready", button} /\ UNCHANGED <<sid, view, typed>>
  BY DEF CheckExpired, Unhandled, LoadDoc, Lose, Released, screenVars
<1>7. maintenance' \in {maintenance, TRUE} /\ timer' \in {timer, TRUE}
  BY DEF CheckExpired, Unhandled, LoadDoc, Lose, ShowMaintenance, screenVars
<1>8. drafts' \subseteq drafts /\ storedId' \in {storedId, Nil} /\ storedToken' \in {storedToken, Nil}
  BY DEF CheckExpired, Unhandled, LoadDoc, Lose, DraftCleared, ClearSession, storageVars
<1>9. storedId' \in Ids /\ storedToken' \in Ids /\ drafts' \subseteq Ids \X Pages
  BY <1>8 DEF TypeInv, TypeOK, Ids
<1>10. button' \in {"ready", "loading", "absent"} /\ maintenance' \in BOOLEAN /\ timer' \in BOOLEAN
  BY <1>6, <1>7 DEF TypeInv, TypeOK
<1>11. /\ UNCHANGED <<sid, view, typed>>
       /\ stored' = stored /\ created' = created /\ happened' = happened /\ interrupts' = interrupts
  BY <1>3, <1>6
<1> QED
  BY <1>4, <1>5, <1>9, <1>10, <1>11 DEF TypeInv, TypeOK

LEMMA BootFailedTypes ==
  ASSUME TypeInv, NEW c \in Slots, BootFailed(c)
  PROVE  TypeInv'
<1>1. calls' = [Replaced EXCEPT ![c] = Nil] /\ stored' = stored
  BY DEF BootFailed, serverVars
<1>2. calls' \in [Slots -> Requests \cup {Nil}] /\ CallsInv'
  BY <1>1, RenderHolds
<1>3. view' \in [screen : {"loading", "fatal", "complete"}, page : {Nil}, key : {Nil}]
  BY DEF BootFailed, Screen
<1>4. drafts' \subseteq drafts
  BY DEF BootFailed, DraftCleared
<1>5. typed' = FALSE /\ button' = "absent"
      /\ UNCHANGED <<storedId, storedToken, sid, maintenance, timer, serverVars, historyVars>>
  BY DEF BootFailed
<1> QED
  BY <1>2, <1>3, <1>4, <1>5 DEF TypeInv, TypeOK, serverVars, historyVars

\* The calls that follow one another in a slot.
LEMMA FollowingTypes ==
  ASSUME TypeInv, NEW c \in Slots, StaleDocument(c) \/ PutUpload(c) \/ SubmitUpload(c)
  PROVE  TypeInv'
<1> DEFINE r == calls[c]
<1>1. r # Nil /\ CallHolds(r) /\ r \in Requests
  BY CallTypes DEF StaleDocument, PutUpload, SubmitUpload, Answered, CallHolds
<1>2. PICK s : Send(c, s) /\ CallHolds(s)
  <2>1. CASE StaleDocument(c)
    <3>1. Nil \in Ids /\ Nil \in Pages \cup {Nil} /\ calls[c].mine \in BOOLEAN
      BY <1>1, CallTypes DEF Ids
    <3>2. CallHolds(Request("legal", Nil, Nil, Nil, Nil, calls[c].mine))
      BY <3>1, RequestHolds
    <3> QED
      BY <2>1, <3>2 DEF StaleDocument
  <2>2. CASE PutUpload(c)
    <3> DEFINE s == [r EXCEPT !.kind = "put", !.answer = Nil]
    <3>1. s \in Requests /\ s.kind = "put" /\ s.page = r.page /\ s.answer = Nil
      BY <1>1 DEF Requests
    <3>2. r.page \in Pages
      BY <2>2, <1>1 DEF PutUpload, Answered, CallHolds
    <3>3. Send(c, s)
      BY <2>2 DEF PutUpload
    <3> HIDE DEF s
    <3> QED
      BY <3>1, <3>2, <3>3 DEF CallHolds
  <2>3. CASE SubmitUpload(c)
    <3> DEFINE s == [r EXCEPT !.kind = "submit", !.sid = sid, !.token = storedToken, !.answer = Nil]
    <3>1. s \in Requests /\ s.kind = "submit" /\ s.page = r.page /\ s.answer = Nil
      BY <1>1 DEF Requests, TypeInv, TypeOK
    <3>2. r.page \in Pages
      BY <2>3, <1>1 DEF SubmitUpload, Answered, CallHolds
    <3>3. Send(c, s)
      BY <2>3 DEF SubmitUpload
    <3> HIDE DEF s
    <3> QED
      BY <3>1, <3>2, <3>3 DEF CallHolds
  <2> QED
    BY <2>1, <2>2, <2>3
<1>3. UNCHANGED <<storageVars, sid, screenVars, serverVars, historyVars>>
  BY DEF StaleDocument, PutUpload, SubmitUpload
<1>4. calls' \in [Slots -> Requests \cup {Nil}] /\ CallsInv'
  BY <1>2, <1>3, SendHolds DEF serverVars
<1> QED
  BY <1>3, <1>4 DEF TypeInv, TypeOK, storageVars, screenVars, serverVars, historyVars

\* The page or the user sends a call.
LEMMA SendingTypes ==
  ASSUME TypeInv, Tick \/ SetLocale \/ CheckStatus \/ SubmitStep
  PROVE  TypeInv'
<1>1. Nil \in Ids /\ Nil \in Pages \cup {Nil} /\ TRUE \in BOOLEAN /\ FALSE \in BOOLEAN
      /\ sid \in Ids /\ storedId \in Ids /\ storedToken \in Ids
  BY DEF Ids, TypeInv, TypeOK
<1>2. PICK r : Send(Slot, r) /\ CallHolds(r)
  <2>1. CASE Tick \/ SetLocale
    <3>1. Send(Slot, Boot(storedId, storedToken, Nil, Nil))
      BY <2>1 DEF Tick, SetLocale, BootNow
    <3>2. CallHolds(Boot(storedId, storedToken, Nil, Nil))
      BY <1>1, BootHolds
    <3> QED
      BY <3>1, <3>2
  <2>2. CASE CheckStatus
    <3>1. CallHolds(Request("check", storedId, storedToken, Nil, Nil, FALSE))
      BY <1>1, RequestHolds
    <3> QED
      BY <2>2, <3>1 DEF CheckStatus
  <2>3. CASE SubmitStep
    <3>1. view.screen = "step"
      BY <2>3 DEF SubmitStep, Shown, StepType
    <3>2. view.page \in Pages /\ view.key \in Ids
      BY <3>1 DEF TypeInv, TypeOK
    <3>3. CallHolds(Request("slot", view.key, storedToken, view.page, view.key, TRUE))
      BY <1>1, <3>2, RequestHolds
    <3>4. CallHolds(Request("submit", sid, storedToken, view.page, view.key, TRUE))
      BY <1>1, <3>2, RequestHolds
    <3> QED
      BY <2>3, <3>3, <3>4 DEF SubmitStep
  <2> QED
    BY <2>1, <2>2, <2>3
<1>3. stored' = stored /\ created' = created /\ faults' = faults
      /\ UNCHANGED <<storageVars, sid, view, typed, maintenance>>
  BY DEF Tick, SetLocale, CheckStatus, SubmitStep, screenVars, serverVars, historyVars
<1>4. calls' \in [Slots -> Requests \cup {Nil}] /\ CallsInv'
  BY <1>2, <1>3, SendHolds
<1>5. interrupts' = interrupts \/ Interrupt
  BY DEF Tick, SetLocale, CheckStatus, SubmitStep, historyVars
<1>6. interrupts' \in 0..MaxTroubles
  BY <1>5, FaultTypes DEF TypeInv, TypeOK
<1>7. happened' = happened \/ \E q : happened' = happened \cup Overlap(q)
  BY DEF Tick, SetLocale, CheckStatus, SubmitStep, BootNow, historyVars
<1>8. happened' \subseteq {"reload", "denied", "overlap", "failure"}
  BY <1>7, OverlapTypes DEF TypeInv, TypeOK
<1>9. button' \in {"loading", button} /\ timer' \in {FALSE, timer}
  BY DEF Tick, SetLocale, CheckStatus, SubmitStep, screenVars
<1> QED
  BY <1>3, <1>4, <1>6, <1>8, <1>9 DEF TypeInv, TypeOK, storageVars

LEMMA UserTypes ==
  ASSUME TypeInv, Type \/ Scroll
  PROVE  TypeInv'
<1>1. CallsInv'
  BY DEF Type, Scroll, serverVars, TypeInv, CallsInv, CallHolds, AnswerFits
<1>2. CASE Type
  <2>1. view.screen = "step"
    BY <1>2 DEF Type, Shown, StepType
  <2>2. view.page \in Pages /\ view.key \in Ids
    BY <2>1 DEF TypeInv, TypeOK
  <2>3. drafts' \subseteq Ids \X Pages
    BY <1>2, <2>2 DEF Type, TypeInv, TypeOK
  <2> QED
    BY <1>1, <1>2, <2>3 DEF Type, TypeInv, TypeOK, serverVars, historyVars
<1>3. CASE Scroll
  BY <1>1, <1>3 DEF Scroll, TypeInv, TypeOK, storageVars, serverVars, historyVars
<1> QED
  BY <1>2, <1>3

LEMMA ReloadTypes == TypeInv /\ Reload => TypeInv'
<1> SUFFICES ASSUME TypeInv, Reload PROVE TypeInv'
  OBVIOUS
<1>1. Nil \in Ids /\ Nil \in Pages \cup {Nil} /\ storedId \in Ids /\ storedToken \in Ids
  BY DEF Ids, TypeInv, TypeOK
<1> DEFINE boot == Boot(storedId, storedToken, Nil, Nil)
           gone(d) == [calls[d] EXCEPT !.sent = "gone", !.mine = FALSE]
<1>2. CallHolds(boot) /\ boot \in Requests
  BY <1>1, BootHolds DEF CallHolds
<1>3. ASSUME NEW d \in Slots, calls[d] # Nil, calls[d].answer = Nil
      PROVE  CallHolds(gone(d)) /\ gone(d) \in Requests
  <2>1. CallHolds(calls[d])
    BY <1>3, CallTypes
  <2>2. gone(d) \in Requests /\ gone(d).kind = calls[d].kind /\ gone(d).page = calls[d].page
        /\ gone(d).answer = Nil
    BY <2>1, <1>3 DEF CallHolds, Requests
  <2> HIDE DEF gone
  <2> QED
    BY <2>1, <2>2 DEF CallHolds
<1>4. PICK slot \in Slots :
        \E lost \in SUBSET {c \in Slots \ {slot} : calls[c] # Nil /\ calls[c].answer = Nil} :
          calls' = [c \in Slots |-> IF c = slot THEN boot
                                    ELSE IF c \in lost THEN gone(c) ELSE Nil]
  BY DEF Reload
<1> HIDE DEF boot, gone
<1>5. calls' \in [Slots -> Requests \cup {Nil}]
  BY <1>2, <1>3, <1>4
<1>6. stored' = stored /\ UNCHANGED <<storageVars, serverVars, faults>>
  BY DEF Reload, serverVars
<1>7. ASSUME NEW d \in Slots, calls'[d] # Nil PROVE CallHolds(calls'[d])
  BY <1>2, <1>3, <1>4, <1>7
<1>8. CallsInv'
  BY <1>6, <1>7 DEF CallsInv, CallHolds, AnswerFits
<1>9. interrupts' \in 0..MaxTroubles /\ happened' \subseteq {"reload", "denied", "overlap", "failure"}
  BY FaultTypes DEF Reload, TypeInv, TypeOK
<1>10. view' \in [screen : {"loading", "fatal", "complete"}, page : {Nil}, key : {Nil}]
  BY DEF Reload, Screen
<1>11. sid' = Nil /\ button' = "absent" /\ typed' = FALSE /\ maintenance' = FALSE /\ timer' = FALSE
  BY DEF Reload
<1> QED
  BY <1>1, <1>5, <1>6, <1>8, <1>9, <1>10, <1>11 DEF TypeInv, TypeOK, storageVars, serverVars

\* A page's or a user's step, by the form of its argument.
LEMMA NextCases ==
  ASSUME [Next]_vars
  PROVE  \/ \E c \in Slots : ServerStep(c) \/ LookupFails(c) \/ Refuse(c) \/ ServerError(c) \/ CutOff(c)
         \/ \E c \in Slots : HandleEnvelope(c)
         \/ \E c \in Slots : ResumeExpired(c) \/ HandleAuthExpired(c)
         \/ \E c \in Slots : CheckExpired(c) \/ Unhandled(c) \/ LoadDoc(c) \/ Lose(c)
         \/ \E c \in Slots : BootFailed(c)
         \/ \E c \in Slots : StaleDocument(c) \/ PutUpload(c) \/ SubmitUpload(c)
         \/ Tick \/ SetLocale \/ CheckStatus \/ SubmitStep
         \/ Type \/ Scroll
         \/ Reload
         \/ UNCHANGED vars
BY DEF Next, Arrive

LEMMA TypeInvHolds == Spec => []TypeInv
<1>1. TypeInv /\ [Next]_vars => TypeInv'
  <2> SUFFICES ASSUME TypeInv, [Next]_vars PROVE TypeInv'
    OBVIOUS
  <2>1. CASE UNCHANGED vars
    BY <2>1 DEF vars, storageVars, screenVars, serverVars, historyVars,
                TypeInv, TypeOK, CallsInv, CallHolds, AnswerFits
  <2> QED
    BY <2>1, NextCases, ServerTypes, HandleEnvelopeTypes, FreshTypes, OtherAnswerTypes, BootFailedTypes,
       FollowingTypes, SendingTypes, UserTypes, ReloadTypes
<1> QED
  BY <1>1, TypeInit, PTL DEF Spec

(* Every variable of the page, its calls and its server keeps its type, in  *)
(* whatever order answers arrive.                                           *)
THEOREM TypeCorrect == Spec => []TypeOK
<1>1. TypeInv => TypeOK
  BY DEF TypeInv
<1> QED
  BY <1>1, TypeInvHolds, PTL

----------------------------------------------------------------------------
(* Credentials                                                             *)

\* A step that can be submitted was rendered for the session of the token.
RenderedInv ==
  storedToken # Nil /\ ~maintenance /\ view.screen = "step" => view.key \in {storedToken, Nil}

StorageInv == storedToken # Nil => storedId = storedToken /\ sid \in {storedToken, Nil}

\* The call r has no id of one session and token of another.
Matching(r) == r # Nil /\ r.token # Nil => r.sid \in {r.token, Nil}

CallsMatch == \A d \in Slots : Matching(calls[d])

CredentialsInv == StorageInv /\ CallsMatch /\ RenderedInv

\* Every call in flight matches, whether steps are rendered anew or not.
LEMMA MatchingCalls ==
  ASSUME TypeInv, CredentialsInv, NEW c, NEW r, Matching(r),
         calls' = [calls EXCEPT ![c] = r] \/ calls' = [Replaced EXCEPT ![c] = r]
  PROVE  CallsMatch'
<1> SUFFICES ASSUME NEW d \in Slots PROVE Matching(calls'[d])
  BY DEF CallsMatch, Matching
<1>1. calls \in [Slots -> Requests \cup {Nil}]
  BY DEF TypeInv, TypeOK
<1>2. Matching(calls[d])
  BY DEF CredentialsInv, CallsMatch
<1>3. Matching(Replaced[d])
  <2>1. CASE calls[d] = Nil
    BY <2>1 DEF Replaced, Matching
  <2>2. CASE calls[d] # Nil
    <3> DEFINE r1 == calls[d]
               s1 == [r1 EXCEPT !.mine = FALSE]
    <3>1. r1 \in Requests
      BY <1>1, <2>2
    <3>2. s1.sid = r1.sid /\ s1.token = r1.token
      BY <3>1 DEF Requests
    <3>3. Replaced[d] = s1
      BY <2>2 DEF Replaced
    <3> HIDE DEF s1
    <3> QED
      BY <1>2, <2>2, <3>2, <3>3 DEF Matching
  <2> QED
    BY <2>1, <2>2
<1>4. Replaced \in [Slots -> Requests \cup {Nil}]
  BY ReplacedHolds
<1> QED
  BY <1>1, <1>2, <1>3, <1>4

LEMMA BootMatches ==
  ASSUME NEW id, NEW token, NEW page, NEW key, token # Nil => id = token
  PROVE  Matching(Boot(id, token, page, key))
BY DEF Matching, Boot, Request

\* A call with the credentials of another one.
LEMMA SameCredentialsMatch ==
  ASSUME NEW r, NEW s, Matching(r), r # Nil, s.sid = r.sid, s.token = r.token
  PROVE  Matching(s)
BY DEF Matching

LEMMA ServerCredentials ==
  ASSUME TypeInv, CredentialsInv, NEW c \in Slots,
         ServerStep(c) \/ LookupFails(c) \/ Refuse(c) \/ ServerError(c) \/ CutOff(c)
  PROVE  CredentialsInv'
<1>1. UNCHANGED <<storageVars, sid, screenVars>> /\ \E e : Reply(c, e)
  BY DEF ServerStep, CreateSession, GetSession, StoreStep, Provide, Unauthorized,
         LookupFails, Refuse, ServerError, CutOff
<1>2. PICK e : Reply(c, e)
  BY <1>1
<1>3. calls[c] # Nil
  BY DEF ServerStep, CreateSession, GetSession, StoreStep, Provide, Unauthorized,
         LookupFails, Refuse, ServerError, CutOff, Reached
<1> DEFINE r == calls[c]
           s == [r EXCEPT !.answer = e]
<1>4. s.sid = r.sid /\ s.token = r.token
  BY <1>3 DEF Requests, TypeInv, TypeOK
<1>5. calls' = [calls EXCEPT ![c] = Nil] \/ calls' = [calls EXCEPT ![c] = s]
  BY <1>2 DEF Reply
<1> HIDE DEF s
<1>6. Matching(s) /\ Matching(Nil)
  BY <1>3, <1>4, SameCredentialsMatch DEF CredentialsInv, CallsMatch, Matching
<1>7. CallsMatch'
  BY <1>5, <1>6, MatchingCalls
<1> QED
  BY <1>1, <1>7 DEF CredentialsInv, StorageInv, RenderedInv, storageVars, screenVars

LEMMA HandleEnvelopeCredentials ==
  ASSUME TypeInv, CredentialsInv, NEW c \in Slots, HandleEnvelope(c)
  PROVE  CredentialsInv'
<1> DEFINE e == calls[c].answer
           left == DraftCleared(c) \ IF calls[c].kind = "submit" THEN {<<sid, calls[c].page>>} ELSE {}
<1>1. TakeSession(e.sess)
  BY DEF HandleEnvelope
<1>2. StorageInv'
  BY <1>1 DEF TakeSession, CredentialsInv, StorageInv
<1>3. CASE e.status = "maintenance"
  <2>1. ShowMaintenance /\ Send(c, Nil)
    BY <1>3 DEF HandleEnvelope
  <2>2. CallsMatch'
    BY <2>1, MatchingCalls DEF Send, Matching
  <2> QED
    BY <1>2, <2>1, <2>2 DEF CredentialsInv, RenderedInv, ShowMaintenance
<1>4. CASE e.status # "maintenance"
  <2>1. DispatchStep(c, e.next, sid', left)
    BY <1>4 DEF HandleEnvelope
  <2>2. view'.key \in {sid', Nil}
    BY <2>1 DEF DispatchStep, Screen
  <2>3. PICK r : calls' = [Replaced EXCEPT ![c] = r] /\ r \in {Nil, Request("legal", Nil, Nil, Nil, Nil, TRUE)}
    BY <2>1 DEF DispatchStep
  <2>4. Matching(r)
    BY <2>3 DEF Matching, Request
  <2>5. CallsMatch'
    BY <2>3, <2>4, MatchingCalls
  <2> QED
    BY <1>2, <2>2, <2>5 DEF CredentialsInv, RenderedInv, StorageInv
<1> QED
  BY <1>3, <1>4

LEMMA FreshCredentials ==
  ASSUME TypeInv, CredentialsInv, NEW c \in Slots, ResumeExpired(c) \/ HandleAuthExpired(c)
  PROVE  CredentialsInv'
<1>1. storedToken' = Nil /\ StartFresh(c)
  BY DEF ResumeExpired, HandleAuthExpired, ClearSession
<1> DEFINE s == [Boot(Nil, Nil, calls[c].page, calls[c].key) EXCEPT !.mine = calls[c].mine]
<1>2. Matching(s)
  BY DEF Boot, Request, Matching
<1>3. Send(c, s)
  BY <1>1 DEF StartFresh
<1> HIDE DEF s
<1>4. CallsMatch'
  BY <1>2, <1>3, MatchingCalls DEF Send
<1> QED
  BY <1>1, <1>4 DEF CredentialsInv, StorageInv, RenderedInv

LEMMA OtherAnswerCredentials ==
  ASSUME TypeInv, CredentialsInv, NEW c \in Slots,
         CheckExpired(c) \/ Unhandled(c) \/ LoadDoc(c) \/ Lose(c) \/ BootFailed(c)
  PROVE  CredentialsInv'
<1> DEFINE r == calls[c]
           s == [r EXCEPT !.sent = "gone", !.mine = FALSE]
<1>1. r # Nil
  BY DEF CheckExpired, Unhandled, LoadDoc, Lose, BootFailed, Answered
<1>2. s.sid = r.sid /\ s.token = r.token
  BY <1>1 DEF Requests, TypeInv, TypeOK
<1>3. \/ calls' = [calls EXCEPT ![c] = Nil] \/ calls' = [Replaced EXCEPT ![c] = Nil]
      \/ calls' = [calls EXCEPT ![c] = s]
  BY DEF CheckExpired, Unhandled, LoadDoc, Lose, BootFailed, Send
<1> HIDE DEF s
<1>4. Matching(s) /\ Matching(Nil)
  BY <1>1, <1>2, SameCredentialsMatch DEF CredentialsInv, CallsMatch, Matching
<1>5. CallsMatch'
  BY <1>3, <1>4, MatchingCalls
<1>6. StorageInv'
  BY DEF CheckExpired, Unhandled, LoadDoc, Lose, BootFailed, ClearSession, storageVars, CredentialsInv, StorageInv
<1>7. RenderedInv'
  BY DEF CheckExpired, Unhandled, LoadDoc, Lose, BootFailed, ClearSession, ShowMaintenance, Screen,
         storageVars, screenVars, CredentialsInv, RenderedInv
<1> QED
  BY <1>5, <1>6, <1>7 DEF CredentialsInv

LEMMA FollowingCredentials ==
  ASSUME TypeInv, CredentialsInv, NEW c \in Slots, StaleDocument(c) \/ PutUpload(c) \/ SubmitUpload(c)
  PROVE  CredentialsInv'
<1> DEFINE r == calls[c]
           put == [r EXCEPT !.kind = "put", !.answer = Nil]
           submit == [r EXCEPT !.kind = "submit", !.sid = sid, !.token = storedToken, !.answer = Nil]
           legal == Request("legal", Nil, Nil, Nil, Nil, r.mine)
<1>1. r # Nil /\ r \in Requests
  BY DEF StaleDocument, PutUpload, SubmitUpload, Answered, TypeInv, TypeOK
<1>2. put.sid = r.sid /\ put.token = r.token /\ submit.sid = sid /\ submit.token = storedToken /\ legal.token = Nil
  BY <1>1 DEF Requests, Request
<1>3. Send(c, put) \/ Send(c, submit) \/ Send(c, legal)
  BY DEF StaleDocument, PutUpload, SubmitUpload
<1> HIDE DEF put, submit, legal
<1>4. Matching(put) /\ Matching(submit) /\ Matching(legal)
  BY <1>1, <1>2 DEF CredentialsInv, StorageInv, CallsMatch, Matching
<1>5. CallsMatch'
  BY <1>3, <1>4, MatchingCalls DEF Send
<1> QED
  BY <1>5 DEF StaleDocument, PutUpload, SubmitUpload, CredentialsInv, StorageInv, RenderedInv, storageVars, screenVars

LEMMA SendingCredentials ==
  ASSUME TypeInv, CredentialsInv, Tick \/ SetLocale \/ CheckStatus \/ SubmitStep
  PROVE  CredentialsInv'
<1>1. PICK r : Send(Slot, r) /\ Matching(r)
  <2>1. CASE Tick \/ SetLocale
    <3>1. Send(Slot, Boot(storedId, storedToken, Nil, Nil))
      BY <2>1 DEF Tick, SetLocale, BootNow
    <3>2. Matching(Boot(storedId, storedToken, Nil, Nil))
      BY BootMatches DEF CredentialsInv, StorageInv
    <3> QED
      BY <3>1, <3>2
  <2>2. CASE CheckStatus
    <3>1. Matching(Request("check", storedId, storedToken, Nil, Nil, FALSE))
      BY DEF Matching, Request, CredentialsInv, StorageInv
    <3> QED
      BY <2>2, <3>1 DEF CheckStatus
  <2>3. CASE SubmitStep
    <3>1. view.screen = "step" /\ ~maintenance
      BY <2>3 DEF SubmitStep, Shown, StepType
    <3>2. Matching(Request("slot", view.key, storedToken, view.page, view.key, TRUE))
      BY <3>1 DEF Matching, Request, CredentialsInv, RenderedInv
    <3>3. Matching(Request("submit", sid, storedToken, view.page, view.key, TRUE))
      BY DEF Matching, Request, CredentialsInv, StorageInv
    <3> QED
      BY <2>3, <3>2, <3>3 DEF SubmitStep
  <2> QED
    BY <2>1, <2>2, <2>3
<1>2. CallsMatch'
  BY <1>1, MatchingCalls DEF Send
<1>3. UNCHANGED <<storedId, storedToken, sid, view, maintenance>>
  BY DEF Tick, SetLocale, CheckStatus, SubmitStep, storageVars, screenVars
<1> QED
  BY <1>2, <1>3 DEF CredentialsInv, StorageInv, RenderedInv

LEMMA ReloadCredentials ==
  ASSUME TypeInv, CredentialsInv, Reload
  PROVE  CredentialsInv'
<1> DEFINE boot == Boot(storedId, storedToken, Nil, Nil)
           gone(d) == [calls[d] EXCEPT !.sent = "gone", !.mine = FALSE]
<1>1. Matching(boot)
  BY BootMatches DEF CredentialsInv, StorageInv
<1>2. ASSUME NEW d \in Slots, calls[d] # Nil PROVE Matching(gone(d))
  <2>1. gone(d).sid = calls[d].sid /\ gone(d).token = calls[d].token
    BY <1>2 DEF Requests, TypeInv, TypeOK
  <2> HIDE DEF gone
  <2> QED
    BY <2>1, <1>2, SameCredentialsMatch DEF CredentialsInv, CallsMatch
<1>3. PICK slot \in Slots :
        \E lost \in SUBSET {c \in Slots \ {slot} : calls[c] # Nil /\ calls[c].answer = Nil} :
          calls' = [c \in Slots |-> IF c = slot THEN boot
                                    ELSE IF c \in lost THEN gone(c) ELSE Nil]
  BY DEF Reload
<1> HIDE DEF boot, gone
<1>4. ASSUME NEW d \in Slots PROVE Matching(calls'[d])
  <2>1. Matching(Nil)
    BY DEF Matching
  <2> QED
    BY <1>1, <1>2, <1>3, <2>1
<1>5. CallsMatch'
  BY <1>4 DEF CallsMatch, Matching
<1> QED
  BY <1>5 DEF Reload, CredentialsInv, StorageInv, RenderedInv, Screen, storageVars

LEMMA CredentialsHold == Spec => []CredentialsInv
<1>1. Init => CredentialsInv
  <2> SUFFICES ASSUME Init PROVE CredentialsInv
    OBVIOUS
  <2> DEFINE boot == Boot(Nil, Nil, Nil, Nil)
  <2>1. Matching(boot) /\ Matching(Nil)
    BY BootMatches DEF Matching
  <2> HIDE DEF boot
  <2>2. CallsMatch
    BY <2>1 DEF Init, CallsMatch, boot
  <2> QED
    BY <2>2 DEF Init, CredentialsInv, StorageInv, RenderedInv
<1>2. TypeInv /\ CredentialsInv /\ [Next]_vars => CredentialsInv'
  <2> SUFFICES ASSUME TypeInv, CredentialsInv, [Next]_vars PROVE CredentialsInv'
    OBVIOUS
  <2>1. CASE Type \/ Scroll \/ UNCHANGED vars
    BY <2>1 DEF Type, Scroll, vars, storageVars, screenVars, serverVars, historyVars,
                CredentialsInv, StorageInv, CallsMatch, Matching, RenderedInv
  <2> QED
    BY <2>1, NextCases, ServerCredentials, HandleEnvelopeCredentials, FreshCredentials, OtherAnswerCredentials,
       FollowingCredentials, SendingCredentials, ReloadCredentials
<1> QED
  BY <1>1, <1>2, TypeInvHolds, PTL DEF Spec

(* The page never has, or sends, the id of one session with the token of    *)
(* another (handleEnvelope, handleAuthExpired, api.js).                     *)
THEOREM CredentialsAreKept == Spec => []CredentialsBelongTogether
<1>1. CredentialsInv => CredentialsBelongTogether
  BY DEF CredentialsInv, StorageInv, CallsMatch, Matching, CredentialsBelongTogether
<1> QED
  BY <1>1, CredentialsHold, PTL

----------------------------------------------------------------------------
(* Progress                                                                *)

Quiet == happened \cap {"reload", "denied", "overlap"} = {}

\* The call r is of the one session the page has had, or creates it.
OfSession(r) ==
  /\ r.answer # Nil => r.answer.status # "unauthorized"
  /\ storedToken = Nil => r.kind = "post"
  /\ storedToken # Nil =>
       /\ r.kind # "post"
       /\ r.kind # "legal" => r.sid = storedToken /\ r.token = storedToken

OneCreation ==
  \A c, d \in Slots :
    calls[c] # Nil /\ calls[d] # Nil /\ calls[c].kind = "post" /\ calls[d].kind = "post" => c = d

CallsOfSession == \A c \in Slots : calls[c] # Nil => OfSession(calls[c])

ScreenOfSession ==
  /\ storedToken = Nil => storedId = Nil /\ sid = Nil /\ view.screen \in {"loading", "fatal"}
  /\ storedToken # Nil =>
       /\ storedId = storedToken /\ sid = storedToken
       /\ view.screen = "step" => view.key = storedToken

ProgressInv == Quiet => OneCreation /\ CallsOfSession /\ ScreenOfSession

LEMMA QuietBefore == [Next]_vars /\ Quiet' => Quiet
<1> SUFFICES ASSUME [Next]_vars PROVE happened' = happened \/ \E h : happened' = happened \cup h
  BY DEF Quiet
<1>1. ASSUME NEW c \in Slots, ServerStep(c) \/ LookupFails(c) \/ Refuse(c) \/ ServerError(c) \/ CutOff(c)
      PROVE  happened' = happened \/ \E h : happened' = happened \cup h
  BY <1>1 DEF ServerStep, CreateSession, GetSession, StoreStep, Provide, Unauthorized, LookupFails,
              Refuse, ServerError, CutOff, historyVars
<1>2. ASSUME NEW c \in Slots, Arrive(c) \/ Lose(c)
      PROVE  happened' = happened \/ \E h : happened' = happened \cup h
  BY <1>2 DEF Arrive, HandleEnvelope, ResumeExpired, CheckExpired, HandleAuthExpired, StartFresh,
              BootFailed, Unhandled, StaleDocument, LoadDoc, PutUpload, SubmitUpload, Lose, historyVars
<1>3. ASSUME Tick \/ SetLocale \/ CheckStatus \/ Type \/ Scroll \/ SubmitStep \/ Reload
      PROVE  happened' = happened \/ \E h : happened' = happened \cup h
  BY <1>3 DEF Tick, SetLocale, CheckStatus, BootNow, Type, Scroll, SubmitStep, Reload, historyVars
<1>4. CASE UNCHANGED vars
  BY <1>4 DEF vars, historyVars
<1> QED
  BY <1>1, <1>2, <1>3, <1>4 DEF Next

\* Calls keep their session while the token stays; and there is one creation
\* more only when there was none.
LEMMA CallsStay ==
  ASSUME TypeInv, OneCreation, CallsOfSession, UNCHANGED storedToken, NEW c \in Slots, NEW r,
         r # Nil => OfSession(r),
         r # Nil /\ r.kind = "post" =>
           \A d \in Slots : calls[d] # Nil /\ calls[d].kind = "post" => d = c,
         calls' = [calls EXCEPT ![c] = r] \/ calls' = [Replaced EXCEPT ![c] = r]
  PROVE  OneCreation' /\ CallsOfSession'
<1>1. calls \in [Slots -> Requests \cup {Nil}] /\ Replaced \in [Slots -> Requests \cup {Nil}]
  BY ReplacedHolds DEF TypeInv, TypeOK
<1>2. ASSUME NEW d \in Slots, Replaced[d] # Nil
      PROVE  /\ calls[d] # Nil /\ OfSession(Replaced[d])
             /\ Replaced[d].kind = calls[d].kind
  <2>1. calls[d] # Nil
    BY <1>2 DEF Replaced
  <2> DEFINE r1 == calls[d]
             s1 == [r1 EXCEPT !.mine = FALSE]
  <2>2. s1.kind = r1.kind /\ s1.sid = r1.sid /\ s1.token = r1.token /\ s1.answer = r1.answer
    BY <1>1, <2>1 DEF Requests
  <2>3. Replaced[d] = s1
    BY <2>1 DEF Replaced
  <2> HIDE DEF s1
  <2> QED
    BY <2>1, <2>2, <2>3 DEF CallsOfSession, OfSession
<1>3. ASSUME NEW d \in Slots, calls'[d] # Nil
      PROVE  /\ OfSession(calls'[d])
             /\ d # c => calls[d] # Nil /\ calls'[d].kind = calls[d].kind
             /\ d = c => calls'[d] = r
  BY <1>1, <1>2, <1>3 DEF CallsOfSession
<1>4. CallsOfSession'
  BY <1>3 DEF CallsOfSession, OfSession
<1>5. ASSUME NEW d \in Slots, NEW e \in Slots, calls'[d] # Nil, calls'[e] # Nil,
             calls'[d].kind = "post", calls'[e].kind = "post"
      PROVE  d = e
  BY <1>3, <1>5 DEF OneCreation
<1> QED
  BY <1>4, <1>5 DEF OneCreation

LEMMA ServerProgress ==
  ASSUME TypeInv, ProgressInv, NEW c \in Slots, Quiet, Quiet',
         ServerStep(c) \/ LookupFails(c) \/ Refuse(c) \/ ServerError(c) \/ CutOff(c)
  PROVE  ProgressInv'
<1>1. calls[c] # Nil /\ OfSession(calls[c])
  BY DEF ServerStep, CreateSession, GetSession, StoreStep, Provide, Unauthorized, LookupFails, Refuse,
         ServerError, CutOff, Reached, ProgressInv, CallsOfSession
<1>2. ~LookupFails(c)
  BY DEF LookupFails, Quiet
<1>3. ~Unauthorized(c)
  BY <1>1 DEF Unauthorized, Reached, OfSession, Authorized
<1>4. UNCHANGED <<storageVars, sid, screenVars>>
  BY DEF ServerStep, CreateSession, GetSession, StoreStep, Provide, Unauthorized, LookupFails, Refuse, ServerError, CutOff
<1>5. PICK e : Reply(c, e) /\ e.status # "unauthorized"
  <2>1. PICK status \in {"ok", "maintenance", "refused", "failed"} :
               \E s, n : Reply(c, Answer(status, s, n))
    BY <1>2, <1>3 DEF ServerStep, CreateSession, GetSession, StoreStep, Provide, Refuse, ServerError, CutOff
  <2>2. PICK s, n : Reply(c, Answer(status, s, n))
    BY <2>1
  <2>3. Answer(status, s, n).status # "unauthorized"
    BY DEF Answer
  <2> QED
    BY <2>2, <2>3
<1> DEFINE r == calls[c]
           s == [r EXCEPT !.answer = e]
<1>6. s.kind = r.kind /\ s.sid = r.sid /\ s.token = r.token /\ s.answer = e
  BY <1>1 DEF Requests, TypeInv, TypeOK
<1>7. calls' = [calls EXCEPT ![c] = Nil] \/ calls' = [calls EXCEPT ![c] = s]
  BY <1>5 DEF Reply
<1> HIDE DEF s
<1>8. OfSession(s)
  BY <1>1, <1>5, <1>6 DEF OfSession
<1>9. s.kind = "post" => \A d \in Slots : calls[d] # Nil /\ calls[d].kind = "post" => d = c
  BY <1>1, <1>6 DEF ProgressInv, OneCreation
<1>10. OneCreation' /\ CallsOfSession'
  BY <1>4, <1>7, <1>8, <1>9, CallsStay DEF ProgressInv, storageVars
<1> QED
  BY <1>4, <1>10 DEF ProgressInv, ScreenOfSession, storageVars, screenVars

LEMMA HandleEnvelopeProgress ==
  ASSUME TypeInv, ProgressInv, NEW c \in Slots, Quiet, Quiet', HandleEnvelope(c)
  PROVE  ProgressInv'
<1> DEFINE e == calls[c].answer
           left == DraftCleared(c) \ IF calls[c].kind = "submit" THEN {<<sid, calls[c].page>>} ELSE {}
           legal == Request("legal", Nil, Nil, Nil, Nil, TRUE)
<1>1. calls[c] # Nil /\ e # Nil /\ e.status \in {"ok", "maintenance"} /\ TakeSession(e.sess)
  BY DEF HandleEnvelope, Answered
<1>2. OneCreation /\ CallsOfSession /\ ScreenOfSession /\ OfSession(calls[c])
  BY <1>1 DEF ProgressInv, CallsOfSession
<1>3. CallHolds(calls[c]) /\ AnswerFits(calls[c], e)
  BY <1>1, CallTypes DEF CallHolds
<1>4. storedToken' # Nil /\ sid' = storedToken' /\ storedId' = storedToken'
      /\ (storedToken # Nil => storedToken' = storedToken)
  <2>1. CASE storedToken = Nil
    <3>1. e.sess # Nil
      BY <2>1, <1>1, <1>2, <1>3 DEF OfSession, AnswerFits, Succeeded
    <3> QED
      BY <2>1, <3>1, <1>1 DEF TakeSession
  <2>2. CASE storedToken # Nil
    <3>1. e.sess = Nil
      BY <2>2, <1>2, <1>3 DEF OfSession, AnswerFits
    <3> QED
      BY <2>2, <3>1, <1>1, <1>2 DEF TakeSession, ScreenOfSession
  <2> QED
    BY <2>1, <2>2
<1>5. PICK r \in {Nil, legal} : calls' = [calls EXCEPT ![c] = r] \/ calls' = [Replaced EXCEPT ![c] = r]
  BY DEF HandleEnvelope, Send, DispatchStep
<1>6. legal.kind = "legal" /\ legal.answer = Nil
  BY DEF Request
<1> HIDE DEF legal
<1>7. OneCreation' /\ CallsOfSession'
  <2>1. CASE storedToken # Nil
    <3>1. (r # Nil => OfSession(r)) /\ (r # Nil => r.kind # "post")
      BY <2>1, <1>5, <1>6 DEF OfSession
    <3> QED
      BY <2>1, <3>1, <1>2, <1>4, <1>5, CallsStay
  <2>2. CASE storedToken = Nil
    <3>1. \A d \in Slots : d # c => calls[d] = Nil
      BY <2>2, <1>1, <1>2 DEF OneCreation, CallsOfSession, OfSession
    <3>2. calls \in [Slots -> Requests \cup {Nil}] /\ Replaced \in [Slots -> Requests \cup {Nil}]
      BY ReplacedHolds DEF TypeInv, TypeOK
    <3>3. \A d \in Slots : calls'[d] # Nil => d = c /\ calls'[d] = legal
      BY <3>1, <3>2, <1>5 DEF Replaced
    <3>4. \A d \in Slots : calls'[d] # Nil => calls'[d].kind = "legal" /\ calls'[d].answer = Nil
      BY <3>3, <1>6
    <3> QED
      BY <3>3, <3>4, <1>4 DEF OneCreation, CallsOfSession, OfSession
  <2> QED
    BY <2>1, <2>2
<1>8. view'.screen = "step" => view'.key = storedToken'
  <2>1. CASE e.status = "maintenance"
    <3>1. view' = view
      BY <2>1 DEF HandleEnvelope
    <3> QED
      BY <3>1, <1>2, <1>4 DEF ScreenOfSession
  <2>2. CASE e.status # "maintenance"
    <3>1. DispatchStep(c, e.next, sid', left)
      BY <2>2 DEF HandleEnvelope
    <3> QED
      BY <3>1, <1>4 DEF DispatchStep, Screen
  <2> QED
    BY <2>1, <2>2
<1> QED
  BY <1>4, <1>7, <1>8 DEF ProgressInv, ScreenOfSession

\* Nothing is unauthorized while the page has had one session.
LEMMA NeverDenied ==
  ASSUME ProgressInv, Quiet, NEW c \in Slots
  PROVE  ~ResumeExpired(c) /\ ~CheckExpired(c) /\ ~HandleAuthExpired(c)
BY DEF ResumeExpired, CheckExpired, HandleAuthExpired, Answered, ProgressInv, CallsOfSession, OfSession

LEMMA OtherAnswerProgress ==
  ASSUME TypeInv, ProgressInv, NEW c \in Slots, Quiet, Quiet',
         Unhandled(c) \/ LoadDoc(c) \/ Lose(c) \/ BootFailed(c)
  PROVE  ProgressInv'
<1> DEFINE r == calls[c]
           s == [r EXCEPT !.sent = "gone", !.mine = FALSE]
<1>1. r # Nil /\ OfSession(r)
  BY DEF Unhandled, LoadDoc, Lose, BootFailed, Answered, ProgressInv, CallsOfSession
<1>2. s.kind = r.kind /\ s.sid = r.sid /\ s.token = r.token /\ s.answer = r.answer
  BY <1>1 DEF Requests, TypeInv, TypeOK
<1>3. PICK q \in {Nil, s} : calls' = [calls EXCEPT ![c] = q] \/ calls' = [Replaced EXCEPT ![c] = q]
  BY DEF Unhandled, LoadDoc, Lose, BootFailed, Send
<1> HIDE DEF s
<1>4. OfSession(s)
  BY <1>1, <1>2 DEF OfSession
<1>5. s.kind = "post" => \A d \in Slots : calls[d] # Nil /\ calls[d].kind = "post" => d = c
  BY <1>1, <1>2 DEF ProgressInv, OneCreation
<1>6. UNCHANGED <<storedId, storedToken, sid>> /\ (view' = view \/ view' = Screen("fatal"))
  BY DEF Unhandled, LoadDoc, Lose, BootFailed, storageVars
<1>7. OneCreation' /\ CallsOfSession'
  BY <1>3, <1>4, <1>5, <1>6, CallsStay DEF ProgressInv
<1> QED
  BY <1>6, <1>7 DEF ProgressInv, ScreenOfSession, Screen

LEMMA FollowingProgress ==
  ASSUME TypeInv, ProgressInv, NEW c \in Slots, Quiet, Quiet',
         StaleDocument(c) \/ PutUpload(c) \/ SubmitUpload(c)
  PROVE  ProgressInv'
<1> DEFINE r == calls[c]
           put == [r EXCEPT !.kind = "put", !.answer = Nil]
           submit == [r EXCEPT !.kind = "submit", !.sid = sid, !.token = storedToken, !.answer = Nil]
           legal == Request("legal", Nil, Nil, Nil, Nil, r.mine)
<1>1. r # Nil /\ r \in Requests /\ OfSession(r) /\ r.kind \in {"submit", "slot", "put"}
  BY DEF StaleDocument, PutUpload, SubmitUpload, Answered, TypeInv, TypeOK, ProgressInv, CallsOfSession
<1>2. /\ put.kind = "put" /\ put.sid = r.sid /\ put.token = r.token /\ put.answer = Nil
      /\ submit.kind = "submit" /\ submit.sid = sid /\ submit.token = storedToken /\ submit.answer = Nil
      /\ legal.kind = "legal" /\ legal.answer = Nil
  BY <1>1 DEF Requests, Request
<1>3. PICK q \in {put, submit, legal} : Send(c, q)
  BY DEF StaleDocument, PutUpload, SubmitUpload
<1> HIDE DEF put, submit, legal
<1>4. storedToken # Nil
  BY <1>1 DEF OfSession
<1>5. OfSession(q) /\ q.kind # "post"
  BY <1>1, <1>2, <1>3, <1>4 DEF OfSession, ProgressInv, ScreenOfSession
<1>6. UNCHANGED <<storageVars, sid, screenVars>>
  BY DEF StaleDocument, PutUpload, SubmitUpload
<1>7. OneCreation' /\ CallsOfSession'
  BY <1>3, <1>5, <1>6, CallsStay DEF ProgressInv, Send, storageVars
<1> QED
  BY <1>6, <1>7 DEF ProgressInv, ScreenOfSession, storageVars, screenVars

LEMMA SendingProgress ==
  ASSUME TypeInv, ProgressInv, Quiet, Quiet', Tick \/ SetLocale \/ CheckStatus \/ SubmitStep
  PROVE  ProgressInv'
<1>1. OneCreation /\ CallsOfSession /\ ScreenOfSession
  BY DEF ProgressInv
<1>2. Slot \in Slots /\ calls[Slot] = Nil
  BY DEF Tick, SetLocale, CheckStatus, SubmitStep, BootNow, Slot, Free
<1>3. PICK r : /\ Send(Slot, r) /\ OfSession(r)
               /\ r.kind = "post" => \A d \in Slots : calls[d] # Nil => calls[d].kind # "post"
  <2>1. CASE Tick \/ SetLocale
    <3> DEFINE r == Boot(storedId, storedToken, Nil, Nil)
    <3>1. Send(Slot, r) /\ happened' = happened \cup Overlap(r)
      BY <2>1 DEF Tick, SetLocale, BootNow
    <3>2. OfSession(r)
      BY <1>1 DEF Boot, Request, OfSession, ScreenOfSession
    <3>3. r.kind = "post" => \A d \in Slots : calls[d] # Nil => calls[d].kind # "post"
      BY <3>1 DEF Overlap, Quiet
    <3> QED
      BY <3>1, <3>2, <3>3
  <2>2. CASE CheckStatus
    <3> DEFINE r == Request("check", storedId, storedToken, Nil, Nil, FALSE)
    <3>1. storedToken # Nil
      BY <2>2, <1>1 DEF CheckStatus, ScreenOfSession
    <3>2. OfSession(r) /\ r.kind # "post"
      BY <3>1, <1>1 DEF Request, OfSession, ScreenOfSession
    <3> QED
      BY <2>2, <3>2 DEF CheckStatus
  <2>3. CASE SubmitStep
    <3> DEFINE slot == Request("slot", view.key, storedToken, view.page, view.key, TRUE)
               submit == Request("submit", sid, storedToken, view.page, view.key, TRUE)
    <3>1. view.screen = "step"
      BY <2>3 DEF SubmitStep, Shown, StepType
    <3>2. storedToken # Nil /\ view.key = storedToken /\ sid = storedToken
      BY <3>1, <1>1 DEF ScreenOfSession
    <3>3. OfSession(slot) /\ slot.kind # "post" /\ OfSession(submit) /\ submit.kind # "post"
      BY <3>2 DEF Request, OfSession
    <3>4. Send(Slot, slot) \/ Send(Slot, submit)
      BY <2>3 DEF SubmitStep
    <3> QED
      BY <3>3, <3>4
  <2> QED
    BY <2>1, <2>2, <2>3
<1>4. UNCHANGED <<storedId, storedToken, sid, view>>
  BY DEF Tick, SetLocale, CheckStatus, SubmitStep, storageVars, screenVars
<1>5. OneCreation' /\ CallsOfSession'
  BY <1>1, <1>2, <1>3, <1>4, CallsStay DEF Send
<1> QED
  BY <1>1, <1>4, <1>5 DEF ProgressInv, ScreenOfSession

LEMMA ProgressStep ==
  ASSUME TypeInv, ProgressInv, [Next]_vars
  PROVE  ProgressInv'
<1> SUFFICES ASSUME Quiet' PROVE ProgressInv'
  BY DEF ProgressInv
<1>1. Quiet
  BY QuietBefore
<1>2. ~Reload
  BY DEF Reload, Quiet
<1>3. CASE Type \/ Scroll \/ UNCHANGED vars
  BY <1>1, <1>3 DEF Type, Scroll, vars, storageVars, screenVars, serverVars, historyVars, Quiet,
              ProgressInv, OneCreation, CallsOfSession, OfSession, ScreenOfSession
<1> QED
  BY <1>1, <1>2, <1>3, NextCases, NeverDenied, ServerProgress, HandleEnvelopeProgress, OtherAnswerProgress,
     FollowingProgress, SendingProgress

LEMMA ProgressHolds == Spec => []ProgressInv
<1>1. Init => ProgressInv
  <2> SUFFICES ASSUME Init PROVE ProgressInv
    OBVIOUS
  <2> DEFINE boot == Boot(Nil, Nil, Nil, Nil)
             first == CHOOSE d \in Slots : TRUE
  <2>1. boot.kind = "post" /\ boot.answer = Nil
    BY DEF Boot, Request
  <2>2. calls = [c \in Slots |-> IF c = first THEN boot ELSE Nil]
    BY DEF Init
  <2> HIDE DEF boot, first
  <2>3. \A c \in Slots : calls[c] # Nil => c = first /\ calls[c] = boot
    BY <2>2
  <2>4. OneCreation
    BY <2>3 DEF OneCreation
  <2>5. CallsOfSession
    BY <2>1, <2>3 DEF Init, CallsOfSession, OfSession
  <2> QED
    BY <2>4, <2>5 DEF Init, ProgressInv, ScreenOfSession, Screen
<1> QED
  BY <1>1, ProgressStep, TypeInvHolds, PTL DEF Spec

(* No session with progress is given up but after a reload, a failed lookup *)
(* or two creations at once (handleEnvelope, handleAuthExpired,             *)
(* resumeExisting).                                                         *)
THEOREM ProgressStays == Spec => ProgressIsKept
<1> DEFINE Kept == storedToken # Nil /\ stored[storedToken] # {} /\ storedToken' # storedToken
                     => happened \cap {"reload", "denied", "overlap"} # {}
<1>1. TypeInv /\ ProgressInv /\ [Next]_vars => Kept \/ UNCHANGED vars
  <2> SUFFICES ASSUME TypeInv, ProgressInv, Next, Quiet, storedToken # Nil PROVE storedToken' = storedToken
    BY DEF Quiet
  <2>1. ASSUME NEW c \in Slots, HandleEnvelope(c) PROVE storedToken' = storedToken
    <3>1. calls[c] # Nil /\ calls[c].answer # Nil /\ TakeSession(calls[c].answer.sess)
      BY <2>1 DEF HandleEnvelope, Answered
    <3>2. calls[c].kind # "post"
      BY <3>1 DEF ProgressInv, CallsOfSession, OfSession
    <3>3. calls[c].answer.sess = Nil
      BY <3>1, <3>2, CallTypes DEF CallHolds, AnswerFits
    <3> QED
      BY <3>1, <3>3 DEF TakeSession
  <2>2. \A c \in Slots : ~ResumeExpired(c) /\ ~CheckExpired(c) /\ ~HandleAuthExpired(c)
    BY NeverDenied
  <2> QED
    BY <2>1, <2>2 DEF Next, ServerStep, CreateSession, GetSession, StoreStep, Provide, Unauthorized, LookupFails,
       Refuse, ServerError, CutOff, Arrive, BootFailed, Unhandled, StaleDocument, LoadDoc, PutUpload, SubmitUpload, Lose,
       Tick, SetLocale, CheckStatus, Type, Scroll, SubmitStep, Reload, storageVars
<1> QED
  BY <1>1, TypeInvHolds, ProgressHolds, PTL DEF Spec, ProgressIsKept

(* What was typed is forgotten only as form.js and submitStep forget it: on *)
(* a success, or a submit without an answer, of a session that was given    *)
(* up, or sent for another session.                                         *)
THEOREM TypedInputStays == Spec => TypedInputIsKept
<1> DEFINE Forgotten(d) ==
             \/ d[1] \in SessionIds /\ d[2] \in stored[d[1]]
             \/ \E c \in Slots :
                  /\ calls[c] # Nil /\ calls[c].page = d[2]
                  /\ faults' > faults \/ calls[c].kind = "post" \/ calls[c].sid # d[1]
<1>1. TypeInv /\ [Next]_vars => (\A d \in drafts \ drafts' : Forgotten(d)) \/ UNCHANGED vars
  <2> SUFFICES ASSUME TypeInv, Next, NEW d \in drafts, d \notin drafts' PROVE Forgotten(d)
    OBVIOUS
  <2>1. d[1] \in Ids /\ d[2] \in Pages /\ d = <<d[1], d[2]>>
    BY DEF TypeInv, TypeOK
  <2>2. ASSUME NEW c \in Slots, Lose(c) PROVE Forgotten(d)
    <3>1. calls[c] # Nil /\ faults' = faults + 1 /\ drafts' = drafts \ {<<calls[c].key, calls[c].page>>}
      BY <2>2 DEF Lose, Fault, DraftCleared
    <3>2. calls[c].page = d[2] /\ faults' > faults
      BY <3>1 DEF TypeInv, TypeOK
    <3> QED
      BY <3>1, <3>2
  <2>3. ASSUME NEW c \in Slots, HandleEnvelope(c) \/ BootFailed(c) PROVE Forgotten(d)
    <3>1. calls[c] # Nil /\ CallHolds(calls[c]) /\ calls[c].answer # Nil
      BY <2>3, CallTypes DEF HandleEnvelope, BootFailed, Answered
    <3>2. calls[c].page = d[2]
      BY <2>3, <2>1 DEF HandleEnvelope, BootFailed, DraftCleared
    <3>3. calls[c].kind \in {"post", "submit"}
      BY <2>1, <2>3, <3>1, <3>2 DEF HandleEnvelope, BootFailed, Answered, CallHolds
    <3>4. CASE calls[c].kind = "post"
      BY <3>1, <3>2, <3>4
    <3>5. CASE calls[c].kind = "submit"
      <4>1. calls[c].answer.status \in Succeeded
        BY <2>3, <3>5 DEF HandleEnvelope, BootFailed, Answered, Succeeded
      <4>2. calls[c].sid \in SessionIds /\ calls[c].page \in stored[calls[c].sid]
        BY <3>1, <3>5, <4>1 DEF CallHolds, AnswerFits
      <4> QED
        BY <3>1, <3>2, <4>2
    <3> QED
      BY <3>3, <3>4, <3>5
  <2>4. (\E c \in Slots : Lose(c) \/ HandleEnvelope(c) \/ BootFailed(c)) \/ drafts \subseteq drafts'
    BY DEF Next, ServerStep, CreateSession, GetSession, StoreStep, Provide, Unauthorized, LookupFails,
       Refuse, ServerError, CutOff, Arrive, ResumeExpired, CheckExpired, HandleAuthExpired, Unhandled, StaleDocument,
       LoadDoc, PutUpload, SubmitUpload, Tick, SetLocale, CheckStatus, Type, Scroll, SubmitStep, Reload, storageVars
  <2> QED
    BY <2>2, <2>3, <2>4
<1> QED
  BY <1>1, TypeInvHolds, PTL DEF Spec, TypedInputIsKept
=============================================================================
