# TLA+ model of the adaptive registration backend

The repository is a server-driven registration form: a Go backend
(`src/backend`) owns a versioned *flow definition*, tells a client which step to
show next, validates what it submits, repairs sessions that went stale, and
starts an asynchronous identity verification when nothing is left. A web client
(`src/web`) and an iOS client (`src/ios`) render what they are told. This
directory holds the TLA+ modules of its core, the TLC configurations that check
them, and the TLAPS proofs about them. `docs/contract.md` and `plan.md` are the
documents the properties are held against; the definitions come from the code.

Paths below are relative to `src/`; `engine/`, `store/`, `httpapi/`, `flowdef/`
are under `backend/internal/`.

## 1. Inventory

What the backend has in common everywhere: every store call is one autocommit
round trip, no handler takes a lock or opens a transaction, and what a handler
read stays in its variables. HTTP handlers run concurrently, each may stop after
any store call (a failed call, a cancelled request, a crash) and what it wrote
stays. So the hard behaviours are check-then-act races, stale reads, partial
failures, and long legal sequences.

| component | state | operations | depends on / talks to | what makes it correct |
|---|---|---|---|---|
| verification: `engine/kyc.go`, `store/oncomplete.go` | `on_complete_runs` row, `sessions.status`, sleeping goroutines | `ensureOnComplete`, `runMockKYC`, `HandleKYCWebhook`, clearing of a rejected run | called by `BuildEnvelope`; the mock vendor calls back over HTTP | never before the flow is complete; once per round; every started run gets its verdict; approval is final; the status shown follows the run |
| step submission: `engine/submit.go`, `store/submissions.go`, `httpapi/handlers.go` | `idempotency_keys`, `step_submissions` | `SubmitStep` | the step handlers, `BuildEnvelope` | one key has one answer, through races, failures and retries; a success is about a stored body |
| reconciliation: `engine/reconcile.go` | none of its own; reads nearly all, writes `sessions.flow_version` | `BuildEnvelope`: upgrade, repairs, next step, trigger | every GET and accepted submit ends in it | verified on complete answers to the latest flow; what was accepted is not asked again; the user gets to the end |
| step handlers: `engine/submit_handlers.go` | `step_submissions`, `consents`, `documents` | `submitForm`, `submitCapture`, `submitDocument`, `submitPin`, `submitExternal` | called by `SubmitStep` | a submission is only what was checked |
| flow definitions: `flowdef/`, `engine/validate.go` | none (pure) | `Eval`, `Visible`, `RequiredNow`, `validateForm`, `ResolveOrder` | used by the step handlers and by reconciliation, at different moments | both uses agree; the order is the promised one |
| uploads: `engine/uploads.go`, `store/documents.go`, `internal/media` | `documents`, the bucket | slot issue, PUT, check at submit, expiry | client uploads straight into the bucket | a submitted slot was checked and is of its kind; expiry is noticed |
| legal documents: `engine/legal.go`, `store/legal.go`, `store/consents.go` | `legal_docs`, `consents` | versions take effect, consent, re-acceptance | `submitDocument`, `computeRepairs` | required changes are accepted |
| boot: `cmd/api/main.go`, `internal/dbx`, `internal/seed`, `docker-compose.yml` | `schema_migrations`, all seeded tables | migrate, seed, load translations, serve; crash, deploy | reconciliation upgrades sessions to the seeded flow | a migration takes effect once; what serves is seeded whole; the release comes to serve |
| reference data: `engine/refdata.go`, `store/refdata.go` | `ref_datasets`, `ref_items`; the page's cache | `GET /refdata`, ETag, 304 | seeded at boot | one ETag names one list |
| sessions: `engine/session.go`, `store/sessions.go` | `sessions` | create (two statements), resume, authenticate, capability gate | entry of everything | a session is new or the one asked for, and is handed out whole |
| rate limiting: `internal/ratelimit` | token buckets in memory | `Allow` | wraps the handlers | no more than the rate; waiting is enough |
| web client: `web/js` | `localStorage` (id, token, drafts), `state.sessionId`, the rendered step, the maintenance countdown, calls in flight | boot, submit, upload, locale switch, reload | the backend, over calls that may be late or lost | id and token belong together; progress and typed input are kept; an outage ends by itself |
| step rendering: `engine/resolve.go`, `steps/form.js`, `expr.js` | none (pure) | what a form is sent, shows, requires and sends | evaluated twice, by server and page | the server refuses nothing the user cannot see |
| announcements: `store/announcements.go` | `announcements` | seeded at boot, edited by operators | every envelope | a row is the release's or an operator's |
| iOS client, HTTP routing | keychain, drafts | | | not modelled |

`PROJECT.json` lists the same components with their status, and under `hazards`
every place where the code can go wrong in a way that a test would hardly reach.

## 2. The modules

| module | models | proofs |
|---|---|---|
| `VerificationLifecycle` | abstract: phases of a verification, and the status shown | |
| `KycVerification` | the verification, one store call at a time | `KycVerification_proofs` |
| `SubmitContract` | abstract: what a client may rely on under an idempotency key | |
| `StepSubmit` | idempotent step submission | `StepSubmit_proofs` |
| `CaptureUpload` | upload slots, the bucket, checked captures | `CaptureUpload_proofs` |
| `FlowDefinition` | the pure logic over a definition, on the server and in the form | `FlowDefinition_proofs` |
| `FlowAnswers` (EXTENDS `FlowDefinition`) | a user who fills in the pages of one definition | `FlowDefinition_proofs` |
| `Reconciliation` (EXTENDS `FlowDefinition`) | a session through republished flows, revised terms, edits and rejections | `Reconciliation_proofs` |
| `SessionRegistry` | abstract: which sessions requests are answered with | |
| `Sessions` | creation and resume, one store call at a time | `SessionEndpoint_proofs` |
| `RateLimiter` | token buckets over time | `SessionEndpoint_proofs` |
| `SessionEndpoint` (EXTENDS both) | `POST /sessions`: the limiter, then the session | `SessionEndpoint_proofs` |
| `WebClient` | one page and its calls in flight, against the server's promises | `WebClient_proofs` |
| `Boot` | releases that migrate and seed one database, and the cached lists | `Boot_proofs` |

`MC<module>` gives the constants of a module finite values. A definition named
`<Action>_<Bug>` is the action with a plausible bug; no specification uses it,
and it exists to see that a property notices the bug (`mutants` in
`PROJECT.json`). `map` in `PROJECT.json` gives the lines of every definition.

The modules of a flow model one session: rows of different sessions never meet,
and the tables that are shared (flow versions, legal documents) are in the model.
`Sessions` and `WebClient` have several sessions, since there it matters whose
token is whose.

### KycVerification

`status` is `sessions.status`; `run` is the `on_complete_runs` row; `submitted`
the steps with a submission. A request has `pc` (the store call it is about to
make), `step` (what it submits) and `seen` (the status it read, which decides
later whether it marks the session). A webhook handler has `hook` and `verdict`;
goroutines of `runMockKYC` sleep in a slot of `Goroutines`, verdicts of a vendor
outside the process come in through `Deliveries`, late, repeated or
contradicting, and never before the vendor was called. `FailRequest`,
`FailSender` and `Restart` are the faults; `faulted` remembers them.

- The flow is fixed, so a completed step stays completed; other repairs and
  conditional steps are one nondeterministic outcome of `ComputeRepairs`.
- `attempt` stops at 2, which stands for "more than one".
- When every goroutine slot is taken, a further goroutine, which posts the same
  message, shares a sleeping one. `Launch` waits only while all slots are inside
  a webhook handler.
- `raced` is history: which races have happened so far, read off the states in which
  handlers stand between reading the store and writing what they decided. Two
  requests that have both found no run (`trigger`); two handlers in such sections at
  once (`write`); a request about to start a run on a status that changed since it was
  read (`status`). The properties say what holds until, or except for, the race they
  name, so nothing is assumed of how handlers overlap.
- `VerificationLifecycle` has the same moment (`crossed`): from then on it only
  promises that nothing was verified before the flow was complete.

### StepSubmit

One session and one step, since records are keyed by session, step and key.
`records` is `idempotency_keys`; `stored` every body the submission has held. A
body stands for its hash. `world` is a moment of everything else in the server:
`Acceptable` says which bodies the step's handler accepts at which moment, and
the envelope of an answer is the moment it was built at. All refusals are one
code, since none of them writes anything but the record. `replies` and
`overlapped` are history.

`SubmitContract` has no requests and no calls: a key remembers the outcome of the
first body for good, and an answer is that outcome, or says that the key was reused
for another body. Only under a key that two requests carried at once may an answer
be another outcome, and a success is always about a body that was written.
`StepSubmit` implements it (`ImplementsContract`), failures included.

### CaptureUpload

A `documents` row per kind (`slot`, `hash`, `uploaded`), the object each kind has
in the bucket, and the `submission` of each kind's step. An `upload_ref` is
random in the code and a fresh number here. The object's key is the kind
(`media.go`), so all slots of a kind share one object: `Put` may replace it at
any moment, before or after a check. A presigned URL's expiry is left out, which
lets more uploads happen. `SubmitCapture` carries any slot ever issued, so a
stale one and one of another kind are both tried. Every write of
`MarkDocumentChecked` is by kind, as in the code. `disturbed` is history: the kinds
whose object was put between a check's fetch and its mark, or after it.

### FlowDefinition

Definitions are records; the rules and options of a field are the set of values it
allows; `Blank` stands for a missing, null or empty answer. An expression is a text
that two programs read, and the record has both readings. `op`, `step`, `key`,
`values` are what `expr.go` makes of it: a key and the answers that are `looseEqual`
to a literal (`==`/`in`), or all the others (`!=`), or nothing at all ("bad", on which
visibility fails open and requirement closed). `client` is what `expr.js` makes of the
same text: whether it parses, and then an `||` of `&&` of comparisons, with the answers
that are `===` to a literal. The texts themselves, parentheses and the comparison of
two answers with each other are left out. `WellFormed` is what the code takes for
granted of a seeded definition. The loops of `order.go` (`Without`, `ResolveOrder`)
are recursive functions of how far they have come.

`FlowAnswers` is the smallest program around this logic: one of `FlowDefinitions`,
and a user who submits pages in any order. What is stored is only what `ValidateForm`
accepted, so its properties are about answers a session can really hold.

Rendering is the second half: `ResolveField` evaluates the conditions that look at
other pages and sends those of the page itself, `Served` leaves out the fields
other pages hide, and `EvaluateExpr`, `Shown`, `ClientAccepts` and `Sent` are what
`form.js` makes of it. `RefusalsAreVisible` compares the two evaluators, field by
field. It takes the stored answers to be the same at rendering and at validation, and
leaves out strings of spaces and fields that are not `SeenAlike`: those with a
condition the two programs read differently (`ReadAlike`), and those with a condition
on a field of the same page that is itself conditional, where the form still reads a
hidden field's old value and the server reads none. The other fields of the page may
be anything. The seeded flows have only such fields; nothing checks that of a new one
(section 6 has what happens otherwise).

### Reconciliation

The `sessions` row (`version`, `status`), the verification (`run`, `reason`; a run
is `"started"` while its row is pending and no request has called the vendor since
there was none), the submissions (`answers`, `submitted`, `expired`), the
latest `consent`, what the client was `told` and the legal text it has `shown`.
Each request carries the flow version it validates with (read at authentication)
and the session its `BuildEnvelope` read (`seenVersion`, `seenStatus`), which
decides on an upgrade written in a later round trip.

- The reads from the submissions to `next_step` are one step; `KycVerification`
  takes them apart, and the webhook too: here a verdict is one step, given once to
  a run the vendor was called about. The upload checks of a capture are `CaptureUpload`'s.
- One legal document in one locale. Blocked sessions (`force_update`) and the
  locale, which return early and write nothing to this state, are left out.
- A flow version is published only by seeding at boot, so `Publish` ends the
  requests in flight. A legal version takes effect by the clock.
- `Answer` is a user who fills in what is asked, through a client that leaves out
  hidden fields as `form.js` does; `Edit` submits any page, unasked.
- `returned` is history: a rejection has handed the session back. `behind` is history
  too: for each request, whether *another* request has replaced a page (`answers`) or
  moved the session (`version`) since this one read them. The properties of overlapping
  requests name the case they leave out by it, instead of ruling overlaps out.

### Sessions, RateLimiter, SessionEndpoint

`token`, `version` and `blocked` are columns of `sessions`; a token of `Nil` is no
row, `Empty` is what the first statement of `CreateSession` inserts, and the token
of session *s* is *s*, since a minted one is unique. UNIQUE is the guard of
`InsertSession` (`HalfMade = {}`); when it fails the caller gets an error.
`LookupFails` is the error of the lookup that falls through to a creation, `Fail` a
call that fails anywhere before or after it took effect, `Restart` the end of the
process, perhaps followed by a release with a newer flow. `Respond` is
`BuildEnvelope` as far as it matters here: a blocked session stays on its version,
another one is on the latest. The gate looks once, when a session is created.

`RateLimiter` counts tokens in parts of 1/`Window`, so that the refill of a tick is
an integer; the code's floats are these numbers rounded. `mark` starts a count at
any moment and `hint` remembers the first refusal: both are history, for the two
properties. `Allow` holds a mutex, so a call is one step.

`SessionEndpoint` conjoins `Admit` with `Ask` and `Refuse` with nothing at all, as
`handleCreateSession` does, and a restart empties the limiter's map while rows stay.

`SessionRegistry` is what callers may rely on: an answer is a session nobody was
given before, or the one whose token was sent, and a caller who sent a token gets
another session only after a fault. `Sessions` implements it (`ImplementsRegistry`).

### WebClient

`storedId`, `storedToken` and `drafts` are `localStorage`; `sid` is
`state.sessionId`, which only the answer of `POST /sessions` sets and a reload
empties; `view`, `typed`, `button` are the step container; `maintenance` and
`timer` the maintenance screen and its countdown. A call in `calls` keeps what it
was sent with, the step that waits for it (`page`, `key`, and `mine` while that
step is still rendered) and the answer once the server has given it; `Arrive` is
the moment the page takes it, so answers come in any order. `Lose` is a network
error or a gateway's 503: the server may still get the call (`sent = "gone"`).
`CutOff` is an answer whose connection ends in its body: `request` reads that outside
its `try`, so what the page gets is no `MaintenanceError` but a failure like a 500's.

The server is what its modules promise: a session per creation, `GET` and submit
for the token's own session, the first step that is not stored. It refuses
(`Refuse`), limits or fails (`ServerError`), is in maintenance, and denies a session
whose lookup failed (`LookupFails`: `Authenticate` turns every error into a 401).

- Steps are forms, documents and cameras; a signature is a camera step, a pin and
  an external step are forms without a draft. A draft is the pair it is saved under.
- `SubmitUpload` submits to the session in memory by then, `PutUpload` to the slot
  of the session the step was rendered with, as in `camera.js`.
- A renderer whose `await` ends after its step was replaced still clears its draft
  and enables a button that is not there any more (`mine`).
- `happened` is history: reloads, failed lookups, creations that overlapped and
  errors (429, 500), the cases the properties name.

### Boot

`executed` counts how often a migration took effect, `recorded` is
`schema_migrations`; one migration and its record are one transaction, and nothing
else is. `rows` has the seeded tables, a row being a key and a value that stands for
its columns; `SeedRow` upserts the release's rows in the order of `seed.All`, one
statement each. `Crash` ends the process at any point, `Deploy` starts another
release on the same database, newer or older, and `EditAnnouncement` is the SQL that
`README.md` gives operators. `GetDatasetVersion` and `ListRefItems` are the two
reads of `GET /refdata` with the comparison of the ETag; the page keeps its copy
through restarts. `VersionsAssumption` is the one thing asked of the authors of
releases: a list that changes gets a greater version.

## 3. The runs

| run | instance | what it shows |
|---|---|---|
| `kyc_overlap` | 2 requests, 1 goroutine slot, 1 outside delivery, everything interleaved, every fault; 788,806 states (up to symmetry) | nothing before the flow is complete; a pending run always has someone who will resolve it; a second start takes two requests between read and upsert; until writes cross, the code implements `VerificationLifecycle`, the status agrees with the run and an approval is final |
| `kyc_resolves` | the same instance under fairness, without faults; 668,242 states | a pending run is resolved; a session shown as verifying does not stay so, unless two handlers' writes crossed |
| `submit` | 2 requests, 1 key, 2 bodies, 2 moments; 7,040 states | submission implements `SubmitContract`, a success is about a stored body, a key used by one request at a time has one answer |
| `capture` | 2 submits, 2 kinds, 3 slots, 2 images; 1,969,975 states | a submitted current slot is checked, its hash is the object's unless that was replaced meanwhile, it is of its kind, and its expiry noticed |
| `flow` | every definition of three families, every sequence of accepted pages; 18,612 states | the order is sound; an accepted page misses nothing; a form is refused for no field its user cannot see, where both programs read the field's conditions alike |
| `reconcile` | 1 request, two flow versions and two legal ones, 1 edit, 2 events; 75,890 states | a user who answers reaches a verification |
| `reconcile_overlap` | 2 requests, two flow versions of three steps, 2 events; 497,489 states (up to symmetry) | a completed session stays; verified on complete answers to the latest flow; an accepted page is not asked for again |
| `sessions` | 2 requests of one device, 2 sessions, 2 builds of the app, 2 flow versions, 1 fault, a bucket of 2 in 3 ticks; 992,552 states | sessions are whole, new or the one asked for; a half-made one has an owner; the rate and the hint are kept |
| `client` | a form, a camera step and a document; 2 calls in flight, 3 sessions, 2 troubles; 681,159 states | credentials belong together; progress and drafts are kept but for the named cases; an outage ends by itself |
| `boot` | 3 releases, 4 stops, 1 edit; 23,359 states | what serves is migrated once and seeded whole; one ETag means one list; the last release comes to serve |

Two runs check what the documentation says and find that the code does otherwise
(`findings` in `PROJECT.json` quotes both):

| run | the statement | what happens |
|---|---|---|
| `kyc_double_trigger` | the adapter is triggered exactly once per session | two requests both read "no run" and both call the vendor |
| `reconcile_reaccept` | required terms are re-accepted | an editorial version on top of a required one hides it |

### Why the bounds are enough

- Two requests are what each race of these handlers takes: one acts between the
  other's read and write. A third adds the same reads and writes again. Where it
  could matter, the theorems hold for any number.
- `kyc_overlap` and `kyc_resolves` have one goroutine slot and one delivery, so two
  verdict handlers overlap each other and two requests; one capture and one other
  step make the flow complete in more than one order, and the capture is what a
  rejection sends the user back to. `kyc_resolves` needs no faults: both of its
  properties are about what happens unless a call failed, and `faulted` stays.
- In `submit`, "form" is always acceptable and "capture" once the world has
  moved: a refusal that would pass later, and a change between check and record.
- Three slots in `capture` are two of one kind and one of another, or three of
  one: a slot replaced while its submit is in flight, twice. Two images are the
  object that was checked and the one that replaced it.
- `flow` varies one or two transitions (same place, at the ends, next to a step
  that is absent, inserting a step already there) and one field's conditions; the
  third family's condition looks at a field that is itself conditional. Among the
  conditions are one that each program reads in its own way: a number compared with a
  text, one without spaces, which only the page parses, and an `&&`, which the server
  takes for part of a literal. `FormsAreUsable` is about the other fields of such pages
  too.
- `reconcile` has a step of each kind of repair, a conditional step, a
  conditional field, and a second version that adds a field to a page already
  accepted and a branch. Two events allow any two of publishing, a revision of
  the terms, an expiry, a rejection and a failure, in any order. It has one request,
  for its liveness is about one user's way.
- `reconcile_overlap` has two requests, on the steps that the second version changes
  (two forms and the card), and no other edits than those of two requests that were
  each told to answer a step. Its two events allow a publication and a rejection, or
  either with an expiry or a failure, in any order. Each exemption of its four
  properties is needed there: without it, TLC refutes the property.
- `sessions` has two requests because two meet at the UNIQUE token and at one token
  looked up twice; two sessions and two versions are the least with a wrong one to
  hand out. The bucket is not a divisor of its window, so that Retry-After is rounded,
  and the clock is long enough to fill it halfway and to wait out a hint.
- `client` has two calls in flight, so that any answer may come after another's; a
  trouble is a lost, refused or failed call or an interrupt of the user, and every
  property's named case needs at most two. Three sessions are a first, the one that
  replaces it, and one more from an overlapping creation.
- The second release of `boot` changes a text and adds a flow, the third changes an
  item, drops another and adds a migration: an upsert, an addition, a row that stays
  behind. Four stops are two deployments and a crash inside each boot.

### Fairness

`KycVerification`: a handler that has begun goes on (`WF` on `RequestStep` and
`WebhookStep`) and a sleeping goroutine wakes up, because the Go scheduler runs
every runnable goroutine and `KYCDelay` is finite. No user has to come back and no
outside vendor has to answer. It is assumed in `FaultlessSpec`.
`Reconciliation`: handlers go on (`WF`), and the user is cooperative: a step they
are told is answered again and again (`SF`, since a request in between disables
it), and otherwise they look at the session. `VerificationIsReached` is thus
about a user who wants to finish, and edits, expiries, revisions and rejections
are bounded by `MaxEdits` and `MaxEvents`. Nothing is assumed of faults or vendors.
`WebClient`: calls that reach the server are handled and answers that were not lost
arrive (`WF` per call), the countdown runs, and the user types and submits what is
shown. `RecoversByItself` is about behaviours without a reload, a failed lookup, a
429, a 500 or an answer cut off in its body, and the number of troubles is bounded: an
outage that ends.
The run of `WebClient` does not look for deadlocks: a page whose session is complete
and whose troubles are spent has nothing left to do.
`Boot`: a boot goes on and a process that ended is started again (`WF` on
`BootStep`), by `restart: unless-stopped`; crashes and deployments are bounded.
The other modules state safety only.

## 4. The proofs

Each `_proofs` module proves `Spec => []TypeOK` first, then its invariants, each
by `Init => Inv` and one step per action. The constants are any that satisfy the
named assumptions of the module (`KycAssumption`, `SubmitAssumption`,
`CaptureAssumption`, `DefinitionsAssumption`, `FlowAssumption`,
`SessionsAssumption`, `LimiterAssumption`, `WebClientAssumption`, and for `Boot`
`BootAssumption`, `SeedsAssumption` and `VersionsAssumption`), so for any number of requests, slots, keys, steps, flow
versions, calls in flight, releases and any bounds.

- **Verification.** `VerificationAfterCompletion`: `CompleteInv` adds that a request
  past `read_subs` saw every step submitted and that a handler implies a call.
  `PendingRunHasAnOwner`: `NoOrphanedRun` is inductive as it stands. The other four
  theorems assume nothing of how handlers overlap; `RacesAreRecorded` is what they know
  of `raced`. `TriggerInv`: until two requests stand before the upsert together, the one
  there is right that there is no run (`TriggersOnceUnlessRaced`). `WriteInv`: until two
  handlers are between a read and its write together, what each has read is still so
  when it writes, and an approved session has an approved run (`ApprovalIsFinal`).
  `AgreeInv` adds that a request about to start a run has read the session's status, so
  that it marks it (`StatusAgrees`). `CodeImplementsLifecycle` maps every step, faults
  included, to a step of `VerificationLifecycle` or a stutter: the step after which two
  handlers stand in their sections to `Cross`, and a write after that to `Astray`.
- **Idempotency.** `SuccessIsStored`: `StoredInv` carries the promise back to requests
  that have yet to save or answer. `EachKeyHasOneAnswer`: `KeyInv` says that under a
  key never carried by two requests at once, everything answered is what the record
  says, or what the one request about to answer carries. `SubmitImplementsContract`
  adds `OutcomeInv` (only an answer reports a reused key, and only when there is a
  record of another body) and maps every step of the code to a step of
  `SubmitContract` or a stutter (`ContractStep`). `ReplayIsVerbatimAlone`: the statement
  of `docs/contract.md:116`, false of the code in general (section 6), holds as long as no
  two requests carried one key at once.
- **Captures.** `KindInv`: the slot a request carries past its lookup was issued for
  its kind. `CheckedInv`: of a submission, or a request about to write one, that
  names the current slot, the row is checked, with the age of the kind's last check.
  `ObjectInv`: what a request has fetched, and what a row has recorded, is the object
  in the bucket until the kind is disturbed.
- **Flow.** `ResolvedOrderIsSound`, for any number of transitions and any answers: the
  loop of `ResolveOrder` keeps `OrderSoFar` (the base steps in their order, exactly the
  steps of the transitions taken so far, none twice, each new one on its side of the
  anchor), which `SpliceInIsSound` carries over one transition. The loops need
  induction, and the library's theorem for it takes an operator; `SetInduction` and
  `SequenceInduction` say the same of a *set*, from the least element (`LeastNatural`)
  that `WellFoundedInduction` gives, so each loop names the set of the iterations that
  are fine. `OrderIsAlwaysSound` follows.
  `AcceptedPageMissesNothing`: validation looks at the page and the *other* steps'
  answers, the repair at the stored page and all answers; a well-formed page names its
  own fields by bare keys only, so the conditions read the same in both
  (`ConditionsReadTheSame`). `AcceptedAlwaysMissesNothing` says it of every step of
  `FlowAnswers`.
- **Reconciliation.** `CompletedSessionStays` and `VerificationIsOfLatestFlow` for
  any number of overlapping requests: `UpgradeInv` bounds what requests have read by
  what is published, `RunInv` ties the run to the status, and `SeenInv` says that a
  request that may still write a version writes the one the session has, or is ahead
  of a session still in progress.
  `VerificationIsOfCompleteAnswers` and `AcceptedPageIsKept`, for any number of
  overlapping requests too: `PageInv` says of each request what it has established and
  nobody has overtaken since (`behind`): the page it is about to write is acceptable, the
  page it wrote misses nothing, the answers it found complete are, and the version it
  read is the session's. The second theorem has one condition, that a step keeps its type
  from one flow version to the next, since `RejectionInv` says that only a camera step is
  rejected.
  `ReacceptanceIsAskedUnlessHidden`: the statement that `reconcile_reaccept` refutes
  holds, for any number of overlapping requests, when a version on top of a required one
  is required too and every flow has the document outside its branches. Such a document
  is always in the order (`ResolvedOrderIsSound`), so an editorial version is the only
  way past it.
- **Rendering.** `FormRefusalsAreVisible`, for any page, takes one field that is
  `SeenAlike`: its conditions name fields that are always there, which both sides read
  with the same value (`NamedFieldIsShown`, `BothSidesAgree`), so if it is visible to the
  server it is shown (`VisibleIsShown`), and if required it is asked for
  (`RequiredIsAsked`). `FormsAreAlwaysUsable` says it after every page of every
  definition.
- **Sessions.** One invariant gives all four results: a row's token is none, empty or
  its own and at most one row is half-made (`RowInv`); a request between the insert and
  the answer makes a session nobody else makes or was given, and one that resumes has
  the session it was sent for (`RequestInv`); what a creation was judged by is still
  the latest flow, since a publication ends the requests (`GateInv`). The refinement
  maps each `Respond` to `Open` or `Resume` and each fault to `Fault`.
- **Rate limiter.** `RateInv`: what was admitted since the mark and what is left never
  exceed a full bucket and the refill since. `HintInv`: what a refused key has, and what
  it gains until its hint is due, is a token; refusals in between leave that sum alone.
  `RoundedDown` is why one second on top of Retry-After is enough. `EndpointKeepsRate`
  carries both over to the endpoint with its restarts.
- **Web client.** `CallsInv` ties a call's kind to what it carries and may be answered.
  `CredentialsAreKept`: no call has one session's id and another's token, and a visible
  step was rendered for the session of the token (`CredentialsInv`). `ProgressStays`:
  until a reload, a failed lookup or an overlap there is at most one creation, and none
  once there is a token, so every call and the screen belong to the one session
  (`ProgressInv`). `TypedInputStays` needs the types only.
- **Boot.** `BootInv`: a migration took effect exactly if it is recorded, and rows are
  seeded up to where the process is. `EtagInv`: an answer whose version is still the
  release's has the database's list, because while a release's own rows are written
  again they do not change, and before its first version row no request is served.

**The exceptions in the reconciliation theorems.** The formulas of the first two carry
`Undisturbed`: once a rejection has sent a session back, requests must not overlap.
Without it both are false of the code (TLC refutes each with two requests): a GET
that read the session while it was verified may outlive the rejection and the redo,
skip the upgrade, and start the next round on a replaced version; or a request's
pending upgrade lands after another request restarted the run and it was approved. The
comment at `engine/reconcile.go:98` ("a completed/terminal session never moves") does
not hold there. The other two name what another request wrote behind this one's back: a
page replaced after this request found the answers complete may leave the verification
it starts with a required answer missing, and after a rejection so may a version.

**Only model-checked.** Liveness (`RunResolves`, `VerifyingEnds`,
`VerificationIsReached`, `RecoversByItself`, `SettlesServing`), which is beyond the
prover. Every other property of a passing run is a theorem, under the conditions above.

**What proving changed in the model.** `Prefix` had a `CASE` whose guards overlapped, so
it meant any of its branches and TLC took the first; it is an `IF` now. `FormsAreUsable`
had its condition in the choice of the checked definitions, then in one that a whole page
had to meet; the proof needs it of one field at a time (`SeenAlike`), and so it is in the
property. `FlowAssumption` did not say that `Reacceptance` names versions of the document.

## 5. Not modelled

The iOS client; the locale and its normalisation; windows, severities and scopes of
announcements; filters, search and labels of reference data; texts and formats of
rendered steps; request signing and the expiry of presigned URLs; the PIN's format;
`expires_at` of a session, which is stored and which no code reads; two processes of
the backend at once; the order in which Go walks a map while seeding; the debug
panel's change of server. The audit log is written and never read.

## 6. Where code and documents part, besides the runs

Met while modelling; each is in the model as the code has it.

- **A replay is not always verbatim.** `docs/contract.md:116`: "replaying the same
  `Idempotency-Key` for the same `stepId` returns the original cached response verbatim
  (no reprocessing)". Two overlapping requests with one key and one body are both
  processed and each gets its own result, one a refusal (its upload had not arrived) and
  one a success. `SubmitContract` lets such a loser keep its own, and TLC refutes
  `ReplayIsVerbatim` in the instance of `submit`.
- **Any capture clears a rejection.** `submitCapture` deletes a rejected run whatever
  was submitted (`engine/submit_handlers.go:99`), against its own comment (line 97):
  "A redo of a previously KYC-rejected capture clears the rejection". `KycVerification`:
  `ReadRejection` has no condition on the step.
- **A new slot hides an expiry.** `computeRepairs` skips a row without `uploaded_at`
  (`engine/reconcile.go:195`) and a new slot clears it (`store/documents.go:22`) while
  the old submission stays, against `docs/contract.md:316` ("uploaded doc past TTL").
  `CaptureUpload` states the promise for the current slot only (`ExpiryIsNoticed`).
- **Hidden answers stay.** `engine/submit_handlers.go:35`: "orphaned answers from a
  since-changed visible_when are dropped here"; only the keys of the page being
  submitted are looked at, so an edit of one page leaves another's hidden answers.
- **A reload costs the session.** `app.js:343`: "Any pages already submitted are never
  re-asked"; `GET /sessions/{id}` does not name the session, so `state.sessionId` stays
  null, the next submit goes to `/sessions/null`, its 401 clears the stored session, and
  the user starts again. A camera step asks for its slot first, and that 401 is nobody's
  to handle. `WebClient`: `Reload`, `SubmitStep`, `Unauthorized`, and the exceptions of
  `ProgressIsKept`.
- **Typed input can be lost.** `plan.md:445`: "typed input is never lost (on-device
  drafts)"; `submitStep` returns normally after a lost call and after a 401, and the form
  then clears its draft (`steps/form.js:165`). The exceptions of `TypedInputIsKept`.
- **Conditions mean two things.** `plan.md:146`: conditions are "evaluated on both sides
  (client for UX, server for truth)". The page compares with `===` and `includes`
  (`expr.js:146`), the server by printed text (`flowdef/expr.go:136`): a field required
  and shown where `p == 1`, with `p` a select that sends the text 1, is hidden by the
  form, which lets the page go, and asked for by the server, which refuses it. The server
  also splits a text at spaces around one operator, and the page has a grammar with `&&`,
  `||` and parentheses: what only the page parses, the server takes for malformed (shown,
  not required) or for one comparison with an odd literal.
- **A screen that stays.** When the boot at the end of the countdown gets a 429, a 500, or
  an answer whose connection ends in its body (`api.js:60` reads it outside the `try` that
  makes a `MaintenanceError` of a lost call), `boot` catches it and the `catch` of
  `app.js:99` that would restart the countdown never runs. At the first boot, such an
  answer is an error screen with no retry. `plan.md:445`: "client backs off silently and
  retries". The exception of `RecoversByItself`; a document's button also stays in its
  loading state then.
- **Two refused submits** may each discard the session the other was just given:
  `handleAuthExpired` does not ask which session was refused.
- **A lookup that fails is a 401**, or a new session (`engine/session.go:97`, `:27`): an
  error that would pass ends the session for the client.
- **A half-made session blocks creation.** After a crash between the two statements of
  `CreateSession` the empty token stays, and every later creation fails on UNIQUE until
  somebody removes the row. `HalfMadeHasAnOwner` holds without faults.
- **The capability gate looks once**, at the flow of the creation
  (`docs/contract.md` 2.1: "the server only serves flow versions the client can
  render"); an upgrade or a resume on an older build is not looked at again, and a
  block is never lifted.
- **Retry-After alone is not enough**: it is rounded down, so a client that waits as long
  as it was told may be refused once more. `WaitingIsEnough` adds a second.
- **A restart undoes operators' edits.** `README.md` tells them to switch maintenance on
  with SQL; `UpsertAnnouncement` overwrites the row at the next start, and rows a
  release no longer has are never deleted.
- **ETags after a rollback.** An older release gives its version's ETag to a list in
  which items of the newer one remain; `EtagNamesOneList` excludes rollbacks. The ETag
  also lacks the locale the labels were rendered in.

## 7. What is left

1. **Composition** of `Reconciliation` with the round-trip reads of `KycVerification`:
   the overlapping requests that `Undisturbed` leaves out, as a run of its own, and a
   shared abstract specification of a session's life that `WebClient`'s server is.
2. **iOS client**: its keychain and retries, next to `WebClient`.
3. **Proofs**: what of `VerificationLifecycle` comes back after handlers have crossed,
   and a bound on how long they may; the conditions under which every field of a page is
   `SeenAlike`, as a check of a definition before it is published.
4. **Two backends on one database** during a deployment: their limiters are separate, and
   one may seed while the other serves.
