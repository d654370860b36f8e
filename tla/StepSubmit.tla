----------------------------- MODULE StepSubmit -----------------------------
(***************************************************************************)
(* POST /sessions/{id}/steps/{stepId} and its idempotency keys: SubmitStep *)
(* looks the key up, processes the body when it is new, saves the outcome  *)
(* under the key and answers. Each store call is one round trip; requests  *)
(* interleave between any two, fail at any of them, and are retried by     *)
(* their clients with the same key.                                        *)
(*                                                                         *)
(* Records are keyed by session, step and key, so one session and one step *)
(* are modelled. A body stands for its hash. What the rest of the server   *)
(* holds (other submissions, uploads, legal texts, banners) is a moment of *)
(* the world: it decides whether a body is acceptable and what envelope an *)
(* answer carries. Every refusal (400, 404, 409, 422) is one code: none of *)
(* them writes anything but the idempotency record.                        *)
(***************************************************************************)
EXTENDS Naturals

CONSTANTS
  Requests,    \* requests that may be in flight at once
  Keys,        \* idempotency keys
  Bodies,      \* request bodies
  MaxWorld,    \* bound on the number of times the world changes
  Acceptable,  \* pairs <<body, world>> for which the step's handler accepts the body
  None         \* no record, no key, no body, no result

Codes == {"ok", "refused", "reused"}
Results == [code : Codes, view : 0..MaxWorld]
Records == [body : Bodies, reply : Results]

ASSUME SubmitAssumption ==
  /\ MaxWorld \in Nat
  /\ Acceptable \subseteq Bodies \X (0..MaxWorld)
  /\ None \notin Keys \cup Bodies \cup Records

VARIABLES
  records,   \* the idempotency_keys table
  world,     \* the current moment of the world
  pc, key, body, result,  \* each request: where it is, what it carries, its outcome
  stored,      \* every body the step_submissions row has held
  replies,     \* history: every answer delivered to a client
  overlapped   \* history: keys two requests have carried at the same time

requestVars == <<pc, key, body, result>>
vars == <<records, world, requestVars, stored, replies, overlapped>>

TypeOK ==
  /\ records \in [Keys -> Records \cup {None}]
  /\ world \in 0..MaxWorld
  /\ pc \in [Requests -> {"idle", "lookup", "validate", "upsert", "envelope", "save", "respond"}]
  /\ key \in [Requests -> Keys \cup {None}]
  /\ body \in [Requests -> Bodies \cup {None}]
  /\ result \in [Requests -> Results \cup {None}]
  /\ \A r \in Requests :
       /\ pc[r] = "idle" => key[r] = None
       /\ pc[r] # "idle" => key[r] \in Keys /\ body[r] \in Bodies
       /\ pc[r] \in {"save", "respond"} => result[r] \in Results
  /\ stored \subseteq Bodies
  /\ replies \subseteq [key : Keys, body : Bodies, reply : Results]
  /\ overlapped \subseteq Keys

Init ==
  /\ records = [k \in Keys |-> None]
  /\ world = 0
  /\ pc = [r \in Requests |-> "idle"]
  /\ key = [r \in Requests |-> None]
  /\ body = [r \in Requests |-> None]
  /\ result = [r \in Requests |-> None]
  /\ stored = {}
  /\ replies = {}
  /\ overlapped = {}

Goto(r, location) == pc' = [pc EXCEPT ![r] = location]
Forget(r) ==
  /\ pc' = [pc EXCEPT ![r] = "idle"]
  /\ key' = [key EXCEPT ![r] = None]
  /\ body' = [body EXCEPT ![r] = None]
  /\ result' = [result EXCEPT ![r] = None]
Conclude(r, code, location) ==
  /\ result' = [result EXCEPT ![r] = [code |-> code, view |-> world]]
  /\ Goto(r, location)
  /\ UNCHANGED <<key, body>>

\* A client sends, resends, or sends something else under the same key.
Receive(r, k, b) ==
  /\ pc[r] = "idle"
  /\ Goto(r, "lookup")
  /\ key' = [key EXCEPT ![r] = k]
  /\ body' = [body EXCEPT ![r] = b]
  /\ overlapped' = IF \E q \in Requests : key[q] = k THEN overlapped \cup {k} ELSE overlapped
  /\ UNCHANGED <<records, world, result, stored, replies>>

\* A known key is answered from its record, or refused when the body differs.
GetIdempotencyRecord(r) ==
  /\ pc[r] = "lookup"
  /\ \/ /\ records[key[r]] = None
        /\ Goto(r, "validate")
        /\ UNCHANGED <<key, body, result>>
     \/ /\ records[key[r]] # None
        /\ records[key[r]].body # body[r]
        /\ Conclude(r, "reused", "respond")
     \/ /\ records[key[r]] # None
        /\ records[key[r]].body = body[r]
        /\ result' = [result EXCEPT ![r] = records[key[r]].reply]
        /\ Goto(r, "respond")
        /\ UNCHANGED <<key, body>>
  /\ UNCHANGED <<records, world, stored, replies, overlapped>>

\* Mutant: an acceptable body is answered before it is written.
Validate_AnswersEarly(r) ==
  /\ pc[r] = "validate"
  /\ Conclude(r, IF <<body[r], world>> \in Acceptable THEN "ok" ELSE "refused", "save")
  /\ UNCHANGED <<records, world, stored, replies, overlapped>>

\* processStep up to the handler's verdict on the body.
Validate(r) ==
  /\ pc[r] = "validate"
  /\ \/ /\ <<body[r], world>> \in Acceptable
        /\ Goto(r, "upsert")
        /\ UNCHANGED <<key, body, result>>
     \/ /\ <<body[r], world>> \notin Acceptable
        /\ Conclude(r, "refused", "save")
  /\ UNCHANGED <<records, world, stored, replies, overlapped>>

UpsertStepSubmission(r) ==
  /\ pc[r] = "upsert"
  /\ stored' = stored \cup {body[r]}
  /\ Goto(r, "envelope")
  /\ UNCHANGED <<records, world, key, body, result, replies, overlapped>>

\* The answer is the envelope of the world as it is by now.
BuildEnvelope(r) ==
  /\ pc[r] = "envelope"
  /\ Conclude(r, "ok", "save")
  /\ UNCHANGED <<records, world, stored, replies, overlapped>>

\* Mutant: the hash is not saved with the reply.
SaveIdempotencyRecord_NoHash(r) ==
  /\ pc[r] = "save"
  /\ records' = [records EXCEPT ![key[r]] =
       IF @ = None THEN [body |-> None, reply |-> result[r]] ELSE @]
  /\ Goto(r, "respond")
  /\ UNCHANGED <<world, key, body, result, stored, replies, overlapped>>

\* Mutant: ON CONFLICT DO UPDATE.
SaveIdempotencyRecord_Overwrites(r) ==
  /\ pc[r] = "save"
  /\ records' = [records EXCEPT ![key[r]] = [body |-> body[r], reply |-> result[r]]]
  /\ Goto(r, "respond")
  /\ UNCHANGED <<world, key, body, result, stored, replies, overlapped>>

\* Mutant: only a success is remembered.
SaveIdempotencyRecord_SuccessOnly(r) ==
  /\ pc[r] = "save"
  /\ records' = [records EXCEPT ![key[r]] =
       IF @ = None /\ result[r].code = "ok" THEN [body |-> body[r], reply |-> result[r]] ELSE @]
  /\ Goto(r, "respond")
  /\ UNCHANGED <<world, key, body, result, stored, replies, overlapped>>

\* INSERT ... ON CONFLICT DO NOTHING; the request keeps its own result.
SaveIdempotencyRecord(r) ==
  /\ pc[r] = "save"
  /\ records' = [records EXCEPT ![key[r]] =
       IF @ = None THEN [body |-> body[r], reply |-> result[r]] ELSE @]
  /\ Goto(r, "respond")
  /\ UNCHANGED <<world, key, body, result, stored, replies, overlapped>>

Respond(r) ==
  /\ pc[r] = "respond"
  /\ replies' = replies \cup {[key |-> key[r], body |-> body[r], reply |-> result[r]]}
  /\ Forget(r)
  /\ UNCHANGED <<records, world, stored, overlapped>>

\* A store call fails or the connection is lost: the client learns nothing.
Fail(r) ==
  /\ pc[r] # "idle"
  /\ Forget(r)
  /\ UNCHANGED <<records, world, stored, replies, overlapped>>

\* Something else in the server changes what envelopes say or accept.
WorldMoves ==
  /\ world < MaxWorld
  /\ world' = world + 1
  /\ UNCHANGED <<records, requestVars, stored, replies, overlapped>>

Next ==
  \/ \E r \in Requests, k \in Keys, b \in Bodies : Receive(r, k, b)
  \/ \E r \in Requests :
       \/ GetIdempotencyRecord(r) \/ Validate(r) \/ UpsertStepSubmission(r)
       \/ BuildEnvelope(r) \/ SaveIdempotencyRecord(r) \/ Respond(r) \/ Fail(r)
  \/ WorldMoves

Spec == Init /\ [][Next]_vars

----------------------------------------------------------------------------
(* Properties                                                              *)

(* As long as no two requests carried a key at the same time, the key has   *)
(* one answer: every client that used it with one body was told the same    *)
(* thing, and no other body was ever answered under it (contract 2.3: a     *)
(* replay "returns the original cached response verbatim"), even when the   *)
(* first attempts failed half way.                                          *)
OneAnswerPerKey ==
  \A p, q \in replies :
    p.key = q.key /\ p.key \notin overlapped /\ "reused" \notin {p.reply.code, q.reply.code}
      => p = q

(* The same without the proviso, which is what the contract says.           *)
ReplayIsVerbatim ==
  \A p, q \in replies :
    p.key = q.key /\ p.body = q.body /\ "reused" \notin {p.reply.code, q.reply.code} => p = q

(* A success, remembered or delivered, is never a promise about a body that *)
(* was not written: processing comes first, however requests race.          *)
SuccessWasStored ==
  /\ \A k \in Keys :
       records[k] # None => (records[k].reply.code = "ok" => records[k].body \in stored)
  /\ \A p \in replies : p.reply.code = "ok" => p.body \in stored

Contract == INSTANCE SubmitContract
  WITH Replies <- Results, written <- stored, remembered <- records, told <- replies,
       contended <- overlapped

(* However requests race, fail and are retried, clients see the contract     *)
(* (2.3): an outcome once remembered never changes, a replay is answered     *)
(* with it, another body under its key is refused, and only the losers of a  *)
(* race under one key keep an answer of their own.                           *)
ImplementsContract == Contract!Spec

=============================================================================
