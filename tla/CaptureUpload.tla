---------------------------- MODULE CaptureUpload ----------------------------
(***************************************************************************)
(* The captures of one session: upload slots (documents rows, one per      *)
(* kind), the object each kind has in the bucket, and the submissions that *)
(* name a slot. POST /uploads issues a slot, the client PUTs the object    *)
(* straight into the bucket, and submitCapture looks the slot up, fetches  *)
(* and checks the object, marks the row checked and writes the submission. *)
(* computeRepairs reads the row's uploaded_at to find expired captures.    *)
(*                                                                         *)
(* A slot's upload_ref is random in the code and a fresh number here; the  *)
(* object key is the kind, so every slot of a kind shares one object. An   *)
(* object is what ValidateImage makes of it: an image, or garbage. Time is *)
(* the moment a check becomes older than DocumentTTL. A signature's slot   *)
(* works the same way and never expires.                                   *)
(***************************************************************************)
EXTENDS Naturals

CONSTANTS
  Requests,   \* submits that may be in flight at once
  Kinds,      \* id_card, selfie: each is the capture of one camera step
  Images,     \* objects that decode as an image
  Garbage,    \* an object that does not
  NoObject,   \* nothing uploaded, nothing fetched, no hash
  NoKind,     \* no capture: an idle request, a slot not yet issued
  MaxSlots    \* bound on the number of slots issued in the session

ASSUME CaptureAssumption ==
  /\ MaxSlots \in Nat
  /\ NoKind \notin Kinds
  /\ NoObject \notin Images \cup {Garbage}
  /\ Garbage \notin Images

VARIABLES
  slot,        \* documents.upload_ref of each kind, 0 where there is no row
  hash,        \* documents.sha256: the object that was checked
  uploaded,    \* documents.uploaded_at: "never", or the age of the check
  object,      \* the object in the bucket under each kind's key
  submission,  \* the upload_ref in the step's submission, 0 where there is none
  pc, kind, ref, data,   \* each submit: where it is, its step, slot and fetched object
  issuedFor,   \* history: the kind each upload_ref was issued for
  checkedAge,  \* history: the age of each kind's last check, whatever the row says
  disturbed    \* history: kinds whose object was put while a check of it was under way or stood

rowVars == <<slot, hash, uploaded>>
bucketVars == <<object, disturbed>>
requestVars == <<pc, kind, ref, data>>
vars == <<rowVars, bucketVars, submission, requestVars, issuedFor, checkedAge>>

Objects == Images \cup {Garbage}
Refs == 1..MaxSlots
Ages == {"never", "fresh", "expired"}

TypeOK ==
  /\ slot \in [Kinds -> 0..MaxSlots]
  /\ hash \in [Kinds -> Images \cup {NoObject}]
  /\ uploaded \in [Kinds -> Ages]
  /\ object \in [Kinds -> Objects \cup {NoObject}]
  /\ submission \in [Kinds -> 0..MaxSlots]
  /\ pc \in [Requests -> {"idle", "lookup", "fetch", "mark", "upsert"}]
  /\ kind \in [Requests -> Kinds \cup {NoKind}]
  /\ ref \in [Requests -> 0..MaxSlots]
  /\ data \in [Requests -> Images \cup {NoObject}]
  /\ \A r \in Requests : pc[r] # "idle" => kind[r] \in Kinds /\ ref[r] \in Refs
  /\ issuedFor \in [Refs -> Kinds \cup {NoKind}]
  /\ checkedAge \in [Kinds -> Ages]
  /\ disturbed \subseteq Kinds

Init ==
  /\ slot = [k \in Kinds |-> 0]
  /\ hash = [k \in Kinds |-> NoObject]
  /\ uploaded = [k \in Kinds |-> "never"]
  /\ object = [k \in Kinds |-> NoObject]
  /\ submission = [k \in Kinds |-> 0]
  /\ pc = [r \in Requests |-> "idle"]
  /\ kind = [r \in Requests |-> NoKind]
  /\ ref = [r \in Requests |-> 0]
  /\ data = [r \in Requests |-> NoObject]
  /\ issuedFor = [f \in Refs |-> NoKind]
  /\ checkedAge = [k \in Kinds |-> "never"]
  /\ disturbed = {}

Goto(r, location) == pc' = [pc EXCEPT ![r] = location]
Finish(r) ==
  /\ pc' = [pc EXCEPT ![r] = "idle"]
  /\ kind' = [kind EXCEPT ![r] = NoKind]
  /\ ref' = [ref EXCEPT ![r] = 0]
  /\ data' = [data EXCEPT ![r] = NoObject]

----------------------------------------------------------------------------
(* POST /sessions/{id}/uploads and the bucket                              *)

\* Mutant: the conflicting row keeps its upload_ref.
UpsertDocumentSlot_KeepsRef(k, f) ==
  /\ slot' = [slot EXCEPT ![k] = IF @ = 0 THEN f ELSE @]
  /\ hash' = [hash EXCEPT ![k] = NoObject]
  /\ uploaded' = [uploaded EXCEPT ![k] = "never"]

\* A new slot overwrites the row and forgets that the old one was checked.
UpsertDocumentSlot(k, f) ==
  /\ slot' = [slot EXCEPT ![k] = f]
  /\ hash' = [hash EXCEPT ![k] = NoObject]
  /\ uploaded' = [uploaded EXCEPT ![k] = "never"]

\* The row is overwritten before the URL is signed: a failure there leaves a
\* slot whose upload_ref no client knows.
IssueUploadSlot(k, f) ==
  /\ issuedFor[f] = NoKind
  /\ issuedFor' = [issuedFor EXCEPT ![f] = k]
  /\ UpsertDocumentSlot(k, f)
  /\ UNCHANGED <<bucketVars, submission, requestVars, checkedAge>>

\* The client's PUT: any time after a slot was issued, before or after a check.
Put(k, o) ==
  /\ slot[k] # 0
  /\ object' = [object EXCEPT ![k] = o]
  /\ disturbed' = IF hash[k] # NoObject \/ \E r \in Requests : kind[r] = k /\ pc[r] = "mark"
                  THEN disturbed \cup {k} ELSE disturbed
  /\ UNCHANGED <<rowVars, submission, requestVars, issuedFor, checkedAge>>

----------------------------------------------------------------------------
(* POST /sessions/{id}/steps/{stepId} with an upload_ref                   *)

SubmitCapture(r, k, f) ==
  /\ pc[r] = "idle" /\ issuedFor[f] # NoKind
  /\ Goto(r, "lookup")
  /\ kind' = [kind EXCEPT ![r] = k]
  /\ ref' = [ref EXCEPT ![r] = f]
  /\ UNCHANGED <<rowVars, bucketVars, submission, data, issuedFor, checkedAge>>

\* Mutant: a slot of any kind will do.
GetDocumentByUploadRef_AnyKind(r) ==
  /\ pc[r] = "lookup"
  /\ IF \E k \in Kinds : slot[k] = ref[r]
     THEN Goto(r, "fetch") /\ UNCHANGED <<kind, ref, data>>
     ELSE Finish(r)
  /\ UNCHANGED <<rowVars, bucketVars, submission, issuedFor, checkedAge>>

\* No row has this upload_ref any more, or it is of another kind: 422.
GetDocumentByUploadRef(r) ==
  /\ pc[r] = "lookup"
  /\ IF slot[kind[r]] = ref[r]
     THEN Goto(r, "fetch") /\ UNCHANGED <<kind, ref, data>>
     ELSE Finish(r)
  /\ UNCHANGED <<rowVars, bucketVars, submission, issuedFor, checkedAge>>

\* What ValidateImage decodes; a missing object is not fetched at all.
ValidateImage(o) == o \in Images

\* Mutant: the object only has to exist.
Fetch_Unchecked(r) ==
  /\ pc[r] = "fetch"
  /\ IF object[kind[r]] # NoObject
     THEN /\ data' = [data EXCEPT ![r] = object[kind[r]]]
          /\ Goto(r, "mark")
          /\ UNCHANGED <<kind, ref>>
     ELSE Finish(r)
  /\ UNCHANGED <<rowVars, bucketVars, submission, issuedFor, checkedAge>>

\* Media.Fetch and ValidateImage: 422 for no object or one that does not decode.
Fetch(r) ==
  /\ pc[r] = "fetch"
  /\ IF ValidateImage(object[kind[r]])
     THEN /\ data' = [data EXCEPT ![r] = object[kind[r]]]
          /\ Goto(r, "mark")
          /\ UNCHANGED <<kind, ref>>
     ELSE Finish(r)
  /\ UNCHANGED <<rowVars, bucketVars, submission, issuedFor, checkedAge>>

\* Mutant: the check is recorded without its time.
MarkDocumentChecked_NoTime(r) ==
  /\ pc[r] = "mark"
  /\ hash' = [hash EXCEPT ![kind[r]] = data[r]]
  /\ checkedAge' = [checkedAge EXCEPT ![kind[r]] = "fresh"]
  /\ Goto(r, "upsert")
  /\ UNCHANGED <<slot, uploaded, bucketVars, submission, kind, ref, data, issuedFor>>

\* The row of this kind, whichever upload_ref it has by now.
MarkDocumentChecked(r) ==
  /\ pc[r] = "mark"
  /\ hash' = [hash EXCEPT ![kind[r]] = data[r]]
  /\ uploaded' = [uploaded EXCEPT ![kind[r]] = "fresh"]
  /\ checkedAge' = [checkedAge EXCEPT ![kind[r]] = "fresh"]
  /\ Goto(r, "upsert")
  /\ UNCHANGED <<slot, bucketVars, submission, kind, ref, data, issuedFor>>

UpsertStepSubmission(r) ==
  /\ pc[r] = "upsert"
  /\ submission' = [submission EXCEPT ![kind[r]] = ref[r]]
  /\ Finish(r)
  /\ UNCHANGED <<rowVars, bucketVars, issuedFor, checkedAge>>

\* A store call fails, the client goes away, or the process restarts.
Fail(r) ==
  /\ pc[r] # "idle"
  /\ Finish(r)
  /\ UNCHANGED <<rowVars, bucketVars, submission, issuedFor, checkedAge>>

----------------------------------------------------------------------------
(* computeRepairs on the camera steps                                      *)

\* DocumentTTL has passed since the last check of this kind.
Expire(k) ==
  /\ checkedAge[k] = "fresh"
  /\ checkedAge' = [checkedAge EXCEPT ![k] = "expired"]
  /\ uploaded' = [uploaded EXCEPT ![k] = IF @ = "never" THEN "never" ELSE "expired"]
  /\ UNCHANGED <<slot, hash, bucketVars, submission, requestVars, issuedFor>>

\* The redo_step repair of a document past its TTL: a row with no uploaded_at
\* has none.
RedoStep(k) == uploaded[k] = "expired"

----------------------------------------------------------------------------

SubmitStep(r) ==
  \/ GetDocumentByUploadRef(r) \/ Fetch(r) \/ MarkDocumentChecked(r) \/ UpsertStepSubmission(r)

Next ==
  \/ \E k \in Kinds, f \in Refs : IssueUploadSlot(k, f)
  \/ \E k \in Kinds, o \in Objects : Put(k, o)
  \/ \E r \in Requests, k \in Kinds, f \in Refs : SubmitCapture(r, k, f)
  \/ \E r \in Requests : SubmitStep(r) \/ Fail(r)
  \/ \E k \in Kinds : Expire(k)

Spec == Init /\ [][Next]_vars

----------------------------------------------------------------------------
(* Properties                                                              *)

(* A step is never complete with a slot that was not checked: as long as    *)
(* the slot a submission names is the kind's current one, its row carries a *)
(* check and an image's hash, even though the check is written by kind and  *)
(* slots are reissued while submits are in flight. Slots of a kind share    *)
(* one object, and still the hash is of the object in the bucket unless the *)
(* client put another one during or after the check.                        *)
SubmittedSlotIsChecked ==
  \A k \in Kinds :
    submission[k] # 0 /\ submission[k] = slot[k] =>
      /\ uploaded[k] # "never" /\ hash[k] \in Images
      /\ k \notin disturbed => hash[k] = object[k]

(* A step only ever holds an upload made for its own kind: a selfie's       *)
(* upload_ref does not complete the id card (submit_handlers.go: "No upload *)
(* was found for this step").                                               *)
SubmissionsKeepTheirKind ==
  \A k \in Kinds : submission[k] # 0 => issuedFor[submission[k]] = k

(* A check that has expired is noticed while the submitted slot is still    *)
(* the current one, whatever is put into the bucket meanwhile.              *)
ExpiryIsNoticed ==
  \A k \in Kinds :
    submission[k] # 0 /\ submission[k] = slot[k] /\ checkedAge[k] = "expired" => RedoStep(k)

=============================================================================
