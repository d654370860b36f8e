------------------------- MODULE CaptureUpload_proofs -------------------------
(***************************************************************************)
(* What CaptureUpload keeps true for any number of submits, kinds, images  *)
(* and slots.                                                              *)
(***************************************************************************)
EXTENDS CaptureUpload, TLAPS

----------------------------------------------------------------------------
(* Type correctness                                                        *)

(* Every variable keeps its type; in particular the hash of a row, and the  *)
(* object a submit carries, are always of an image.                         *)
THEOREM TypeCorrect == Spec => []TypeOK
<1> USE CaptureAssumption
<1>1. Init => TypeOK
  BY DEF Init, TypeOK, Ages
<1>2. TypeOK /\ [Next]_vars => TypeOK'
  <2> SUFFICES ASSUME TypeOK, [Next]_vars PROVE TypeOK'
    OBVIOUS
  <2> USE DEF TypeOK, Goto, Finish, rowVars, bucketVars, requestVars, Ages, Refs
  <2>1. ASSUME NEW k \in Kinds, NEW f \in Refs, IssueUploadSlot(k, f) PROVE TypeOK'
    BY <2>1 DEF IssueUploadSlot, UpsertDocumentSlot
  <2>2. ASSUME NEW k \in Kinds, NEW o \in Objects, Put(k, o) PROVE TypeOK'
    BY <2>2 DEF Put
  <2>3. ASSUME NEW r \in Requests, NEW k \in Kinds, NEW f \in Refs, SubmitCapture(r, k, f)
        PROVE  TypeOK'
    BY <2>3 DEF SubmitCapture
  <2>4. ASSUME NEW r \in Requests, GetDocumentByUploadRef(r) PROVE TypeOK'
    <3>1. CASE slot[kind[r]] = ref[r]
      BY <2>4, <3>1 DEF GetDocumentByUploadRef
    <3>2. CASE slot[kind[r]] # ref[r]
      <4>1. Finish(r) /\ UNCHANGED <<rowVars, bucketVars, submission, issuedFor, checkedAge>>
        BY <2>4, <3>2 DEF GetDocumentByUploadRef
      <4>2. QED BY <2>4, <4>1
    <3>3. QED BY <3>1, <3>2
  <2>5. ASSUME NEW r \in Requests, Fetch(r) PROVE TypeOK'
    <3>1. CASE object[kind[r]] \in Images
      BY <2>5, <3>1 DEF Fetch, ValidateImage
    <3>2. CASE object[kind[r]] \notin Images
      <4>1. Finish(r) /\ UNCHANGED <<rowVars, bucketVars, submission, issuedFor, checkedAge>>
        BY <2>5, <3>2 DEF Fetch, ValidateImage
      <4>2. QED BY <2>5, <4>1
    <3>3. QED BY <3>1, <3>2
  <2>6. ASSUME NEW r \in Requests, MarkDocumentChecked(r) PROVE TypeOK'
    BY <2>6 DEF MarkDocumentChecked
  <2>7. ASSUME NEW r \in Requests, UpsertStepSubmission(r) PROVE TypeOK'
    BY <2>7 DEF UpsertStepSubmission
  <2>8. ASSUME NEW r \in Requests, Fail(r) PROVE TypeOK'
    BY <2>8 DEF Fail
  <2>9. ASSUME NEW k \in Kinds, Expire(k) PROVE TypeOK'
    BY <2>9 DEF Expire
  <2>10. CASE UNCHANGED vars
    BY <2>10 DEF vars
  <2>11. QED
    BY <2>1, <2>2, <2>3, <2>4, <2>5, <2>6, <2>7, <2>8, <2>9, <2>10 DEF Next, SubmitStep
<1>3. QED BY <1>1, <1>2, PTL DEF Spec

----------------------------------------------------------------------------
(* Submissions keep their kind                                             *)

(* A row's upload_ref was issued for the row's kind, and so was the ref of  *)
(* every submit past its lookup; a new slot never takes an issued ref.      *)
KindInv ==
  /\ \A k \in Kinds : slot[k] # 0 => issuedFor[slot[k]] = k
  /\ \A r \in Requests : pc[r] \in {"fetch", "mark", "upsert"} => issuedFor[ref[r]] = kind[r]
  /\ SubmissionsKeepTheirKind

LEMMA KindInvStep == TypeOK /\ KindInv /\ [Next]_vars => KindInv'
<1> SUFFICES ASSUME TypeOK, KindInv, [Next]_vars PROVE KindInv'
  OBVIOUS
<1> USE CaptureAssumption
<1> USE DEF KindInv, SubmissionsKeepTheirKind, TypeOK, Goto, Finish, rowVars, bucketVars, requestVars, Refs
<1>1. ASSUME NEW k \in Kinds, NEW f \in Refs, IssueUploadSlot(k, f) PROVE KindInv'
  BY <1>1 DEF IssueUploadSlot, UpsertDocumentSlot
<1>2. ASSUME NEW k \in Kinds, NEW o \in Objects, Put(k, o) PROVE KindInv'
  BY <1>2 DEF Put
<1>3. ASSUME NEW r \in Requests, NEW k \in Kinds, NEW f \in Refs, SubmitCapture(r, k, f)
      PROVE  KindInv'
  BY <1>3 DEF SubmitCapture
<1>4. ASSUME NEW r \in Requests, GetDocumentByUploadRef(r) PROVE KindInv'
  BY <1>4 DEF GetDocumentByUploadRef
<1>5. ASSUME NEW r \in Requests, Fetch(r) PROVE KindInv'
  BY <1>5 DEF Fetch, ValidateImage
<1>6. ASSUME NEW r \in Requests, MarkDocumentChecked(r) PROVE KindInv'
  BY <1>6 DEF MarkDocumentChecked
<1>7. ASSUME NEW r \in Requests, UpsertStepSubmission(r) PROVE KindInv'
  BY <1>7 DEF UpsertStepSubmission
<1>8. ASSUME NEW r \in Requests, Fail(r) PROVE KindInv'
  BY <1>8 DEF Fail
<1>9. ASSUME NEW k \in Kinds, Expire(k) PROVE KindInv'
  BY <1>9 DEF Expire
<1>10. CASE UNCHANGED vars
  BY <1>10 DEF vars
<1>11. QED
  BY <1>1, <1>2, <1>3, <1>4, <1>5, <1>6, <1>7, <1>8, <1>9, <1>10 DEF Next, SubmitStep

(* KindInv holds of every behaviour.                                        *)
LEMMA KindInvariant == Spec => []KindInv
<1>1. Init => KindInv
  BY DEF Init, KindInv, SubmissionsKeepTheirKind
<1>2. QED BY <1>1, KindInvStep, TypeCorrect, PTL DEF Spec

(* No step is completed with an upload made for another one.                *)
THEOREM SubmissionKeepsKind == Spec => []SubmissionsKeepTheirKind
<1>1. KindInv => SubmissionsKeepTheirKind
  BY DEF KindInv
<1>2. QED BY <1>1, KindInvariant, PTL

----------------------------------------------------------------------------
(* Submitted slots are checked, and their expiry is noticed                *)

(* The object of a kind, unless it was put at a bad moment, is what a check  *)
(* has found and what a submit between its fetch and its mark carries.      *)
ObjectInv ==
  \A k \in Kinds \ disturbed :
    /\ hash[k] # NoObject => hash[k] = object[k]
    /\ \A r \in Requests : kind[r] = k /\ pc[r] = "mark" => data[r] = object[k]

LEMMA ObjectInvStep == TypeOK /\ ObjectInv /\ [Next]_vars => ObjectInv'
<1> SUFFICES ASSUME TypeOK, ObjectInv, [Next]_vars PROVE ObjectInv'
  OBVIOUS
<1> USE CaptureAssumption
<1> USE DEF ObjectInv, TypeOK, Goto, Finish, rowVars, bucketVars, requestVars
<1>1. ASSUME NEW k \in Kinds, NEW f \in Refs, IssueUploadSlot(k, f) PROVE ObjectInv'
  BY <1>1 DEF IssueUploadSlot, UpsertDocumentSlot
<1>2. ASSUME NEW k \in Kinds, NEW o \in Objects, Put(k, o) PROVE ObjectInv'
  <2>1. CASE hash[k] # NoObject \/ \E r \in Requests : kind[r] = k /\ pc[r] = "mark"
    BY <1>2, <2>1 DEF Put
  <2>2. CASE hash[k] = NoObject /\ ~\E r \in Requests : kind[r] = k /\ pc[r] = "mark"
    BY <1>2, <2>2 DEF Put
  <2>3. QED BY <2>1, <2>2
<1>3. ASSUME NEW r \in Requests, NEW k \in Kinds, NEW f \in Refs, SubmitCapture(r, k, f)
      PROVE  ObjectInv'
  BY <1>3 DEF SubmitCapture
<1>4. ASSUME NEW r \in Requests, GetDocumentByUploadRef(r) PROVE ObjectInv'
  BY <1>4 DEF GetDocumentByUploadRef
<1>5. ASSUME NEW r \in Requests, Fetch(r) PROVE ObjectInv'
  BY <1>5 DEF Fetch, ValidateImage
<1>6. ASSUME NEW r \in Requests, MarkDocumentChecked(r) PROVE ObjectInv'
  BY <1>6 DEF MarkDocumentChecked
<1>7. ASSUME NEW r \in Requests, UpsertStepSubmission(r) PROVE ObjectInv'
  BY <1>7 DEF UpsertStepSubmission
<1>8. ASSUME NEW r \in Requests, Fail(r) PROVE ObjectInv'
  BY <1>8 DEF Fail
<1>9. ASSUME NEW k \in Kinds, Expire(k) PROVE ObjectInv'
  BY <1>9 DEF Expire
<1>10. CASE UNCHANGED vars
  BY <1>10 DEF vars
<1>11. QED
  BY <1>1, <1>2, <1>3, <1>4, <1>5, <1>6, <1>7, <1>8, <1>9, <1>10 DEF Next, SubmitStep

(* A submit about to be written has marked its row; if the row still has    *)
(* the submit's ref, nothing has cleared the mark since.                    *)
CheckedInv ==
  /\ \A k \in Kinds :
       submission[k] # 0 /\ submission[k] = slot[k] => uploaded[k] # "never" /\ hash[k] \in Images
  /\ \A r \in Requests : pc[r] = "mark" => data[r] \in Images
  /\ \A r \in Requests :
       pc[r] = "upsert" /\ slot[kind[r]] = ref[r] =>
         uploaded[kind[r]] # "never" /\ hash[kind[r]] \in Images
  /\ \A k \in Kinds : uploaded[k] # "never" => uploaded[k] = checkedAge[k]

LEMMA CheckedInvStep == TypeOK /\ KindInv /\ CheckedInv /\ [Next]_vars => CheckedInv'
<1> SUFFICES ASSUME TypeOK, KindInv, CheckedInv, [Next]_vars PROVE CheckedInv'
  OBVIOUS
<1> USE CaptureAssumption
<1> USE DEF CheckedInv, TypeOK, Goto, Finish, rowVars, bucketVars, requestVars,
            Refs, Ages
<1>1. ASSUME NEW k \in Kinds, NEW f \in Refs, IssueUploadSlot(k, f) PROVE CheckedInv'
  <2>1. submission[k] # f
    <3>1. CASE submission[k] = 0
      BY <3>1
    <3>2. CASE submission[k] # 0
      <4>1. issuedFor[submission[k]] = k
        BY <3>2 DEF KindInv, SubmissionsKeepTheirKind
      <4>2. issuedFor[f] = NoKind
        BY <1>1 DEF IssueUploadSlot, UpsertDocumentSlot
      <4>3. QED BY <4>1, <4>2
    <3>3. QED BY <3>1, <3>2
  <2>2. \A r \in Requests : pc[r] = "upsert" => ref[r] # f
    BY <1>1 DEF IssueUploadSlot, UpsertDocumentSlot, KindInv
  <2>3. QED BY <1>1, <2>1, <2>2 DEF IssueUploadSlot, UpsertDocumentSlot
<1>2. ASSUME NEW k \in Kinds, NEW o \in Objects, Put(k, o) PROVE CheckedInv'
  BY <1>2 DEF Put
<1>3. ASSUME NEW r \in Requests, NEW k \in Kinds, NEW f \in Refs, SubmitCapture(r, k, f)
      PROVE  CheckedInv'
  BY <1>3 DEF SubmitCapture
<1>4. ASSUME NEW r \in Requests, GetDocumentByUploadRef(r) PROVE CheckedInv'
  <2>1. CASE slot[kind[r]] = ref[r]
    BY <1>4, <2>1 DEF GetDocumentByUploadRef
  <2>2. CASE slot[kind[r]] # ref[r]
    <3>1. Finish(r) /\ UNCHANGED <<rowVars, bucketVars, submission, issuedFor, checkedAge>>
      BY <1>4, <2>2 DEF GetDocumentByUploadRef
    <3>2. QED BY <1>4, <3>1
  <2>3. QED BY <2>1, <2>2
<1>5. ASSUME NEW r \in Requests, Fetch(r) PROVE CheckedInv'
  <2>1. CASE object[kind[r]] \in Images
    BY <1>5, <2>1 DEF Fetch, ValidateImage
  <2>2. CASE object[kind[r]] \notin Images
    <3>1. Finish(r) /\ UNCHANGED <<rowVars, bucketVars, submission, issuedFor, checkedAge>>
      BY <1>5, <2>2 DEF Fetch, ValidateImage
    <3>2. QED BY <1>5, <3>1
  <2>3. QED BY <2>1, <2>2
<1>6. ASSUME NEW r \in Requests, MarkDocumentChecked(r) PROVE CheckedInv'
  BY <1>6 DEF MarkDocumentChecked
<1>7. ASSUME NEW r \in Requests, UpsertStepSubmission(r) PROVE CheckedInv'
  BY <1>7 DEF UpsertStepSubmission
<1>8. ASSUME NEW r \in Requests, Fail(r) PROVE CheckedInv'
  BY <1>8 DEF Fail
<1>9. ASSUME NEW k \in Kinds, Expire(k) PROVE CheckedInv'
  BY <1>9 DEF Expire
<1>10. CASE UNCHANGED vars
  BY <1>10 DEF vars
<1>11. QED
  BY <1>1, <1>2, <1>3, <1>4, <1>5, <1>6, <1>7, <1>8, <1>9, <1>10 DEF Next, SubmitStep

(* Both hold of every behaviour.                                            *)
LEMMA CheckedInvariant == Spec => [](CheckedInv /\ ObjectInv)
<1>1. Init => CheckedInv /\ ObjectInv
  BY DEF Init, CheckedInv, ObjectInv
<1>2. QED BY <1>1, CheckedInvStep, ObjectInvStep, KindInvariant, TypeCorrect, PTL DEF Spec

(* The current slot of a submitted step was checked and holds the hash of   *)
(* an image, the bucket's unless it was put during or after the check.      *)
THEOREM SubmittedIsChecked == Spec => []SubmittedSlotIsChecked
<1>1. CheckedInv /\ ObjectInv => SubmittedSlotIsChecked
  BY CaptureAssumption DEF CheckedInv, ObjectInv, SubmittedSlotIsChecked
<1>2. QED BY <1>1, CheckedInvariant, PTL

(* An expired check of the submitted slot always yields the redo repair.    *)
THEOREM SubmittedExpiryIsNoticed == Spec => []ExpiryIsNoticed
<1>1. CheckedInv => ExpiryIsNoticed
  BY DEF CheckedInv, ExpiryIsNoticed, RedoStep
<1>2. QED BY <1>1, CheckedInvariant, PTL

=============================================================================
