\* Two submits in flight, two kinds, three slots issued in all.
SPECIFICATION Spec
CONSTANTS
  Requests = {r1, r2}
  Kinds = {id_card, selfie}
  Images = {photo, retake}
  Garbage = garbage
  NoObject = NoObject
  NoKind = NoKind
  MaxSlots = 3
SYMMETRY Symmetry
INVARIANTS
  TypeOK
  SubmittedSlotIsChecked
  SubmissionsKeepTheirKind
  ExpiryIsNoticed
