\* Two requests, a goroutine and an outside vendor interleaving freely.
SPECIFICATION Spec
CONSTANTS
  Requests = {r1, r2}
  Goroutines = {g1}
  Deliveries = {d1}
  Captures = {"id_card"}
  OtherSteps = {"form"}
  Reasons = {"blurry_id"}
SYMMETRY Symmetry
INVARIANTS
  TypeOK
  CompleteBeforeVerification
  NoOrphanedRun
  TriggeredOnceUnlessRaced
  StatusAgreesWithRun
PROPERTIES
  ApprovedIsFinal
  ImplementsLifecycle
