\* The two requests of KycOverlap against "exactly once per session".
SPECIFICATION Spec
CONSTANTS
  Requests = {r1, r2}
  Goroutines = {g1}
  Deliveries = {d1}
  Captures = {"id_card"}
  OtherSteps = {"form"}
  Reasons = {"blurry_id"}
SYMMETRY Symmetry
INVARIANTS
  TriggeredOnce
