\* The instance of KycOverlap under fairness, as far as no call fails.
SPECIFICATION FaultlessSpec
CONSTANTS
  Requests = {r1, r2}
  Goroutines = {g1}
  Deliveries = {d1}
  Captures = {"id_card"}
  OtherSteps = {"form"}
  Reasons = {"blurry_id"}
PROPERTIES
  RunResolves
  VerifyingEnds
