\* Two requests of one device with two builds of the app, one failed call.
SPECIFICATION Spec
CONSTANTS
  Requests = {r1, r2}
  SessionIds = {s1, s2}
  Clients = {"old", "new"}
  Renders <- MCRenders
  MaxVersion = 2
  MaxFaults = 1
  Nil = Nil
  Empty = Empty
  LimitKeys = {device}
  Capacity = 2
  Window = 3
  Second = 1
  MaxTime = 2
SYMMETRY Symmetry
INVARIANTS
  TypeOK
  HalfMadeHasAnOwner
  HandedOutWhole
  AdmittedWithinRate
  WaitingIsEnough
PROPERTIES
  ImplementsRegistry
