\* Two requests in flight, two bodies, two moments of the world.
SPECIFICATION Spec
CONSTANTS
  Requests = {r1, r2}
  Keys = {k1}
  Bodies = {"form", "capture"}
  MaxWorld = 1
  Acceptable <- MCAcceptable
  None = None
SYMMETRY Symmetry
INVARIANTS
  TypeOK
  OneAnswerPerKey
  SuccessWasStored
PROPERTY ImplementsContract
