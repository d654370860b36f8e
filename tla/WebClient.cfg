SPECIFICATION Spec
CONSTANTS
  a = a
  b = b
  Nil = Nil
  Slots <- MCSlots
  Steps <- MCSteps
  MaxSessions = 3
  MaxTroubles = 2
INVARIANTS
  TypeOK
  CredentialsBelongTogether
PROPERTIES
  ProgressIsKept
  TypedInputIsKept
  RecoversByItself
CHECK_DEADLOCK FALSE
