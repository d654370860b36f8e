CONSTANTS
  Blank = Blank
  OwnPage = OwnPage
  NoStep = NoStep
  r1 = r1
  r2 = r2
  Requests = {r1}
  Steps <- StepIds
  Keys <- FieldKeys
  Values <- FieldValues
  Flow <- TwoVersions
  Legal = {1, 2}
  Reacceptance = {2}
  MaxEdits = 1
  MaxEvents = 2
SPECIFICATION FairSpec
INVARIANT TypeOK
PROPERTY VerificationIsReached
