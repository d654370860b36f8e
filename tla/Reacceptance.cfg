CONSTANTS
  Blank = Blank
  OwnPage = OwnPage
  NoStep = NoStep
  r1 = r1
  r2 = r2
  Requests = {r1}
  Steps <- StepIds
  Keys <- FieldKeys
  Values <- FieldValues
  Flow <- TwoVersions
  Legal = {1, 2, 3}
  Reacceptance = {2}
  MaxEdits = 0
  MaxEvents = 2
SPECIFICATION Spec
PROPERTY ReacceptanceIsAsked
