CONSTANTS
  Blank = Blank
  OwnPage = OwnPage
  NoStep = NoStep
  r1 = r1
  r2 = r2
  Requests = {r1, r2}
  Steps <- ShortSteps
  Keys <- ShortKeys
  Values <- FieldValues
  Flow <- ShortVersions
  Legal = {1}
  Reacceptance = {}
  MaxEdits = 0
  MaxEvents = 2
SPECIFICATION Spec
SYMMETRY Interchangeable
PROPERTIES
  TerminalNeverMoves
  VerifiedOnLatestFlow
  VerifiedOnCompleteAnswers
  AcceptedPageIsNotAskedAgain
