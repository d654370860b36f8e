\* Every definition of the two families, with every sequence of accepted pages.
CONSTANTS
  Blank = Blank
  OwnPage = OwnPage
  NoStep = NoStep
  FlowDefinitions <- Definitions
  FieldKeys <- Keys
  FieldValues <- Values
SPECIFICATION FormSpec
INVARIANTS
  OrderIsSound
  FormsAreUsable
PROPERTY AcceptedMissesNothing
