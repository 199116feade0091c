SPECIFICATION Spec
CONSTANTS
  Client <- MCClient
  BookOf <- MCBookOf
  Impatient <- MCImpatient
  Phases <- MCPhases
  AtOnce = 2
  None = None
INVARIANTS
  TypeOK
  CancelIsHonoured
  SlotsInTurn
  FoundSlotsFit
PROPERTIES
  ImplementsActionService
CHECK_DEADLOCK FALSE
