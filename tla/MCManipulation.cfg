SPECIFICATION Spec
CONSTANTS
  Goal <- MCGoal
  Slot <- MCSlot
  Motion <- MCMotion
  BookOf <- MCBookOf
  Assigned <- MCAssigned
  ValidGoal <- MCGoal
  Impatient <- MCImpatient
  Frame = "arm_base_link"
  Window = 1
  None = None
INVARIANTS
  TypeOK
  PlacedForReal
  RestWhenReported
PROPERTIES
  CancelHitsItsJob
  ImplementsPlacementService
CHECK_DEADLOCK FALSE
