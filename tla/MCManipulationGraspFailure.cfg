SPECIFICATION Spec
CONSTANTS
  Goal = {"g1"}
  Slot <- MCSlot
  Motion <- MCMotion
  BookOf <- MCBookOfOne
  Assigned <- MCAssigned
  ValidGoal = {"g1"}
  Impatient <- MCImpatient
  Frame = "arm_base_link"
  Window = 1
  None = None
INVARIANTS
  GraspFailureKeepsSlot
CHECK_DEADLOCK FALSE
