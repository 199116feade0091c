SPECIFICATION Spec
CONSTANTS
  Goal <- MCGoal
  Slot <- MCSlot
  Motion <- MCMotion
  BookOf <- MCBookOf
  Assigned <- MCAssigned
  ValidGoal <- MCGoal
  Impatient <- MCImpatient
  Frame = "arm_base_link"
  Window = 1
  None = None
INVARIANTS
  OneGoalAtATime
CHECK_DEADLOCK FALSE
