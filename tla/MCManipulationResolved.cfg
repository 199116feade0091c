SPECIFICATION FairSpec
CONSTANTS
  Goal <- MCGoal
  Slot <- MCSlot
  Motion <- MCMotion
  BookOf <- MCBookOf
  Assigned <- MCAssigned
  ValidGoal <- MCGoal
  Impatient = {}
  Frame = "arm_base_link"
  Window = 2
  None = None
PROPERTIES
  Resolved
  ProgressNeverDrops
CHECK_DEADLOCK FALSE
