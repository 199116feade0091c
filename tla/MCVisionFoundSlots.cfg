SPECIFICATION Spec
CONSTANTS
  Goal <- MCTwo
  Candidate <- MCCandidate
  Threads = 2
  Waits = TRUE
  Impatient <- MCImpatient
  Trigger = TRUE
  None = None
PROPERTIES
  FoundSlotsAreReported
CHECK_DEADLOCK FALSE
