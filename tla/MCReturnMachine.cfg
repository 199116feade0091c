SPECIFICATION Spec
CONSTANTS
  NoPlan = NoPlan
  Trays <- MCTrays
  NoId = NoId
  ShelfMapFiles <- MCShelfMapFiles
  JobIds <- MCJobIds
  TopicDepth = 2
INVARIANTS
  TypeOK
  LongestPrefixWins
  PlanCoversTray
  RefusedForAReason
