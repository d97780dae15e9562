CONSTANTS
  Names = {a, b}
  Fork = terence
  NoPlan = NoPlan
  TerenceHeight = 3
  MaxBlock = 6
SPECIFICATION FairSpec
INVARIANTS
  RollingUpgrade
  
PROPERTIES
  AppliedOnTime
  PendingIsResolved
CHECK_DEADLOCK FALSE
