CONSTANTS
  Names = {a, b}
  Fork = terence
  NoPlan = NoPlan
  TerenceHeight = 0
  MaxBlock = 6
SPECIFICATION UpgradesSpec
INVARIANT ScheduledUpgradeIsApplied
CHECK_DEADLOCK FALSE
