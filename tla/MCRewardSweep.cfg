CONSTANTS
  Validators <- MCValidators
  Delegators <- MCDelegators
  MaxSweepPerBlock = 2
SPECIFICATION FairSpec
PROPERTIES
  OneSweepPerBlock
  ShortSweepIsComplete
  EverySettledDelegationSwept
