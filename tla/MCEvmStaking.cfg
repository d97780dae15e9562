CONSTANTS
  Addresses <- MCAddresses
  Validators <- MCValidators
  GenesisValidators <- MCGenesisValidators
  Amounts <- MCAmounts
  Named <- MCNamed
  Rates <- MCRates
  GenesisRate = 5
  UbiAddress = UbiAddress
  NoAddress = NoAddress
  MinPartialWithdrawalAmount = 2
  MaxSweepPerBlock = 1
  SingularityHeight = 2
  V121Height = 3
  MaxHeight = 3
  MaxEvents = 4
  MaxInflation = 2
SPECIFICATION Spec
INVARIANTS
  NeverHalts
  
  RewardsAccounted
  NothingLeftBehind
PROPERTY
  PayoutsGoWhereChosen
