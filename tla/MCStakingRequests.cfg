SPECIFICATION Spec
CONSTANTS
  Accounts = {"a", "b"}
  NoAccount = "zero"
  STAKE_ROUNDING = 2
  DEFAULT_MIN_FEE = 1
  MAX_MONIKER_LENGTH = 2
  MAX_DATA_LENGTH = 1
  Commands = {1, 2}
  Requests <- MCRequests
  ApiAnswers <- MCApiAnswers
  Prices = {1, 2}
  Settings = {5}
  Initial <- MCInitial
  Funds = 14
  MaxChanges = 1
  None = None
INVARIANTS
  StakeIsBurned
  PrintsOwnDelegation
  LocalChecksAgree
  
PROPERTY
  ReturnsUnlessReplaced
CHECK_DEADLOCK FALSE
