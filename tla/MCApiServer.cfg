CONSTANTS
  None = None
  Bad = Bad
  Validators <- MCValidators
  Delegators <- MCDelegators
  DefaultLimit = 100
  LoopLimit = 1
  Unit = 10
  LastKey = 4
  MaxHeight = 3
  Keep = 2
  Questions <- MCQuestions
  Listings <- MCListings
  PageSizes <- MCPageSizes
  MaxPages = 4
SPECIFICATION Spec
INVARIANTS
  PinnedReads
  EndpointsAgree
  TotalsOfOneHeight
PROPERTY
  TotalsAnswered
CHECK_DEADLOCK FALSE
