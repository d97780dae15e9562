CONSTANTS
  Keys = {k1, k2}
  MaxAmount = 2
  MaxEntries = 2
  MaxDistributions = 2
  MaxUbiPercentage = 2
  InflationsPerYear = 25
  BlocksPerYear = 4
  SingularityHeight = 2
  Parts = 4
  Percentages <- MCPercentages
  MinPartialWithdrawalAmount = 2
  MaxHeight = 5
SPECIFICATION EmissionSpec
INVARIANTS
  Solvent
  PromisedIsPaidOrClaimable
  EmissionAccounted
CHECK_DEADLOCK FALSE
