SPECIFICATION FairSpec
CONSTANTS
  None = None
  n1 = n1
  n2 = n2
  u = u
  v = v
  r = r
  Nodes <- MCNodes
  Quorums <- MCQuorums
  Withdrawals <- MCWithdrawals
  Batches <- MCNoBatches
  LogKinds = {a}
  MaxWithdrawalPerBlock = 2
  TerenceHeight = 3
  MaxHeight = 4
  MaxTime = 0
  MaxCrashes = 1
  MaxElRestarts = 1
PROPERTIES AdvancesOrTrapped TrapNeedsRestart
CHECK_DEADLOCK FALSE
