SPECIFICATION Spec
CONSTANTS
  None = None
  n1 = n1
  n2 = n2
  u = u
  v = v
  r = r
  Nodes <- MCNodes
  Quorums <- MCQuorums
  Withdrawals <- MCWithdrawals
  Batches <- MCBatches
  LogKinds = {a}
  MaxWithdrawalPerBlock = 2
  TerenceHeight = 3
  MaxHeight = 3
  MaxTime = 1
  MaxCrashes = 2
  MaxElRestarts = 1
INVARIANTS NoFailedTransaction LedgerAgreement PaidExactlyOnce EventsDeliveredOnce ElFollowsDecided HonestProposalPasses
CHECK_DEADLOCK FALSE
