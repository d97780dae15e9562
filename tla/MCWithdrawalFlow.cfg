SPECIFICATION FlowSpec
CONSTANTS
  unstake = unstake
  ubi = ubi
  reward = reward
  StakeWithdrawals <- MCStakeWithdrawals
  RewardWithdrawals <- MCRewardWithdrawals
  MaxWithdrawalPerBlock = 2
  MaxEnqueued = 3
INVARIANT AcceptedPayloadDequeues
 
