-------------------------- MODULE MCWithdrawalFlow --------------------------
(* WithdrawalFlow for TLC: two stake withdrawals that can be told apart    *)
(* (an unstake and a UBI payout), one reward, payloads of at most two.     *)
EXTENDS WithdrawalFlow

CONSTANTS unstake, ubi, reward

MCStakeWithdrawals  == {unstake, ubi}
MCRewardWithdrawals == {reward}
=============================================================================
