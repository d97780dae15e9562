----------------------------- MODULE PayoutFifo -----------------------------
(***************************************************************************)
(* What the withdrawal queues promise, without indices, maps or blocks in  *)
(* flight: stake withdrawals and reward withdrawals each leave in the      *)
(* order they came, none twice and none lost, and each payout takes as     *)
(* many as the limit allows, stake withdrawals first.                      *)
(***************************************************************************)
EXTENDS Integers, Sequences

CONSTANTS StakeWithdrawals,   \* unstake and UBI withdrawals
          RewardWithdrawals,
          Max                 \* withdrawals per payout

VARIABLES stake,   \* stake withdrawals still to be paid
          reward,  \* reward withdrawals still to be paid
          paid     \* everything the execution layer has credited, in order

fifoVars == <<stake, reward, paid>>

FifoInit == stake = << >> /\ reward = << >> /\ paid = << >>

PutStake ==
  /\ \E w \in StakeWithdrawals : stake' = Append(stake, w)
  /\ UNCHANGED <<reward, paid>>

PutReward ==
  /\ \E w \in RewardWithdrawals : reward' = Append(reward, w)
  /\ UNCHANGED <<stake, paid>>

\* n is what the limit leaves room for, all of them if they fit.
Takes(n, s, limit) ==
  /\ n <= limit
  /\ n = Len(s) \/ n = limit

Pay ==
  \E n \in 0 .. Len(stake), m \in 0 .. Len(reward) :
    /\ Takes(n, stake, Max)
    /\ Takes(m, reward, Max - n)
    /\ stake'  = SubSeq(stake, n + 1, Len(stake))
    /\ reward' = SubSeq(reward, m + 1, Len(reward))
    /\ paid'   = paid \o SubSeq(stake, 1, n) \o SubSeq(reward, 1, m)

FifoNext == PutStake \/ PutReward \/ Pay

FifoSpec == FifoInit /\ [][FifoNext]_fifoVars
=============================================================================
