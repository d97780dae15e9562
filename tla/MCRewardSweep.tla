--------------------------- MODULE MCRewardSweep ---------------------------
(***************************************************************************)
(* Two validators that delegate to themselves and one more delegator: with *)
(* a bound of two a validator's delegations fall short of the bound, meet  *)
(* it and exceed it.                                                       *)
(***************************************************************************)
EXTENDS RewardSweepFlow

MCValidators == {1, 2}
MCDelegators == {1, 2, 3}
=============================================================================
