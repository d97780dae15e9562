---------------------------- MODULE MCEvmEngine ----------------------------
(* EvmEngine for TLC.  Two validators: n1 has more than two thirds of the  *)
(* power, so that n2 may lag behind, reject or be down.                    *)
EXTENDS EvmEngine

CONSTANTS n1, n2, u, v, r

MCNodes == {n1, n2}
MCQuorums == {{n1}, {n1, n2}}
MCWithdrawals == {u, v, r}

NoBatch == [stake |-> << >>, reward |-> << >>]
\* One more than a payload has room for (MaxWithdrawalPerBlock is 2), so
\* that payloads end in the middle of the reward queue.
FullBatch == [stake |-> <<u>>, reward |-> <<r, v>>]

MCBatches == {FullBatch}
MCNoBatches == {NoBatch}
=============================================================================
