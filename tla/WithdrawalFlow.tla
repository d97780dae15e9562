--------------------------- MODULE WithdrawalFlow ---------------------------
(***************************************************************************)
(* The block cycle of the two withdrawal queues on one chain: a proposer   *)
(* peeks (PrepareProposal), the other validators peek and compare          *)
(* (ProcessProposal), FinalizeBlock dequeues and the execution layer       *)
(* credits what the payload lists, and EndBlock enqueues what matured.     *)
(* FinalizeBlock compares lengths only, so that what is credited is what   *)
(* was dequeued rests on the comparison made when the proposal was voted.  *)
(***************************************************************************)
EXTENDS WithdrawalQueue

CONSTANTS StakeWithdrawals,       \* unstake and UBI withdrawals
          RewardWithdrawals,
          MaxWithdrawalPerBlock,  \* the module parameter, validated to be positive
          MaxEnqueued             \* bound: withdrawals ever put into each queue

ASSUME MaxWithdrawalAssumption == MaxWithdrawalPerBlock \in Nat \ {0}

VARIABLES withdrawalQueue,
          rewardQueue,
          phase,     \* the ABCI call the chain is in
          payload,   \* the proposed payload's withdrawals
          paid       \* withdrawals credited by the execution layer, in order

flowVars == <<withdrawalQueue, rewardQueue, phase, payload, paid>>

Withdrawals == StakeWithdrawals \cup RewardWithdrawals

PayloadWithdrawal == [index : Nat, w : Withdrawals]

FlowInit ==
  /\ withdrawalQueue = Initialize
  /\ rewardQueue = Initialize
  /\ phase = "propose"
  /\ payload = << >>
  /\ paid = << >>

PrepareProposal ==
  /\ phase = "propose"
  /\ payload' = PayloadWithdrawals(withdrawalQueue, rewardQueue, MaxWithdrawalPerBlock)
  /\ phase' = "process"
  /\ UNCHANGED <<withdrawalQueue, rewardQueue, paid>>

\* compareWithdrawals: stake withdrawals first, then rewards, equal in
\* count, index, type, address and amount to the local peek.
compareWithdrawalCounts(wq, rq, max, actual) ==   \* mutant: contents not compared
  Len(PayloadWithdrawals(wq, rq, max)) = Len(actual)

compareWithdrawals(wq, rq, max, actual) ==
  LET expected       == PeekEligible(wq, max)
      expectedReward == PeekEligible(rq, max - Len(expected))
  IN  /\ Len(expected) <= Len(actual)
      /\ Len(expected) + Len(expectedReward) = Len(actual)
      /\ \A i \in 1 .. Len(expected) : actual[i] = expected[i]
      /\ \A i \in 1 .. Len(expectedReward) :
           actual[Len(expected) + i] = expectedReward[i]

\* Any payload may be proposed; the one that a quorum accepts passed the
\* comparison.  A rejected one leads to another round.
ProcessProposal ==
  /\ phase = "process"
  /\ IF compareWithdrawals(withdrawalQueue, rewardQueue, MaxWithdrawalPerBlock, payload)
       THEN phase' = "finalize" /\ payload' = payload
       ELSE phase' = "propose" /\ payload' = << >>
  /\ UNCHANGED <<withdrawalQueue, rewardQueue, paid>>

\* A proposer that does not follow PrepareProposal: any sequence of
\* withdrawals that are queued or were credited before, up to one more than
\* the maximum.
Candidates ==
  LET All(q) == {PeekEligible(q, QueueLen(q))[i] : i \in 1 .. QueueLen(q)}
  IN  All(withdrawalQueue) \cup All(rewardQueue) \cup {paid[i] : i \in 1 .. Len(paid)}

OtherProposal ==
  /\ phase = "propose"
  /\ \E n \in 0 .. MaxWithdrawalPerBlock + 1 : \E p \in [1 .. n -> Candidates] : payload' = p
  /\ phase' = "process"
  /\ UNCHANGED <<withdrawalQueue, rewardQueue, paid>>

\* The length checks of the finalising ExecutionPayload.
DequeueMatches(wq, rq, max, actual) ==
  /\ Eligible(wq, max) <= Len(actual)
  /\ Eligible(wq, max) + Eligible(rq, RewardBudget(wq, max)) = Len(actual)

\* A failed check fails the transaction: its dequeues are rolled back and
\* the payload is not executed.
ExecutionPayload ==
  /\ phase = "finalize"
  /\ IF DequeueMatches(withdrawalQueue, rewardQueue, MaxWithdrawalPerBlock, payload)
       THEN /\ withdrawalQueue' = AfterDequeue(withdrawalQueue, MaxWithdrawalPerBlock)
            /\ rewardQueue' = AfterDequeue(rewardQueue, RewardBudget(withdrawalQueue, MaxWithdrawalPerBlock))
            /\ paid' = paid \o payload
       ELSE UNCHANGED <<withdrawalQueue, rewardQueue, paid>>
  /\ phase' = "endblock"
  /\ UNCHANGED payload

AddWithdrawalToQueue ==
  /\ phase = "endblock"
  /\ withdrawalQueue.rear < MaxEnqueued
  /\ \E w \in StakeWithdrawals : withdrawalQueue' = Enqueue(withdrawalQueue, w)
  /\ UNCHANGED <<rewardQueue, phase, payload, paid>>

AddRewardWithdrawalToQueue ==
  /\ phase = "endblock"
  /\ rewardQueue.rear < MaxEnqueued
  /\ \E w \in RewardWithdrawals : rewardQueue' = Enqueue(rewardQueue, w)
  /\ UNCHANGED <<withdrawalQueue, phase, payload, paid>>

CommitQueues ==
  /\ phase = "endblock"
  /\ phase' = "propose"
  /\ payload' = << >>
  /\ UNCHANGED <<withdrawalQueue, rewardQueue, paid>>

FlowNext ==
  \/ PrepareProposal \/ OtherProposal \/ ProcessProposal \/ ExecutionPayload
  \/ AddWithdrawalToQueue \/ AddRewardWithdrawalToQueue \/ CommitQueues

FlowSpec == FlowInit /\ [][FlowNext]_flowVars
-----------------------------------------------------------------------------
\* Both queues hold withdrawals of their own kind at consecutive indices.
FlowTypeOK ==
  /\ IsQueue(withdrawalQueue, StakeWithdrawals)
  /\ IsQueue(rewardQueue, RewardWithdrawals)
  /\ phase \in {"propose", "process", "finalize", "endblock"}
  /\ payload \in Seq(PayloadWithdrawal)
  /\ paid \in Seq(PayloadWithdrawal)

\* A payload that was accepted in ProcessProposal is what FinalizeBlock is
\* about to dequeue: the length checks of msg_server.go cannot fail, the
\* withdrawals credited are the ones removed from the queues, and the code's
\* loops over Get and Dequeue compute the closed forms of the model.
AcceptedPayloadDequeues ==
  phase = "finalize" =>
    LET max     == MaxWithdrawalPerBlock
        stake   == DequeueLoop(withdrawalQueue, max)
        left    == max - Len(stake.out)
        rewards == DequeueLoop(rewardQueue, left)
    IN  /\ payload = stake.out \o rewards.out
        /\ payload = PeekLoop(withdrawalQueue, max) \o PeekLoop(rewardQueue, left)
        /\ stake.queue = AfterDequeue(withdrawalQueue, max)
        /\ rewards.queue = AfterDequeue(rewardQueue, left)

\* The queued elements from front to rear, as a sequence.
Contents(q) == [i \in 1 .. QueueLen(q) |-> q.elements[q.front + (i - 1)]]

Fifo == INSTANCE PayoutFifo WITH
  Max    <- MaxWithdrawalPerBlock,
  stake  <- Contents(withdrawalQueue),
  reward <- Contents(rewardQueue),
  paid   <- [i \in 1 .. Len(paid) |-> paid[i].w]

\* The two index-keyed queues and the proposal protocol around them
\* implement the plain FIFOs: every block pays a maximal prefix, stake first.
RefinesFifo == Fifo!FifoSpec

=============================================================================
