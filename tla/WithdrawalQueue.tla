-------------------------- MODULE WithdrawalQueue --------------------------
(***************************************************************************)
(* The two queues of x/evmstaking (unstake and UBI withdrawals in one,     *)
(* reward withdrawals in the other) and the way one execution payload      *)
(* takes withdrawals from them: first the stake queue, up to the block's   *)
(* maximum, then the reward queue with what is left of that maximum.       *)
(* The proposer and the verifying validators peek; FinalizeBlock dequeues. *)
(***************************************************************************)
EXTENDS Queue, Integers, Sequences

\* How many elements a loop of at most max calls of Dequeue or Get visits
\* before it meets ErrEmptyQueue or ErrOutOfBoundsQueue.
Eligible(q, max) == IF QueueLen(q) < max THEN QueueLen(q) ELSE max

\* PeekEligible(Reward)Withdrawals: Get(0), Get(1), ... until out of bounds;
\* a withdrawal carries its index in the order of all ever enqueued.
PeekEligibleFromOne(q, max) ==   \* mutant: the index is one too high
  [i \in 1 .. Eligible(q, max) |-> [index |-> q.front + i, w |-> Get(q, i - 1)]]

PeekEligible(q, max) ==
  [i \in 1 .. Eligible(q, max) |->
     [index |-> q.front + (i - 1), w |-> Get(q, i - 1)]]

\* What DequeueEligible(Reward)Withdrawals leaves of the queue.
AfterDequeue(q, max) ==
  LET n == Eligible(q, max)
  IN  [front    |-> q.front + n,
       rear     |-> q.rear,
       elements |-> [k \in (q.front + n) .. (q.rear - 1) |-> q.elements[k]]]

\* AddWithdrawalToQueue or AddRewardWithdrawalToQueue for each element of s.
EnqueueAll(q, s) ==
  [front    |-> q.front,
   rear     |-> q.rear + Len(s),
   elements |-> [k \in q.front .. (q.rear + Len(s) - 1) |->
                   IF k < q.rear THEN q.elements[k] ELSE s[k - q.rear + 1]]]

\* The part of the block's maximum left for rewards.
RewardBudget(wq, max) == max - Eligible(wq, max)

\* The withdrawals of the payload built on a state with these queues.
PayloadWithdrawals(wq, rq, max) ==
  PeekEligible(wq, max) \o PeekEligible(rq, RewardBudget(wq, max))
-----------------------------------------------------------------------------
\* The loops as they are written, one Get or Dequeue call at a time.  That they
\* compute the closed forms above is part of
\* WithdrawalFlow!AcceptedPayloadDequeues.
DequeueLoop(q, max) ==
  LET step[i \in 0 .. max] ==
        IF i = 0 THEN [queue |-> q, out |-> << >>]
        ELSE LET s == step[i - 1]
             IN  IF IsEmpty(s.queue) THEN s
                 ELSE [queue |-> Dequeue(s.queue),
                       out   |-> Append(s.out, [index |-> q.front + (i - 1),
                                                w     |-> Get(s.queue, 0)])]
  IN  step[max]

PeekLoop(q, max) ==
  LET step[i \in 0 .. max] ==
        IF i = 0 THEN << >>
        ELSE IF ~InBounds(q, i - 1) THEN step[i - 1]
        ELSE Append(step[i - 1], [index |-> q.front + (i - 1), w |-> Get(q, i - 1)])
  IN  step[max]
=============================================================================
