---------------------------- MODULE QueueLemmas -----------------------------
(***************************************************************************)
(* What enqueuing, peeking and dequeuing do to the sequence of queued      *)
(* elements, for every element type and per-block maximum.                 *)
(***************************************************************************)
EXTENDS WithdrawalQueue, SequenceTheorems, TLAPS

\* A fresh queue is a queue.
LEMMA InitializeIsQueue ==
  ASSUME NEW T
  PROVE  IsQueue(Initialize, T) /\ Initialize.front = 0 /\ Initialize.rear = 0
BY DEF IsQueue, Initialize

\* A loop over Get or Dequeue visits every element or as many as allowed.
LEMMA EligibleBounds ==
  ASSUME NEW T, NEW q, IsQueue(q, T), NEW max \in Nat
  PROVE  /\ Eligible(q, max) \in Nat
         /\ Eligible(q, max) <= max
         /\ Eligible(q, max) <= QueueLen(q)
         /\ Eligible(q, max) = QueueLen(q) \/ Eligible(q, max) = max
         /\ QueueLen(q) \in Nat
BY DEF IsQueue, Eligible, QueueLen

\* Enqueuing a sequence (EndBlock's calls of AddWithdrawalToQueue in a row)
\* keeps the front, and stores the new elements from the old rear on.
LEMMA EnqueueAllQueue ==
  ASSUME NEW T, NEW q, IsQueue(q, T), NEW s \in Seq(T)
  PROVE  /\ IsQueue(EnqueueAll(q, s), T)
         /\ EnqueueAll(q, s).front = q.front
         /\ EnqueueAll(q, s).rear = q.rear + Len(s)
         /\ \A k \in q.front .. (q.rear + Len(s) - 1) :
              EnqueueAll(q, s).elements[k] =
                IF k < q.rear THEN q.elements[k] ELSE s[k - q.rear + 1]
<1> DEFINE e == EnqueueAll(q, s)
<1>1. Len(s) \in Nat /\ \A i \in 1 .. Len(s) : s[i] \in T
  OBVIOUS
<1>2. /\ e.front = q.front
      /\ e.rear = q.rear + Len(s)
      /\ e.elements = [k \in q.front .. (q.rear + Len(s) - 1) |->
                         IF k < q.rear THEN q.elements[k] ELSE s[k - q.rear + 1]]
      /\ e = [front |-> e.front, rear |-> e.rear, elements |-> e.elements]
  BY DEF EnqueueAll
<1>3. ASSUME NEW k \in q.front .. (q.rear + Len(s) - 1)
      PROVE  (IF k < q.rear THEN q.elements[k] ELSE s[k - q.rear + 1]) \in T
  <2>1. CASE k < q.rear
    BY <2>1, <1>3 DEF IsQueue
  <2>2. CASE ~(k < q.rear)
    <3>1. k - q.rear + 1 \in 1 .. Len(s)
      BY <2>2, <1>1, <1>3 DEF IsQueue
    <3>2. QED
      BY <3>1, <2>2, <1>1
  <2>3. QED
    BY <2>1, <2>2
<1>4. e.elements \in [q.front .. (q.rear + Len(s) - 1) -> T]
  BY <1>2, <1>3
<1>5. QED
  BY <1>1, <1>2, <1>4 DEF IsQueue

\* Dequeuing keeps the rear and the elements that were not visited.
LEMMA AfterDequeueQueue ==
  ASSUME NEW T, NEW q, IsQueue(q, T), NEW max \in Nat
  PROVE  /\ IsQueue(AfterDequeue(q, max), T)
         /\ AfterDequeue(q, max).front = q.front + Eligible(q, max)
         /\ AfterDequeue(q, max).rear = q.rear
         /\ \A k \in (q.front + Eligible(q, max)) .. (q.rear - 1) :
              AfterDequeue(q, max).elements[k] = q.elements[k]
<1> DEFINE n == Eligible(q, max)
<1>1. n \in Nat /\ n <= QueueLen(q)
  BY EligibleBounds
<1>2. /\ q.front \in Nat /\ q.rear \in Nat
      /\ q.elements \in [q.front .. (q.rear - 1) -> T]
      /\ q.front + n \in Nat /\ q.front + n <= q.rear
  BY <1>1 DEF QueueLen, IsQueue
<1> HIDE DEF n
<1>3. [k \in (q.front + n) .. (q.rear - 1) |-> q.elements[k]]
        \in [(q.front + n) .. (q.rear - 1) -> T]
  <2>1. \A k \in (q.front + n) .. (q.rear - 1) : k \in q.front .. (q.rear - 1)
    BY <1>1, <1>2
  <2>2. \A k \in (q.front + n) .. (q.rear - 1) : q.elements[k] \in T
    BY <2>1, <1>2
  <2>3. QED
    BY <2>2
<1>4. AfterDequeue(q, max) =
        [front    |-> q.front + n,
         rear     |-> q.rear,
         elements |-> [k \in (q.front + n) .. (q.rear - 1) |-> q.elements[k]]]
  BY DEF AfterDequeue, n
<1>5. QED
  BY <1>2, <1>3, <1>4 DEF IsQueue, n

\* Peeking returns the elements from the front, each with its index.
LEMMA PeekEligibleSeq ==
  ASSUME NEW T, NEW q, IsQueue(q, T), NEW max \in Nat
  PROVE  /\ PeekEligible(q, max) \in Seq([index : Nat, w : T])
         /\ Len(PeekEligible(q, max)) = Eligible(q, max)
         /\ \A i \in 1 .. Eligible(q, max) :
              PeekEligible(q, max)[i] = [index |-> q.front + (i - 1),
                                         w     |-> q.elements[q.front + (i - 1)]]
<1>0. Eligible(q, max) \in Nat /\ Eligible(q, max) <= QueueLen(q)
  BY EligibleBounds
<1>1. /\ Eligible(q, max) \in Nat
      /\ q.front + Eligible(q, max) <= q.rear
      /\ q.front \in Nat /\ q.rear \in Nat
  BY <1>0 DEF QueueLen, IsQueue
<1>2. ASSUME NEW i \in 1 .. Eligible(q, max)
      PROVE  [index |-> q.front + (i - 1), w |-> q.elements[q.front + (i - 1)]]
               \in [index : Nat, w : T]
  <2>1. q.front + (i - 1) \in q.front .. (q.rear - 1)
    BY <1>1
  <2>2. q.elements[q.front + (i - 1)] \in T
    BY <2>1 DEF IsQueue
  <2>3. QED
    BY <1>1, <2>2
<1>3. PeekEligible(q, max) =
        [i \in 1 .. Eligible(q, max) |->
           [index |-> q.front + (i - 1), w |-> q.elements[q.front + (i - 1)]]]
  BY DEF PeekEligible, Get
<1>4. PeekEligible(q, max) \in [1 .. Eligible(q, max) -> [index : Nat, w : T]]
  BY <1>2, <1>3
<1>5. PeekEligible(q, max) \in Seq([index : Nat, w : T])
  BY <1>0, <1>4, SeqDef, ZenonT(30)
<1>6. Len(PeekEligible(q, max)) = Eligible(q, max)
  BY <1>0, <1>4, <1>5, LenProperties
<1>7. QED
  BY <1>3, <1>5, <1>6, Zenon

\* The payload's withdrawals: stake withdrawals first, then rewards in what
\* the maximum leaves, never more than the maximum.
LEMMA PayloadWithdrawalsSeq ==
  ASSUME NEW T, NEW wq, NEW rq, IsQueue(wq, T), IsQueue(rq, T), NEW max \in Nat
  PROVE  /\ RewardBudget(wq, max) \in Nat
         /\ PayloadWithdrawals(wq, rq, max) \in Seq([index : Nat, w : T])
         /\ Len(PayloadWithdrawals(wq, rq, max))
              = Eligible(wq, max) + Eligible(rq, RewardBudget(wq, max))
         /\ Len(PayloadWithdrawals(wq, rq, max)) <= max
<1>1. RewardBudget(wq, max) \in Nat
  BY EligibleBounds DEF RewardBudget
<1> DEFINE ws == PeekEligible(wq, max)
           rs == PeekEligible(rq, RewardBudget(wq, max))
<1>2. ws \in Seq([index : Nat, w : T]) /\ Len(ws) = Eligible(wq, max)
  BY PeekEligibleSeq, Zenon
<1>3. rs \in Seq([index : Nat, w : T]) /\ Len(rs) = Eligible(rq, RewardBudget(wq, max))
  BY <1>1, PeekEligibleSeq, Zenon
<1>4. Eligible(wq, max) \in Nat
  BY EligibleBounds
<1>5. /\ Eligible(rq, RewardBudget(wq, max)) \in Nat
      /\ Eligible(rq, RewardBudget(wq, max)) <= RewardBudget(wq, max)
  BY <1>1, EligibleBounds
<1> HIDE DEF ws, rs
<1>6. ws \o rs \in Seq([index : Nat, w : T]) /\ Len(ws \o rs) = Len(ws) + Len(rs)
  BY <1>2, <1>3, ConcatProperties, Zenon
<1>7. PayloadWithdrawals(wq, rq, max) = ws \o rs
  BY DEF PayloadWithdrawals, ws, rs
<1>8. QED
  BY <1>1, <1>2, <1>3, <1>4, <1>5, <1>6, <1>7 DEF RewardBudget
=============================================================================
