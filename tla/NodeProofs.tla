----------------------------- MODULE NodeProofs -----------------------------
(***************************************************************************)
(* Safety of what a node has to itself.                                    *)
(*                                                                         *)
(* Its withdrawal queues, for every set of withdrawals and every per-block *)
(* maximum: with the proposal protocol around them they implement          *)
(* PayoutFifo, and an accepted payload is what the code's loops dequeue.   *)
(*                                                                         *)
(* Releases, for any number of upgrade names, any Terence height (also one *)
(* that is never reached) and chains of any length.                        *)
(*                                                                         *)
(* The home directory, for any number of keys, heights, commands, crashes  *)
(* and rollbacks: the sign state protects every key that signed while it   *)
(* was kept, init leaves a home that starts, and the heights of CometBFT   *)
(* and of the app stay in step.                                            *)
(***************************************************************************)
EXTENDS NodeHome, Upgrades, WithdrawalFlow, QueueLemmas, WellFoundedInduction

-----------------------------------------------------------------------------
(* Withdrawals.                                                            *)

\* What finalisation relies on: an accepted payload lists exactly what
\* PayloadWithdrawals gives on the queues as they are, since
\* compareWithdrawals establishes it and nothing is enqueued between
\* ProcessProposal and ExecutionPayload.
Accepted ==
  phase = "finalize" =>
    payload = PayloadWithdrawals(withdrawalQueue, rewardQueue, MaxWithdrawalPerBlock)

FlowInv == FlowTypeOK /\ Accepted

\* IsQueue is monotonic in the element type.
LEMMA IsQueueMonotonic ==
  ASSUME NEW S, NEW T, S \subseteq T, NEW q, IsQueue(q, S)
  PROVE  IsQueue(q, T)
BY DEF IsQueue

\* A payload equal to the local peek entry by entry is the local peek.
LEMMA ComparedPayload ==
  ASSUME NEW T, NEW wq, NEW rq, IsQueue(wq, T), IsQueue(rq, T), NEW max \in Nat,
         NEW actual \in Seq([index : Nat, w : T]),
         compareWithdrawals(wq, rq, max, actual)
  PROVE  actual = PayloadWithdrawals(wq, rq, max)
<1> DEFINE ws == PeekEligible(wq, max)
           rs == PeekEligible(rq, RewardBudget(wq, max))
           R  == [index : Nat, w : T]
<1>1. RewardBudget(wq, max) \in Nat
  BY PayloadWithdrawalsSeq, Zenon
<1>2. ws \in Seq(R) /\ Len(ws) = Eligible(wq, max)
  BY PeekEligibleSeq, Zenon
<1>3. rs \in Seq(R)
  BY <1>1, PeekEligibleSeq, Zenon
<1>4. PayloadWithdrawals(wq, rq, max) = ws \o rs
  BY DEF PayloadWithdrawals
<1>5. max - Len(ws) = RewardBudget(wq, max)
  BY <1>2 DEF RewardBudget
<1>6. /\ Len(actual) = Len(ws) + Len(rs)
      /\ \A i \in 1 .. Len(ws) : actual[i] = ws[i]
      /\ \A i \in 1 .. Len(rs) : actual[Len(ws) + i] = rs[i]
  BY <1>5 DEF compareWithdrawals
<1> HIDE DEF ws, rs, R
<1>7. /\ ws \o rs \in Seq(R)
      /\ Len(ws \o rs) = Len(ws) + Len(rs)
      /\ \A i \in 1 .. Len(ws) + Len(rs) :
           (ws \o rs)[i] = IF i <= Len(ws) THEN ws[i] ELSE rs[i - Len(ws)]
  BY <1>2, <1>3, ConcatProperties, Zenon
<1>8. Len(ws) \in Nat /\ Len(rs) \in Nat
  BY <1>2, <1>3, LenProperties
<1>9. \A i \in 1 .. Len(actual) : actual[i] = (ws \o rs)[i]
  <2> SUFFICES ASSUME NEW i \in 1 .. Len(actual)
               PROVE  actual[i] = (ws \o rs)[i]
    BY Zenon
  <2>1. CASE i <= Len(ws)
    BY <2>1, <1>6, <1>7, <1>8
  <2>2. CASE ~(i <= Len(ws))
    <3>1. i - Len(ws) \in 1 .. Len(rs) /\ i = Len(ws) + (i - Len(ws))
      BY <2>2, <1>6, <1>8
    <3>2. QED
      BY <3>1, <2>2, <1>6, <1>7, <1>8, Zenon
  <2>3. QED
    BY <2>1, <2>2, Zenon
<1>10. actual \in Seq(R)
  BY DEF R
<1>11. QED
  BY <1>4, <1>6, <1>7, <1>9, <1>10, SeqEqual, Zenon

\* One call of Enqueue keeps the queue well formed.
LEMMA EnqueueQueue ==
  ASSUME NEW T, NEW q, IsQueue(q, T), NEW x \in T
  PROVE  IsQueue(Enqueue(q, x), T)
<1> DEFINE e == Enqueue(q, x)
<1>1. /\ e.front = q.front
      /\ e.rear = q.rear + 1
      /\ e.elements = [k \in q.front .. q.rear |-> IF k = q.rear THEN x ELSE q.elements[k]]
      /\ e = [front |-> e.front, rear |-> e.rear, elements |-> e.elements]
  BY DEF Enqueue
<1>2. \A k \in q.front .. q.rear : (IF k = q.rear THEN x ELSE q.elements[k]) \in T
  BY DEF IsQueue
<1>3. e.elements \in [q.front .. q.rear -> T]
  BY <1>1, <1>2
<1>4. (q.rear + 1) - 1 = q.rear
  BY DEF IsQueue
<1>5. QED
  BY <1>1, <1>3, <1>4 DEF IsQueue
-----------------------------------------------------------------------------
\* The queued elements form a sequence.
LEMMA ContentsSeq ==
  ASSUME NEW T, NEW q, IsQueue(q, T)
  PROVE  /\ Contents(q) \in Seq(T)
         /\ Len(Contents(q)) = QueueLen(q)
         /\ QueueLen(q) \in Nat
         /\ \A i \in 1 .. QueueLen(q) : Contents(q)[i] = q.elements[q.front + (i - 1)]
<1>1. QueueLen(q) \in Nat
  BY DEF IsQueue, QueueLen
<1>2. ASSUME NEW i \in 1 .. QueueLen(q)
      PROVE  q.elements[q.front + (i - 1)] \in T
  <2>1. q.front + (i - 1) \in q.front .. (q.rear - 1)
    BY DEF IsQueue, QueueLen
  <2>2. QED
    BY <2>1 DEF IsQueue
<1>3. Contents(q) \in [1 .. QueueLen(q) -> T]
  BY <1>2 DEF Contents
<1>4. Contents(q) \in Seq(T)
  BY <1>1, <1>3, SeqDef
<1>5. Len(Contents(q)) = QueueLen(q)
  BY <1>1, <1>3, <1>4, LenProperties
<1>6. QED
  BY <1>1, <1>4, <1>5 DEF Contents

\* Enqueue appends to the queued elements.
LEMMA ContentsEnqueue ==
  ASSUME NEW T, NEW q, IsQueue(q, T), NEW x \in T
  PROVE  Contents(Enqueue(q, x)) = Append(Contents(q), x)
<1> DEFINE e == Enqueue(q, x)
           c == Contents(q)
           d == Contents(e)
           a == Append(c, x)
<1>1. IsQueue(e, T)
  BY EnqueueQueue
<1>2. /\ c \in Seq(T) /\ Len(c) = QueueLen(q) /\ QueueLen(q) \in Nat
      /\ \A i \in 1 .. QueueLen(q) : c[i] = q.elements[q.front + (i - 1)]
  BY ContentsSeq
<1>3. /\ d \in Seq(T) /\ Len(d) = QueueLen(e)
      /\ \A i \in 1 .. QueueLen(e) : d[i] = e.elements[e.front + (i - 1)]
  BY <1>1, ContentsSeq
<1>4. /\ q.front \in Nat /\ q.rear \in Nat /\ QueueLen(q) = q.rear - q.front
  BY DEF IsQueue, QueueLen
<1>5. /\ e.front = q.front
      /\ QueueLen(e) = QueueLen(q) + 1
      /\ \A k \in q.front .. q.rear :
           e.elements[k] = IF k = q.rear THEN x ELSE q.elements[k]
  BY <1>4 DEF Enqueue, QueueLen
<1> HIDE DEF e, c, d
<1>6. /\ a \in Seq(T) /\ Len(a) = Len(c) + 1
      /\ \A i \in 1 .. Len(c) : a[i] = c[i]
      /\ a[Len(c) + 1] = x
  BY <1>2, AppendProperties
<1> HIDE DEF a
<1>7. ASSUME NEW i \in 1 .. Len(d)
      PROVE  d[i] = a[i]
  <2>1. q.front + (i - 1) \in q.front .. q.rear
    BY <1>2, <1>3, <1>4, <1>5
  <2>2. d[i] = IF q.front + (i - 1) = q.rear THEN x ELSE q.elements[q.front + (i - 1)]
    BY <2>1, <1>3, <1>5
  <2>3. CASE i = Len(c) + 1
    BY <2>2, <2>3, <1>2, <1>4, <1>6
  <2>4. CASE i # Len(c) + 1
    <3>1. i \in 1 .. Len(c) /\ q.front + (i - 1) # q.rear
      BY <2>4, <1>2, <1>3, <1>4, <1>5
    <3>2. QED
      BY <3>1, <2>2, <1>2, <1>6
  <2>5. QED
    BY <2>3, <2>4
<1>8. d = a
  BY <1>2, <1>3, <1>5, <1>6, <1>7, SeqEqual
<1>9. QED
  BY <1>8 DEF a, c, d, e

\* Dequeuing removes a prefix of the queued elements.
LEMMA ContentsDequeue ==
  ASSUME NEW T, NEW q, IsQueue(q, T), NEW max \in Nat
  PROVE  Contents(AfterDequeue(q, max))
           = SubSeq(Contents(q), Eligible(q, max) + 1, Len(Contents(q)))
<1> DEFINE n == Eligible(q, max)
           e == AfterDequeue(q, max)
           c == Contents(q)
           d == Contents(e)
           s == SubSeq(c, n + 1, Len(c))
<1>0. n \in Nat /\ n <= QueueLen(q)
  BY EligibleBounds
<1>1. /\ IsQueue(e, T) /\ e.front = q.front + n /\ e.rear = q.rear
      /\ \A k \in (q.front + n) .. (q.rear - 1) : e.elements[k] = q.elements[k]
  BY AfterDequeueQueue
<1>2. /\ c \in Seq(T) /\ Len(c) = QueueLen(q) /\ QueueLen(q) \in Nat
      /\ \A i \in 1 .. QueueLen(q) : c[i] = q.elements[q.front + (i - 1)]
  BY ContentsSeq
<1> HIDE DEF e, n
<1>3. /\ d \in Seq(T) /\ Len(d) = QueueLen(e)
      /\ \A i \in 1 .. QueueLen(e) : d[i] = e.elements[e.front + (i - 1)]
  BY <1>1, ContentsSeq
<1>4. /\ q.front \in Nat /\ q.rear \in Nat /\ QueueLen(q) = q.rear - q.front
      /\ QueueLen(e) = QueueLen(q) - n
  BY <1>0, <1>1 DEF IsQueue, QueueLen
<1> HIDE DEF c, d
<1>5. /\ s \in Seq(T)
      /\ Len(s) = IF n + 1 <= Len(c) THEN Len(c) - (n + 1) + 1 ELSE 0
      /\ \A i \in 1 .. Len(c) - (n + 1) + 1 : s[i] = c[(n + 1) + i - 1]
  <2>1. \A i \in n + 1 .. Len(c) : c[i] \in T
    BY <1>0, <1>2
  <2>2. n + 1 \in Int /\ Len(c) \in Int
    BY <1>0, <1>2
  <2>3. QED
    BY <2>1, <2>2, SubSeqProperties
<1>6. Len(s) = Len(d)
  BY <1>0, <1>2, <1>3, <1>4, <1>5
<1> HIDE DEF s
<1>7. ASSUME NEW i \in 1 .. Len(d)
      PROVE  d[i] = s[i]
  <2>0. /\ i \in 1 .. (q.rear - q.front) - n
        /\ QueueLen(q) = q.rear - q.front
        /\ QueueLen(e) = (q.rear - q.front) - n
        /\ Len(c) = q.rear - q.front
    BY <1>2, <1>3, <1>4
  <2>1. /\ i \in 1 .. QueueLen(e)
        /\ q.front + n + (i - 1) \in (q.front + n) .. (q.rear - 1)
        /\ n + i \in 1 .. QueueLen(q)
        /\ i \in 1 .. Len(c) - (n + 1) + 1
        /\ (n + 1) + i - 1 = n + i
        /\ q.front + ((n + i) - 1) = q.front + n + (i - 1)
    <3> DEFINE f == q.front
               r == q.rear
    <3>1. /\ f \in Int /\ r \in Int /\ n \in Int /\ n >= 0 /\ i \in Int
          /\ i \in 1 .. (r - f) - n
          /\ QueueLen(q) = r - f /\ QueueLen(e) = (r - f) - n /\ Len(c) = r - f
      BY <1>0, <1>4, <2>0
    <3> HIDE DEF f, r
    <3>2. i \in 1 .. QueueLen(e) /\ n + i \in 1 .. QueueLen(q)
      BY <3>1
    <3>3. f + n + (i - 1) \in (f + n) .. (r - 1)
      BY <3>1
    <3>4. i \in 1 .. Len(c) - (n + 1) + 1
      BY <3>1
    <3>5. (n + 1) + i - 1 = n + i /\ f + ((n + i) - 1) = f + n + (i - 1)
      BY <3>1
    <3>6. QED
      BY <3>2, <3>3, <3>4, <3>5 DEF f, r
  <2>2. d[i] = q.elements[q.front + n + (i - 1)]
    BY <2>1, <1>1, <1>3
  <2>3. s[i] = q.elements[q.front + n + (i - 1)]
    BY <2>1, <1>2, <1>5
  <2>4. QED
    BY <2>2, <2>3
<1>8. d = s
  BY <1>3, <1>5, <1>6, <1>7, SeqEqual
<1>9. QED
  BY <1>8 DEF s, d, e, c, n

\* A function on 1..n is a sequence of length n.
LEMMA FunctionIsSeq ==
  ASSUME NEW T, NEW n \in Nat, NEW f \in [1 .. n -> T]
  PROVE  f \in Seq(T) /\ Len(f) = n
<1>1. f \in Seq(T)
  BY SeqDef
<1>2. QED
  BY <1>1, LenProperties

\* The withdrawals of a payload without their indices.
Bodies(s) == [i \in 1 .. Len(s) |-> s[i].w]

\* They are a sequence of the same length.
LEMMA BodiesSeq ==
  ASSUME NEW T, NEW s \in Seq([index : Nat, w : T])
  PROVE  /\ Bodies(s) \in Seq(T)
         /\ Len(Bodies(s)) = Len(s)
         /\ \A i \in 1 .. Len(s) : Bodies(s)[i] = s[i].w
<1>1. Len(s) \in Nat /\ \A i \in 1 .. Len(s) : s[i] \in [index : Nat, w : T]
  BY LenProperties, Zenon
<1>2. \A i \in 1 .. Len(s) : s[i].w \in T
  BY <1>1
<1>3. Bodies(s) \in [1 .. Len(s) -> T]
  BY <1>2 DEF Bodies
<1>4. Bodies(s) \in Seq(T) /\ Len(Bodies(s)) = Len(s)
  BY <1>1, <1>3, FunctionIsSeq
<1>5. QED
  BY <1>4 DEF Bodies

\* Dropping the indices commutes with concatenation.
LEMMA BodiesConcat ==
  ASSUME NEW T, NEW s \in Seq([index : Nat, w : T]), NEW t \in Seq([index : Nat, w : T])
  PROVE  Bodies(s \o t) = Bodies(s) \o Bodies(t)
<1> DEFINE R == [index : Nat, w : T]
           u == s \o t
           a == Bodies(s)
           b == Bodies(t)
           c == Bodies(u)
           d == a \o b
<1>1. /\ u \in Seq(R) /\ Len(u) = Len(s) + Len(t)
      /\ \A i \in 1 .. Len(s) + Len(t) : u[i] = IF i <= Len(s) THEN s[i] ELSE t[i - Len(s)]
  BY ConcatProperties
<1>2. Len(s) \in Nat /\ Len(t) \in Nat
  BY LenProperties
<1>3. /\ a \in Seq(T) /\ Len(a) = Len(s) /\ \A i \in 1 .. Len(s) : a[i] = s[i].w
      /\ b \in Seq(T) /\ Len(b) = Len(t) /\ \A i \in 1 .. Len(t) : b[i] = t[i].w
  BY BodiesSeq, Zenon
<1> HIDE DEF u
<1>4. c \in Seq(T) /\ Len(c) = Len(u) /\ \A i \in 1 .. Len(u) : c[i] = u[i].w
  BY <1>1, BodiesSeq, Zenon
<1> HIDE DEF a, b, c
<1>5. /\ d \in Seq(T) /\ Len(d) = Len(a) + Len(b)
      /\ \A i \in 1 .. Len(a) + Len(b) : d[i] = IF i <= Len(a) THEN a[i] ELSE b[i - Len(a)]
  <2>1. a \in Seq(T) /\ b \in Seq(T)
    BY <1>3
  <2>2. QED
    BY <2>1, ConcatProperties, Zenon
<1> HIDE DEF d
<1>6. ASSUME NEW i \in 1 .. Len(c)
      PROVE  c[i] = d[i]
  <2>0. i \in 1 .. Len(s) + Len(t) /\ c[i] = u[i].w
    BY <1>1, <1>4
  <2>1. CASE i <= Len(s)
    <3>1. i \in 1 .. Len(s)
      BY <2>0, <2>1, <1>2
    <3>2. u[i] = s[i] /\ a[i] = s[i].w
      BY <3>1, <2>0, <2>1, <1>1, <1>3
    <3>3. d[i] = a[i]
      BY <2>0, <2>1, <1>3, <1>5
    <3>4. QED
      BY <2>0, <3>2, <3>3
  <2>2. CASE ~(i <= Len(s))
    <3>1. i - Len(s) \in 1 .. Len(t)
      BY <2>0, <2>2, <1>2
    <3>2. u[i] = t[i - Len(s)] /\ b[i - Len(s)] = t[i - Len(s)].w
      BY <3>1, <2>0, <2>2, <1>1, <1>3, Zenon
    <3>3. d[i] = b[i - Len(s)]
      BY <2>0, <2>2, <1>3, <1>5, Zenon
    <3>4. QED
      BY <2>0, <3>2, <3>3
  <2>3. QED
    BY <2>1, <2>2
<1>7. c = d
  BY <1>1, <1>3, <1>4, <1>5, <1>6, SeqEqual
<1>8. QED
  BY <1>7 DEF a, b, c, d, u

\* Peeking shows a prefix of the queued elements.
LEMMA PeekBodies ==
  ASSUME NEW T, NEW q, IsQueue(q, T), NEW max \in Nat
  PROVE  Bodies(PeekEligible(q, max)) = SubSeq(Contents(q), 1, Eligible(q, max))
<1> DEFINE n == Eligible(q, max)
           c == Contents(q)
           k == PeekEligible(q, max)
           b == Bodies(k)
           s == SubSeq(c, 1, n)
<1>1. n \in Nat /\ n <= QueueLen(q)
  BY EligibleBounds
<1>2. /\ c \in Seq(T) /\ Len(c) = QueueLen(q) /\ QueueLen(q) \in Nat
      /\ \A i \in 1 .. QueueLen(q) : c[i] = q.elements[q.front + (i - 1)]
  BY ContentsSeq
<1>3. /\ k \in Seq([index : Nat, w : T]) /\ Len(k) = n
      /\ \A i \in 1 .. n : k[i] = [index |-> q.front + (i - 1),
                                  w     |-> q.elements[q.front + (i - 1)]]
  BY PeekEligibleSeq, Zenon
<1> HIDE DEF n, c, k
<1>4. b \in Seq(T) /\ Len(b) = n /\ \A i \in 1 .. n : b[i] = k[i].w
  BY <1>3, BodiesSeq, Zenon
<1>5. /\ s \in Seq(T)
      /\ Len(s) = IF 1 <= n THEN n - 1 + 1 ELSE 0
      /\ \A i \in 1 .. n - 1 + 1 : s[i] = c[1 + i - 1]
  <2>1. \A i \in 1 .. n : c[i] \in T
    BY <1>1, <1>2
  <2>2. QED
    BY <1>1, <2>1, SubSeqProperties
<1> HIDE DEF b, s
<1>6. ASSUME NEW i \in 1 .. Len(b)
      PROVE  b[i] = s[i]
  <2>1. /\ i \in 1 .. n /\ i \in 1 .. QueueLen(q)
        /\ i \in 1 .. n - 1 + 1 /\ 1 + i - 1 = i
    BY <1>1, <1>2, <1>4
  <2>2. b[i] = q.elements[q.front + (i - 1)]
    BY <2>1, <1>3, <1>4
  <2>3. s[i] = q.elements[q.front + (i - 1)]
    BY <2>1, <1>2, <1>5
  <2>4. QED
    BY <2>2, <2>3
<1>7. Len(b) = Len(s)
  BY <1>1, <1>4, <1>5
<1>8. b = s
  BY <1>4, <1>5, <1>6, <1>7, SeqEqual
<1>9. QED
  BY <1>8 DEF b, s, n, c, k
-----------------------------------------------------------------------------
\* Under FlowTypeOK the queue lemmas apply to both queues at the common type.
LEMMA QueuesTyped ==
  ASSUME FlowTypeOK
  PROVE  /\ IsQueue(withdrawalQueue, Withdrawals)
         /\ IsQueue(rewardQueue, Withdrawals)
         /\ MaxWithdrawalPerBlock \in Nat
         /\ RewardBudget(withdrawalQueue, MaxWithdrawalPerBlock) \in Nat
         /\ PayloadWithdrawals(withdrawalQueue, rewardQueue, MaxWithdrawalPerBlock)
              \in Seq(PayloadWithdrawal)
<1>1. IsQueue(withdrawalQueue, StakeWithdrawals) /\ IsQueue(rewardQueue, RewardWithdrawals)
  BY DEF FlowTypeOK
<1>2. StakeWithdrawals \subseteq Withdrawals /\ RewardWithdrawals \subseteq Withdrawals
  BY DEF Withdrawals
<1>3. IsQueue(withdrawalQueue, Withdrawals) /\ IsQueue(rewardQueue, Withdrawals)
  BY <1>1, <1>2, IsQueueMonotonic
<1>4. MaxWithdrawalPerBlock \in Nat
  BY MaxWithdrawalAssumption
<1>5. QED
  BY <1>3, <1>4, PayloadWithdrawalsSeq DEF PayloadWithdrawal

\* The withdrawals another proposer can list are well typed.
LEMMA CandidatesTyped ==
  ASSUME FlowTypeOK
  PROVE  Candidates \subseteq PayloadWithdrawal
<1>1. ASSUME NEW q, IsQueue(q, Withdrawals)
      PROVE  {PeekEligible(q, QueueLen(q))[i] : i \in 1 .. QueueLen(q)} \subseteq PayloadWithdrawal
  <2>1. QueueLen(q) \in Nat /\ Eligible(q, QueueLen(q)) = QueueLen(q)
    BY <1>1 DEF IsQueue, QueueLen, Eligible
  <2>2. /\ PeekEligible(q, QueueLen(q)) \in Seq([index : Nat, w : Withdrawals])
        /\ Len(PeekEligible(q, QueueLen(q))) = QueueLen(q)
    BY <1>1, <2>1, PeekEligibleSeq, Zenon
  <2>3. \A i \in 1 .. QueueLen(q) : PeekEligible(q, QueueLen(q))[i] \in PayloadWithdrawal
    BY <2>2, LenProperties, Zenon DEF PayloadWithdrawal
  <2>4. QED
    BY <2>3
<1>2. {paid[i] : i \in 1 .. Len(paid)} \subseteq PayloadWithdrawal
  BY LenProperties DEF FlowTypeOK
<1>3. IsQueue(withdrawalQueue, Withdrawals) /\ IsQueue(rewardQueue, Withdrawals)
  BY QueuesTyped
<1>4. QED
  BY <1>1, <1>2, <1>3 DEF Candidates

\* The inductive invariant holds of a chain whose queues were just created.
LEMMA FlowStart == FlowInit => FlowInv
<1> SUFFICES ASSUME FlowInit PROVE FlowInv
  OBVIOUS
<1>1. IsQueue(withdrawalQueue, StakeWithdrawals) /\ IsQueue(rewardQueue, RewardWithdrawals)
  BY InitializeIsQueue DEF FlowInit
<1>2. QED
  BY <1>1 DEF FlowInit, FlowInv, FlowTypeOK, Accepted

\* Every step of the block cycle preserves the inductive invariant.
LEMMA FlowSteps == FlowInv /\ [FlowNext]_flowVars => FlowInv'
<1> SUFFICES ASSUME FlowInv, [FlowNext]_flowVars PROVE FlowInv'
  OBVIOUS
<1>0. FlowTypeOK
  BY DEF FlowInv
<1>1. CASE PrepareProposal
  <2>1. payload' \in Seq(PayloadWithdrawal)
    BY <1>0, <1>1, QueuesTyped DEF PrepareProposal
  <2>2. QED
    BY <1>0, <1>1, <2>1 DEF PrepareProposal, FlowInv, FlowTypeOK, Accepted
<1>2. CASE OtherProposal
  <2>1. PICK n \in 0 .. MaxWithdrawalPerBlock + 1 : payload' \in [1 .. n -> Candidates]
    BY <1>2 DEF OtherProposal
  <2>2. payload' \in [1 .. n -> PayloadWithdrawal]
    BY <1>0, <2>1, CandidatesTyped
  <2>3. n \in Nat
    BY <2>1, MaxWithdrawalAssumption
  <2>4. payload' \in Seq(PayloadWithdrawal)
    BY <2>2, <2>3, FunctionIsSeq
  <2>5. QED
    BY <1>0, <1>2, <2>4 DEF OtherProposal, FlowInv, FlowTypeOK, Accepted
<1>3. CASE ProcessProposal
  <2>1. CASE compareWithdrawals(withdrawalQueue, rewardQueue, MaxWithdrawalPerBlock, payload)
    <3>1. payload \in Seq([index : Nat, w : Withdrawals])
      BY <1>0 DEF FlowTypeOK, PayloadWithdrawal
    <3>2. payload = PayloadWithdrawals(withdrawalQueue, rewardQueue, MaxWithdrawalPerBlock)
      BY <1>0, <2>1, <3>1, QueuesTyped, ComparedPayload
    <3>3. QED
      BY <1>0, <1>3, <2>1, <3>2 DEF ProcessProposal, FlowInv, FlowTypeOK, Accepted
  <2>2. CASE ~compareWithdrawals(withdrawalQueue, rewardQueue, MaxWithdrawalPerBlock, payload)
    <3>1. << >> \in Seq(PayloadWithdrawal)
      BY EmptySeq
    <3>2. QED
      BY <1>0, <1>3, <2>2, <3>1 DEF ProcessProposal, FlowInv, FlowTypeOK, Accepted
  <2>3. QED
    BY <2>1, <2>2
<1>4. CASE ExecutionPayload
  <2> DEFINE max == MaxWithdrawalPerBlock
             budget == RewardBudget(withdrawalQueue, max)
  <2>1. /\ IsQueue(AfterDequeue(withdrawalQueue, max), StakeWithdrawals)
        /\ IsQueue(AfterDequeue(rewardQueue, budget), RewardWithdrawals)
    <3>1. IsQueue(withdrawalQueue, StakeWithdrawals) /\ IsQueue(rewardQueue, RewardWithdrawals)
      BY <1>0 DEF FlowTypeOK
    <3>2. QED
      BY <1>0, <3>1, QueuesTyped, AfterDequeueQueue
  <2>2. paid \o payload \in Seq(PayloadWithdrawal)
    BY <1>0, ConcatProperties DEF FlowTypeOK
  <2>3. QED
    BY <1>0, <1>4, <2>1, <2>2, Zenon DEF ExecutionPayload, FlowInv, FlowTypeOK, Accepted
<1>5. CASE AddWithdrawalToQueue
  <2>1. PICK w \in StakeWithdrawals : withdrawalQueue' = Enqueue(withdrawalQueue, w)
    BY <1>5 DEF AddWithdrawalToQueue
  <2>2. IsQueue(withdrawalQueue, StakeWithdrawals)
    BY <1>0 DEF FlowTypeOK
  <2>3. IsQueue(withdrawalQueue', StakeWithdrawals)
    BY <2>1, <2>2, EnqueueQueue
  <2>4. QED
    BY <1>0, <1>5, <2>3 DEF AddWithdrawalToQueue, FlowInv, FlowTypeOK, Accepted
<1>6. CASE AddRewardWithdrawalToQueue
  <2>1. PICK w \in RewardWithdrawals : rewardQueue' = Enqueue(rewardQueue, w)
    BY <1>6 DEF AddRewardWithdrawalToQueue
  <2>2. IsQueue(rewardQueue, RewardWithdrawals)
    BY <1>0 DEF FlowTypeOK
  <2>3. IsQueue(rewardQueue', RewardWithdrawals)
    BY <2>1, <2>2, EnqueueQueue
  <2>4. QED
    BY <1>0, <1>6, <2>3 DEF AddRewardWithdrawalToQueue, FlowInv, FlowTypeOK, Accepted
<1>7. CASE CommitQueues
  <2>1. << >> \in Seq(PayloadWithdrawal)
    BY EmptySeq
  <2>2. QED
    BY <1>0, <1>7, <2>1 DEF CommitQueues, FlowInv, FlowTypeOK, Accepted
<1>8. CASE UNCHANGED flowVars
  BY <1>8 DEF flowVars, FlowInv, FlowTypeOK, Accepted
<1>9. QED
  BY <1>1, <1>2, <1>3, <1>4, <1>5, <1>6, <1>7, <1>8 DEF FlowNext

\* Type correctness of the block cycle of the withdrawal queues: whatever is
\* proposed, the queues keep withdrawals of their own kind at consecutive
\* indices between front and rear.
THEOREM FlowTypeCorrect == FlowSpec => []FlowTypeOK
<1>1. FlowInv => FlowTypeOK
  BY DEF FlowInv
<1>2. QED
  BY <1>1, FlowStart, FlowSteps, PTL DEF FlowSpec
-----------------------------------------------------------------------------
\* The freshly created queues are the empty FIFOs.
LEMMA InitRefines == FlowInit => Fifo!FifoInit
<1> SUFFICES ASSUME FlowInit PROVE Fifo!FifoInit
  OBVIOUS
<1>1. Contents(Initialize) = << >>
  <2>1. IsQueue(Initialize, {}) /\ QueueLen(Initialize) = 0
    BY InitializeIsQueue DEF QueueLen
  <2>2. Contents(Initialize) \in Seq({}) /\ Len(Contents(Initialize)) = 0
    BY <2>1, ContentsSeq
  <2>3. QED
    BY <2>2, EmptySeq
<1>2. [i \in 1 .. Len(paid) |-> paid[i].w] = << >>
  <2>1. paid \in Seq([index : Nat, w : Withdrawals]) /\ Len(paid) = 0
    BY EmptySeq DEF FlowInit
  <2>2. Bodies(paid) \in Seq(Withdrawals) /\ Len(Bodies(paid)) = 0
    BY <2>1, BodiesSeq, Zenon
  <2>3. QED
    BY <2>2, EmptySeq DEF Bodies
<1>3. QED
  BY <1>1, <1>2 DEF FlowInit, Fifo!FifoInit

\* Finalising an accepted payload is one payout of the abstract FIFOs.
LEMMA ExecutionPayloadRefines ==
  ASSUME FlowInv, ExecutionPayload
  PROVE  Fifo!Pay
<1> DEFINE max    == MaxWithdrawalPerBlock
           budget == RewardBudget(withdrawalQueue, max)
           n      == Eligible(withdrawalQueue, max)
           m      == Eligible(rewardQueue, budget)
           cw     == Contents(withdrawalQueue)
           cr     == Contents(rewardQueue)
<1>1. /\ IsQueue(withdrawalQueue, Withdrawals) /\ IsQueue(rewardQueue, Withdrawals)
      /\ max \in Nat /\ budget \in Nat
  BY QueuesTyped DEF FlowInv
<1>2. /\ n \in Nat /\ n <= max /\ n <= QueueLen(withdrawalQueue)
      /\ n = QueueLen(withdrawalQueue) \/ n = max
  BY <1>1, EligibleBounds
<1>3. /\ m \in Nat /\ m <= budget /\ m <= QueueLen(rewardQueue)
      /\ m = QueueLen(rewardQueue) \/ m = budget
  BY <1>1, EligibleBounds
<1>4. /\ Len(cw) = QueueLen(withdrawalQueue) /\ Len(cr) = QueueLen(rewardQueue)
      /\ QueueLen(withdrawalQueue) \in Nat /\ QueueLen(rewardQueue) \in Nat
      /\ cw \in Seq(Withdrawals) /\ cr \in Seq(Withdrawals)
  BY <1>1, ContentsSeq
<1>5. budget = max - n
  BY DEF RewardBudget
<1>6. /\ payload = PayloadWithdrawals(withdrawalQueue, rewardQueue, max)
      /\ Len(payload) = n + m
  <2>1. payload = PayloadWithdrawals(withdrawalQueue, rewardQueue, max)
    BY DEF FlowInv, Accepted, ExecutionPayload
  <2>2. Len(PayloadWithdrawals(withdrawalQueue, rewardQueue, max)) = n + m
    <3> DEFINE ws == PeekEligible(withdrawalQueue, max)
               rs == PeekEligible(rewardQueue, budget)
    <3>1. ws \in Seq(PayloadWithdrawal) /\ Len(ws) = n
      BY <1>1, PeekEligibleSeq, Zenon DEF PayloadWithdrawal
    <3>2. rs \in Seq(PayloadWithdrawal) /\ Len(rs) = m
      BY <1>1, PeekEligibleSeq, Zenon DEF PayloadWithdrawal
    <3>3. PayloadWithdrawals(withdrawalQueue, rewardQueue, max) = ws \o rs
      BY DEF PayloadWithdrawals
    <3> HIDE DEF ws, rs, n, m
    <3>4. QED
      BY <3>1, <3>2, <3>3, ConcatProperties, Zenon
  <2>3. QED
    BY <2>1, <2>2
<1>7. /\ withdrawalQueue' = AfterDequeue(withdrawalQueue, max)
      /\ rewardQueue' = AfterDequeue(rewardQueue, budget)
      /\ paid' = paid \o payload
  <2>1. DequeueMatches(withdrawalQueue, rewardQueue, max, payload)
    BY <1>2, <1>3, <1>6 DEF DequeueMatches
  <2>2. QED
    BY <2>1 DEF ExecutionPayload
<1>8. /\ Contents(withdrawalQueue') = SubSeq(cw, n + 1, Len(cw))
      /\ Contents(rewardQueue') = SubSeq(cr, m + 1, Len(cr))
  BY <1>1, <1>7, ContentsDequeue
<1>9. Bodies(paid') = Bodies(paid) \o SubSeq(cw, 1, n) \o SubSeq(cr, 1, m)
  <2> DEFINE ws == PeekEligible(withdrawalQueue, max)
             rs == PeekEligible(rewardQueue, budget)
  <2>1. ws \in Seq(PayloadWithdrawal) /\ rs \in Seq(PayloadWithdrawal)
    BY <1>1, PeekEligibleSeq, Zenon DEF PayloadWithdrawal
  <2>2. payload = ws \o rs
    BY <1>6 DEF PayloadWithdrawals
  <2>3. Bodies(ws) = SubSeq(cw, 1, n) /\ Bodies(rs) = SubSeq(cr, 1, m)
    BY <1>1, PeekBodies
  <2>4. paid \in Seq(PayloadWithdrawal)
    BY DEF FlowInv, FlowTypeOK
  <2> HIDE DEF ws, rs
  <2>5. paid' = (paid \o ws) \o rs /\ paid \o ws \in Seq(PayloadWithdrawal)
    <3>1. paid' = paid \o (ws \o rs)
      BY <1>7, <2>2, Zenon
    <3>2. paid \o (ws \o rs) = (paid \o ws) \o rs
      BY <2>1, <2>4, ConcatAssociative
    <3>3. paid \o ws \in Seq(PayloadWithdrawal)
      BY <2>1, <2>4, ConcatProperties, Zenon
    <3> QED  BY <3>1, <3>2, <3>3, Zenon
  <2>6. /\ Bodies((paid \o ws) \o rs) = Bodies(paid \o ws) \o Bodies(rs)
        /\ Bodies(paid \o ws) = Bodies(paid) \o Bodies(ws)
    BY <2>1, <2>4, <2>5, BodiesConcat, Zenon DEF PayloadWithdrawal
  <2>7. QED
    BY <2>3, <2>5, <2>6
<1> HIDE DEF n, m, cw, cr, budget
<1>10. /\ n \in 0 .. Len(cw) /\ m \in 0 .. Len(cr)
       /\ n <= max
       /\ n = Len(cw) \/ n = max
       /\ m <= max - n
       /\ m = Len(cr) \/ m = max - n
  BY <1>2, <1>3, <1>4, <1>5
<1>11. QED
  <2>1. Fifo!Takes(n, cw, max) /\ Fifo!Takes(m, cr, max - n)
    BY <1>10 DEF Fifo!Takes
  <2>2. /\ [i \in 1 .. Len(paid') |-> paid'[i].w] = Bodies(paid')
        /\ [i \in 1 .. Len(paid) |-> paid[i].w] = Bodies(paid)
    BY DEF Bodies
  <2>3. QED
    BY <1>8, <1>9, <1>10, <2>1, <2>2, Zenon DEF Fifo!Pay, cw, cr

\* Every step of the block cycle is a step of the abstract FIFOs or changes
\* nothing they show.
LEMMA NextRefines == FlowInv /\ [FlowNext]_flowVars => [Fifo!FifoNext]_(Fifo!fifoVars)
<1> SUFFICES ASSUME FlowInv, [FlowNext]_flowVars PROVE [Fifo!FifoNext]_(Fifo!fifoVars)
  OBVIOUS
<1>1. ASSUME UNCHANGED <<withdrawalQueue, rewardQueue, paid>>
      PROVE  UNCHANGED Fifo!fifoVars
  BY <1>1 DEF Fifo!fifoVars
<1>2. CASE PrepareProposal \/ OtherProposal \/ ProcessProposal \/ CommitQueues \/ UNCHANGED flowVars
  BY <1>1, <1>2 DEF PrepareProposal, OtherProposal, ProcessProposal, CommitQueues, flowVars
<1>3. CASE ExecutionPayload
  BY <1>3, ExecutionPayloadRefines DEF Fifo!FifoNext
<1>4. CASE AddWithdrawalToQueue
  <2>1. PICK w \in StakeWithdrawals : withdrawalQueue' = Enqueue(withdrawalQueue, w)
    BY <1>4 DEF AddWithdrawalToQueue
  <2>2. IsQueue(withdrawalQueue, StakeWithdrawals)
    BY DEF FlowInv, FlowTypeOK
  <2>3. Contents(withdrawalQueue') = Append(Contents(withdrawalQueue), w)
    BY <2>1, <2>2, ContentsEnqueue
  <2>4. QED
    BY <1>4, <2>3 DEF AddWithdrawalToQueue, Fifo!FifoNext, Fifo!PutStake
<1>5. CASE AddRewardWithdrawalToQueue
  <2>1. PICK w \in RewardWithdrawals : rewardQueue' = Enqueue(rewardQueue, w)
    BY <1>5 DEF AddRewardWithdrawalToQueue
  <2>2. IsQueue(rewardQueue, RewardWithdrawals)
    BY DEF FlowInv, FlowTypeOK
  <2>3. Contents(rewardQueue') = Append(Contents(rewardQueue), w)
    BY <2>1, <2>2, ContentsEnqueue
  <2>4. QED
    BY <1>5, <2>3 DEF AddRewardWithdrawalToQueue, Fifo!FifoNext, Fifo!PutReward
<1>6. QED
  BY <1>2, <1>3, <1>4, <1>5 DEF FlowNext

\* The withdrawal queues implement the two plain FIFOs: whatever any
\* proposer lists, every block that is finalised credits, in the order of
\* their enqueuing, as many stake withdrawals as the maximum allows and as
\* many rewards as it leaves room for, none twice and none skipped.
THEOREM Refinement == FlowSpec => RefinesFifo
<1>1. FlowSpec => []FlowInv
  BY FlowStart, FlowSteps, PTL DEF FlowSpec
<1>2. QED
  BY <1>1, InitRefines, NextRefines, PTL DEF FlowSpec, RefinesFifo, Fifo!FifoSpec
-----------------------------------------------------------------------------
\* One more Dequeue, and one more withdrawal taken, of a queue that the loop has
\* not emptied.
LEMMA DequeueOne ==
  ASSUME NEW T, NEW q, IsQueue(q, T), NEW i \in Nat, ~IsEmpty(AfterDequeue(q, i))
  PROVE  /\ Dequeue(AfterDequeue(q, i)) = AfterDequeue(q, i + 1)
         /\ Append(PeekEligible(q, i), [index |-> q.front + i, w |-> Get(AfterDequeue(q, i), 0)])
              = PeekEligible(q, i + 1)
<1> DEFINE a == AfterDequeue(q, i)
           n == QueueLen(q)
<1>1. /\ IsQueue(a, T) /\ a.front = q.front + Eligible(q, i) /\ a.rear = q.rear
      /\ \A k \in (q.front + Eligible(q, i)) .. (q.rear - 1) : a.elements[k] = q.elements[k]
  BY AfterDequeueQueue
<1>2. n \in Nat /\ q.front \in Nat /\ q.rear \in Nat /\ n = q.rear - q.front
  BY DEF IsQueue, QueueLen
<1>3. QueueLen(a) # 0 /\ QueueLen(a) = n - Eligible(q, i)
  BY <1>1, <1>2, EligibleBounds DEF IsEmpty, QueueLen
<1>4. i < n /\ Eligible(q, i) = i /\ Eligible(q, i + 1) = i + 1
  BY <1>2, <1>3 DEF Eligible
<1>5. Dequeue(a) = AfterDequeue(q, i + 1)
  <2>1. Dequeue(a) = [front |-> q.front + (i + 1), rear |-> q.rear,
              elements |-> [k \in (q.front + (i + 1)) .. (q.rear - 1) |-> a.elements[k]]]
    <3>1. a.front + 1 = q.front + (i + 1) /\ a.rear = q.rear
      BY <1>1, <1>2, <1>4
    <3> HIDE DEF a
    <3> QED  BY <3>1, Zenon DEF Dequeue
  <2>2. \A k \in (q.front + (i + 1)) .. (q.rear - 1) : a.elements[k] = q.elements[k]
    BY <1>1, <1>2, <1>4
  <2>3. AfterDequeue(q, i + 1) = [front |-> q.front + (i + 1), rear |-> q.rear,
              elements |-> [k \in (q.front + (i + 1)) .. (q.rear - 1) |-> q.elements[k]]]
    BY <1>4, Zenon DEF AfterDequeue
  <2>4. [k \in (q.front + (i + 1)) .. (q.rear - 1) |-> a.elements[k]]
          = [k \in (q.front + (i + 1)) .. (q.rear - 1) |-> q.elements[k]]
    BY <2>2
  <2> QED  BY <2>1, <2>3, <2>4, Zenon
<1>6. Append(PeekEligible(q, i), [index |-> q.front + i, w |-> Get(a, 0)])
        = PeekEligible(q, i + 1)
  <2> DEFINE x == [index |-> q.front + i, w |-> q.elements[q.front + i]]
             W == [index : Nat, w : T]
             s == PeekEligible(q, i)
             t == PeekEligible(q, i + 1)
  <2>1. Get(a, 0) = q.elements[q.front + i]
    BY <1>1, <1>2, <1>4 DEF Get
  <2>2. q.elements[q.front + i] \in T
    BY <1>2, <1>4 DEF IsQueue
  <2>3. x \in W
    BY <1>2, <2>2
  <2>4. /\ s \in Seq(W) /\ Len(s) = i
        /\ \A j \in 1 .. i : s[j] = [index |-> q.front + (j - 1), w |-> q.elements[q.front + (j - 1)]]
    BY <1>4, PeekEligibleSeq, Zenon
  <2>5. /\ t \in Seq(W) /\ Len(t) = i + 1
        /\ \A j \in 1 .. i + 1 :
             t[j] = [index |-> q.front + (j - 1), w |-> q.elements[q.front + (j - 1)]]
    <3>1. /\ t \in Seq(W) /\ Len(t) = Eligible(q, i + 1)
          /\ \A j \in 1 .. Eligible(q, i + 1) :
               t[j] = [index |-> q.front + (j - 1), w |-> q.elements[q.front + (j - 1)]]
      <4>1. i + 1 \in Nat
        OBVIOUS
      <4> QED  BY <4>1, PeekEligibleSeq, Zenon
    <3> QED  BY <1>4, <3>1, Zenon
  <2>6. t[i + 1] = x
    <3>1. i + 1 \in 1 .. i + 1 /\ (i + 1) - 1 = i
      OBVIOUS
    <3> QED  BY <2>5, <3>1
  <2> HIDE DEF x, W, s, t
  <2>7. /\ Append(s, x) \in Seq(W) /\ Len(Append(s, x)) = i + 1
        /\ \A j \in 1 .. i : Append(s, x)[j] = s[j]
        /\ Append(s, x)[i + 1] = x
    BY <2>3, <2>4
  <2>8. \A j \in 1 .. i + 1 : Append(s, x)[j] = t[j]
    <3> SUFFICES ASSUME NEW j \in 1 .. i + 1 PROVE Append(s, x)[j] = t[j]  BY Zenon
    <3>1. CASE j = i + 1
      BY <3>1, <2>6, <2>7
    <3>2. CASE j \in 1 .. i
      <4>1. Append(s, x)[j] = s[j]
        BY <3>2, <2>7
      <4> QED  BY <3>2, <4>1, <2>4, <2>5, ZenonT(30)
    <3>3. j = i + 1 \/ j \in 1 .. i
      OBVIOUS
    <3> QED  BY <3>1, <3>2, <3>3, Zenon
  <2>9. Append(s, x) = t
    BY <2>5, <2>7, <2>8, SeqEqual
  <2> QED  BY <2>1, <2>9 DEF x, s, t
<1> QED  BY <1>5, <1>6

\* A loop that has emptied the queue changes nothing more.
LEMMA DequeueNone ==
  ASSUME NEW T, NEW q, IsQueue(q, T), NEW i \in Nat, IsEmpty(AfterDequeue(q, i))
  PROVE  /\ AfterDequeue(q, i) = AfterDequeue(q, i + 1)
         /\ PeekEligible(q, i) = PeekEligible(q, i + 1)
<1>1. AfterDequeue(q, i).front = q.front + Eligible(q, i) /\ AfterDequeue(q, i).rear = q.rear
  BY AfterDequeueQueue
<1>2. QueueLen(q) \in Nat /\ q.front \in Nat /\ q.rear \in Nat /\ QueueLen(q) = q.rear - q.front
  BY DEF IsQueue, QueueLen
<1>3. Eligible(q, i) = Eligible(q, i + 1)
  BY <1>1, <1>2 DEF Eligible, IsEmpty, QueueLen
<1> QED  BY <1>3 DEF AfterDequeue, PeekEligible

\* A non-empty set of natural numbers has a least one.
LEMMA LeastNatural ==
  ASSUME NEW S \in SUBSET Nat, S # {}
  PROVE  \E n \in S : \A m \in Nat : m < n => m \notin S
<1>1. IsWellFoundedOn(OpToRel(<, Nat), Nat)
  BY NatLessThanWellFounded, Zenon
<1>2. PICK n \in S : \A m \in S : ~(<<m, n>> \in OpToRel(<, Nat))
  BY <1>1, WFMin, Zenon
<1> QED  BY <1>2, Zenon DEF OpToRel

\* DequeueEligible(Reward)Withdrawals calls Dequeue until it has max withdrawals
\* or the queue is empty; it takes what PeekEligible lists and leaves what
\* AfterDequeue says.
LEMMA DequeueLoopIs ==
  ASSUME NEW T, NEW q, IsQueue(q, T), NEW max \in Nat
  PROVE  DequeueLoop(q, max) = [queue |-> AfterDequeue(q, max), out |-> PeekEligible(q, max)]
<1> DEFINE Step(f) == [i \in 0 .. max |->
             IF i = 0 THEN [queue |-> q, out |-> << >>]
             ELSE LET s == f[i - 1]
                  IN  IF IsEmpty(s.queue) THEN s
                      ELSE [queue |-> Dequeue(s.queue),
                            out   |-> Append(s.out, [index |-> q.front + (i - 1),
                                                     w     |-> Get(s.queue, 0)])]]
           At(i) == [queue |-> AfterDequeue(q, i), out |-> PeekEligible(q, i)]
           c == [i \in 0 .. max |-> At(i)]
           g == CHOOSE f : f = Step(f)
<1>1. DequeueLoop(q, max) = g[max]
  BY DEF DequeueLoop
<1>2. At(0) = [queue |-> q, out |-> << >>]
  <2>1. Eligible(q, 0) = 0 /\ q.front \in Nat
    BY DEF Eligible, IsQueue, QueueLen
  <2>2. q.elements = [k \in q.front .. (q.rear - 1) |-> q.elements[k]]
    BY DEF IsQueue
  <2>3. AfterDequeue(q, 0) = q
    BY <2>1, <2>2 DEF AfterDequeue, IsQueue
  <2>4. PeekEligible(q, 0) = << >>
    <3>1. PeekEligible(q, 0) \in Seq([index : Nat, w : T]) /\ Len(PeekEligible(q, 0)) = 0
      BY <2>1, PeekEligibleSeq, ZenonT(30)
    <3> QED  BY <3>1, EmptySeq
  <2> QED  BY <2>3, <2>4
<1>3. ASSUME NEW i \in 1 .. max, NEW f, f[i - 1] = At(i - 1)
      PROVE  Step(f)[i] = At(i)
  <2>1. i - 1 \in Nat /\ (i - 1) + 1 = i /\ i # 0 /\ i \in 0 .. max
    OBVIOUS
  <2> DEFINE s == At(i - 1)
  <2>2. s.queue = AfterDequeue(q, i - 1) /\ s.out = PeekEligible(q, i - 1)
    OBVIOUS
  <2>3. Step(f)[i] = IF IsEmpty(s.queue) THEN s
                     ELSE [queue |-> Dequeue(s.queue),
                           out   |-> Append(s.out, [index |-> q.front + (i - 1),
                                                    w     |-> Get(s.queue, 0)])]
    BY <1>3, <2>1, Zenon
  <2>4. CASE IsEmpty(s.queue)
    BY <2>1, <2>2, <2>3, <2>4, DequeueNone, ZenonT(30)
  <2>5. CASE ~IsEmpty(s.queue)
    BY <2>1, <2>2, <2>3, <2>5, DequeueOne, ZenonT(30)
  <2> QED  BY <2>4, <2>5
<1>4. \A f : Step(f)[0] = At(0)
  BY <1>2
<1>5. \A f : DOMAIN Step(f) = 0 .. max /\ Step(f) = [i \in 0 .. max |-> Step(f)[i]]
  OBVIOUS
<1> HIDE DEF Step, At
<1>6. c = Step(c)
  <2>1. ASSUME NEW i \in 0 .. max PROVE Step(c)[i] = At(i)
    <3>1. CASE i = 0
      BY <3>1, <1>4
    <3>2. CASE i \in 1 .. max
      <4>1. c[i - 1] = At(i - 1)
        BY <3>2
      <4> QED  BY <3>2, <4>1, <1>3
    <3> QED  BY <3>1, <3>2
  <2> QED  BY <2>1, <1>5
<1>7. g = Step(g)
  <2> HIDE DEF c
  <2> QED  BY <1>6, Zenon
<1> HIDE DEF g
<1>8. \A i \in 0 .. max : g[i] = At(i)
  <2> DEFINE B == {i \in 0 .. max : g[i] # At(i)}
  <2> SUFFICES ASSUME B # {} PROVE FALSE  OBVIOUS
  <2>1. PICK i \in B : \A m \in Nat : m < i => m \notin B
    <3>1. B \in SUBSET Nat
      OBVIOUS
    <3> HIDE DEF B
    <3> QED  BY <3>1, LeastNatural
  <2>2. i # 0
    BY <1>4, <1>7
  <2>3. g[i - 1] = At(i - 1) /\ i \in 1 .. max
    BY <2>1, <2>2
  <2>4. Step(g)[i] = At(i)
    BY <1>3, <2>3
  <2> QED  BY <1>7, <2>4
<1> QED  BY <1>1, <1>8 DEF At

\* PeekEligible(Reward)Withdrawals calls Get until it has max withdrawals or is
\* out of bounds; it lists what PeekEligible says.
LEMMA PeekLoopIs ==
  ASSUME NEW T, NEW q, IsQueue(q, T), NEW max \in Nat
  PROVE  PeekLoop(q, max) = PeekEligible(q, max)
<1> DEFINE Step(f) == [i \in 0 .. max |->
             IF i = 0 THEN << >>
             ELSE IF ~InBounds(q, i - 1) THEN f[i - 1]
             ELSE Append(f[i - 1], [index |-> q.front + (i - 1), w |-> Get(q, i - 1)])]
           At(i) == PeekEligible(q, i)
           c == [i \in 0 .. max |-> At(i)]
           g == CHOOSE f : f = Step(f)
<1>1. PeekLoop(q, max) = g[max]
  BY DEF PeekLoop
<1>2. At(0) = << >>
  <2>1. Eligible(q, 0) = 0
    BY DEF Eligible, IsQueue, QueueLen
  <2>2. PeekEligible(q, 0) \in Seq([index : Nat, w : T]) /\ Len(PeekEligible(q, 0)) = 0
    BY <2>1, PeekEligibleSeq, ZenonT(30)
  <2> QED  BY <2>2, EmptySeq
<1>3. ASSUME NEW i \in 1 .. max, NEW f, f[i - 1] = At(i - 1)
      PROVE  Step(f)[i] = At(i)
  <2> DEFINE j == i - 1
             a == AfterDequeue(q, j)
  <2>1. j \in Nat /\ j + 1 = i /\ i # 0 /\ i \in 0 .. max
    OBVIOUS
  <2>2. Step(f)[i] = IF ~InBounds(q, j) THEN PeekEligible(q, j)
                     ELSE Append(PeekEligible(q, j), [index |-> q.front + j, w |-> Get(q, j)])
    BY <1>3, <2>1
  <2>3. /\ IsQueue(a, T) /\ a.front = q.front + Eligible(q, j) /\ a.rear = q.rear
        /\ \A k \in (q.front + Eligible(q, j)) .. (q.rear - 1) : a.elements[k] = q.elements[k]
    BY <2>1, AfterDequeueQueue
  <2>4. QueueLen(q) \in Nat /\ q.front \in Nat /\ q.rear \in Nat /\ QueueLen(q) = q.rear - q.front
    BY DEF IsQueue, QueueLen
  <2> HIDE DEF j, a, Step, At
  <2>5. Eligible(q, j) = IF QueueLen(q) < j THEN QueueLen(q) ELSE j
    BY DEF Eligible
  <2>6. InBounds(q, j) <=> ~IsEmpty(a)
    BY <2>1, <2>3, <2>4, <2>5 DEF InBounds, IsEmpty, QueueLen
  <2>7. CASE ~InBounds(q, j)
    <3>1. PeekEligible(q, j) = PeekEligible(q, j + 1)
      BY <2>1, <2>6, <2>7, DequeueNone DEF a
    <3> QED  BY <2>1, <2>2, <2>7, <3>1 DEF At
  <2>8. CASE InBounds(q, j)
    <3>1. Append(PeekEligible(q, j), [index |-> q.front + j, w |-> Get(a, 0)])
            = PeekEligible(q, j + 1)
      BY <2>1, <2>6, <2>8, DequeueOne DEF a
    <3>2. Get(a, 0) = Get(q, j)
      BY <2>1, <2>3, <2>4, <2>5, <2>8 DEF Get, InBounds, QueueLen
    <3> QED  BY <2>1, <2>2, <2>8, <3>1, <3>2 DEF At
  <2> QED  BY <2>7, <2>8
<1>4. \A f : Step(f)[0] = At(0)
  BY <1>2
<1>5. \A f : DOMAIN Step(f) = 0 .. max /\ Step(f) = [i \in 0 .. max |-> Step(f)[i]]
  BY ZenonT(30)
<1> HIDE DEF Step, At
<1>6. c = Step(c)
  <2>1. ASSUME NEW i \in 0 .. max PROVE Step(c)[i] = At(i)
    <3>1. CASE i = 0
      BY <3>1, <1>4
    <3>2. CASE i \in 1 .. max
      <4>1. c[i - 1] = At(i - 1)
        BY <3>2
      <4> QED  BY <3>2, <4>1, <1>3
    <3> QED  BY <3>1, <3>2
  <2> QED  BY <2>1, <1>5
<1>7. g = Step(g)
  <2> HIDE DEF c
  <2> QED  BY <1>6, Zenon
<1> HIDE DEF g
<1>8. \A i \in 0 .. max : g[i] = At(i)
  <2> DEFINE B == {i \in 0 .. max : g[i] # At(i)}
  <2> SUFFICES ASSUME B # {} PROVE FALSE  OBVIOUS
  <2>1. PICK i \in B : \A m \in Nat : m < i => m \notin B
    <3>1. B \in SUBSET Nat
      OBVIOUS
    <3> HIDE DEF B
    <3> QED  BY <3>1, LeastNatural
  <2>2. i # 0
    BY <1>4, <1>7
  <2>3. g[i - 1] = At(i - 1) /\ i \in 1 .. max
    BY <2>1, <2>2
  <2>4. Step(g)[i] = At(i)
    BY <1>3, <2>3
  <2> QED  BY <1>7, <2>4
<1> QED  BY <1>1, <1>8 DEF At

\* A payload that was accepted is what the loops of FinalizeBlock are about to
\* dequeue, in every state, for every maximum and all queue lengths: the
\* length checks of the finalising ExecutionPayload cannot fail, and what is
\* credited is what leaves the queues.
THEOREM AcceptedIsDequeued == FlowSpec => []AcceptedPayloadDequeues
<1>1. FlowInv => AcceptedPayloadDequeues
  <2> SUFFICES ASSUME FlowInv, phase = "finalize" PROVE AcceptedPayloadDequeues
    BY Zenon DEF AcceptedPayloadDequeues
  <2> DEFINE max  == MaxWithdrawalPerBlock
             wq   == withdrawalQueue
             rq   == rewardQueue
             left == RewardBudget(wq, max)
  <2>1. /\ IsQueue(wq, Withdrawals) /\ IsQueue(rq, Withdrawals) /\ max \in Nat /\ left \in Nat
    BY QueuesTyped DEF FlowInv
  <2>2. payload = PeekEligible(wq, max) \o PeekEligible(rq, left)
    BY DEF FlowInv, Accepted, PayloadWithdrawals
  <2>3. DequeueLoop(wq, max) = [queue |-> AfterDequeue(wq, max), out |-> PeekEligible(wq, max)]
    BY <2>1, DequeueLoopIs
  <2>4. DequeueLoop(rq, left) = [queue |-> AfterDequeue(rq, left), out |-> PeekEligible(rq, left)]
    BY <2>1, DequeueLoopIs
  <2>5. /\ PeekLoop(wq, max) = PeekEligible(wq, max)
        /\ PeekLoop(rq, left) = PeekEligible(rq, left)
    BY <2>1, PeekLoopIs
  <2>6. max - Len(DequeueLoop(wq, max).out) = left
    <3>1. Len(PeekEligible(wq, max)) = Eligible(wq, max)
      BY <2>1, PeekEligibleSeq, Zenon
    <3> QED  BY <2>3, <3>1 DEF RewardBudget
  <2> DEFINE stake   == DequeueLoop(wq, max)
             rewards == DequeueLoop(rq, left)
  <2>7. /\ stake.out = PeekEligible(wq, max) /\ stake.queue = AfterDequeue(wq, max)
        /\ rewards.out = PeekEligible(rq, left) /\ rewards.queue = AfterDequeue(rq, left)
    BY <2>3, <2>4
  <2> HIDE DEF stake, rewards, left
  <2>8. /\ payload = stake.out \o rewards.out
        /\ payload = PeekLoop(wq, max) \o PeekLoop(rq, left)
        /\ stake.queue = AfterDequeue(wq, max)
        /\ rewards.queue = AfterDequeue(rq, left)
    BY <2>2, <2>5, <2>7
  <2>9. left = max - Len(stake.out) /\ rewards = DequeueLoop(rq, max - Len(stake.out))
    BY <2>6 DEF stake, rewards
  <2> QED  BY <2>8, <2>9, Zenon DEF AcceptedPayloadDequeues, stake
<1> QED  BY <1>1, FlowStart, FlowSteps, PTL DEF FlowSpec

-----------------------------------------------------------------------------
(* Upgrades.                                                               *)

\* What is waiting is not overdue: its height is to come or running, or it is
\* the height of the last block and the PreBlocker of this one has not passed.
NotOverdue(p) ==
  p # NoPlan =>
    /\ p.height + 1 >= height
    /\ stage = "events" => p.height >= height

\* The Terence block separates the two stores: x/upgrade holds nothing after
\* it, x/evmengine nothing before its PreBlocker is over.  With it the three
\* safety invariants are inductive.
UpgradesInv ==
  /\ UpgradesTypeOK
  /\ Fork \in binary
  /\ height > TerenceHeight => plan = NoPlan
  /\ pending # NoPlan =>
       height > TerenceHeight \/ (height = TerenceHeight /\ stage = "events")
  /\ NotOverdue(plan) /\ NotOverdue(pending)
  /\ RollingUpgrade
  /\ OneUpgradeWaits
  /\ HaltsOnlyOnUnschedulable

\* The node starts with nothing scheduled and a binary that knows the fork.
LEMMA UpgradesStart == UpgradesInit => UpgradesInv
  BY UpgradesAssumption
  DEF UpgradesInit, UpgradesInv, UpgradesTypeOK, Plans, NotOverdue, RollingUpgrade, IsTerence,
      OneUpgradeWaits, HaltsOnlyOnUnschedulable

\* The plan x/upgrade sees in its PreBlocker is one of the three it can be.
LEMMA PlanCases ==
  ASSUME UpgradesInv, stage = "pre"
  PROVE  /\ PlanInPreBlock \in Plans \cup {NoPlan}
         /\ ShouldUpgrade => PlanInPreBlock = pending /\ height > TerenceHeight
         /\ height = TerenceHeight =>
              PlanInPreBlock = [name |-> Fork, height |-> height]
         /\ height > TerenceHeight /\ ~ShouldUpgrade => PlanInPreBlock = NoPlan
         /\ height < TerenceHeight => PlanInPreBlock = plan /\ pending = NoPlan
  BY UpgradesAssumption
  DEF UpgradesInv, UpgradesTypeOK, PlanInPreBlock, ShouldUpgrade, Plans

\* Every PreBlocker, event, commit and change of binary preserves it.
LEMMA UpgradesSteps == UpgradesInv /\ [UpgradesNext]_upgradesVars => UpgradesInv'
<1> SUFFICES ASSUME UpgradesInv, [UpgradesNext]_upgradesVars PROVE UpgradesInv'
  OBVIOUS
<1>1. CASE PreBlocker
  <2>1. CASE PreBlockerError # "none"
    <3>1. /\ stage' = "stopped" /\ reason' = PreBlockerError
          /\ UNCHANGED <<height, plan, pending, done, binary, accepted>>
      BY <1>1, <2>1 DEF PreBlocker
    <3>2. /\ PreBlockerError \in {"schedule", "needed", "early"}
          /\ PreBlockerError = "schedule" => ShouldUpgrade /\ ~MaySchedule(pending)
          /\ PreBlockerError = "early" => PlanInPreBlock.height > height
          /\ PreBlockerError \in {"needed", "early"} => PlanInPreBlock # NoPlan
          /\ PreBlockerError = "needed" => PlanInPreBlock.name \notin binary
      BY <2>1 DEF PreBlockerError
    <3>3. height # TerenceHeight
      BY <3>2, <1>1, PlanCases DEF PreBlocker, UpgradesInv, UpgradesTypeOK, ShouldUpgrade
    <3>4. height > TerenceHeight => PreBlockerError # "early"
      BY <3>2, <1>1, PlanCases DEF PreBlocker, UpgradesInv, UpgradesTypeOK, ShouldUpgrade, Plans
    <3>5. UpgradesTypeOK'
      BY <3>1, <3>2 DEF UpgradesInv, UpgradesTypeOK, Plans
    <3>6. HaltsOnlyOnUnschedulable'
      BY <3>1, <3>2
      DEF HaltsOnlyOnUnschedulable, UpgradesInv, UpgradesTypeOK, Plans, NotOverdue, ShouldUpgrade, MaySchedule
    <3>7. RollingUpgrade'
      BY <3>1, <3>3, <3>4, UpgradesAssumption DEF RollingUpgrade, IsTerence, UpgradesInv, UpgradesTypeOK
    <3> QED
      BY <1>1, <3>1, <3>3, <3>5, <3>6, <3>7, UpgradesAssumption
      DEF UpgradesInv, OneUpgradeWaits, NotOverdue, UpgradesTypeOK, PreBlocker
  <2>2. CASE PreBlockerError = "none"
    <3> DEFINE p   == PlanInPreBlock
               due == p # NoPlan /\ p.height <= height
    <3>1. /\ stage = "pre" /\ stage' = "events" /\ reason' = "none"
          /\ pending' = IF ShouldUpgrade THEN NoPlan ELSE pending
          /\ plan' = IF due THEN NoPlan ELSE p
          /\ done' = IF due THEN done \cup {p.name} ELSE done
          /\ accepted' = IF due THEN accepted \ {p} ELSE accepted
          /\ UNCHANGED <<height, binary>>
      BY <1>1, <2>2, Zenon DEF PreBlocker
    <3>2. /\ p \in Plans \cup {NoPlan}
          /\ ShouldUpgrade => p = pending /\ height > TerenceHeight
          /\ height = TerenceHeight => p = [name |-> Fork, height |-> height]
          /\ height > TerenceHeight /\ ~ShouldUpgrade => p = NoPlan
          /\ height < TerenceHeight => p = plan /\ pending = NoPlan
      BY <3>1, PlanCases
    <3> HIDE DEF p
    <3>3. ShouldUpgrade => due
      BY <3>2, UpgradesAssumption DEF ShouldUpgrade, UpgradesInv, UpgradesTypeOK, Plans
    <3>4. height >= TerenceHeight => plan' = NoPlan
      BY <3>1, <3>2, <3>3, UpgradesAssumption DEF UpgradesInv, UpgradesTypeOK, Plans
    <3>5. UpgradesTypeOK'
      BY <3>1, <3>2 DEF UpgradesInv, UpgradesTypeOK, Plans
    <3>6. NotOverdue(plan)' /\ NotOverdue(pending)'
      BY <3>1, <3>2 DEF NotOverdue, ShouldUpgrade, UpgradesInv, UpgradesTypeOK, Plans
    <3>7. OneUpgradeWaits'
      <4>1. CASE ShouldUpgrade
        BY <4>1, <3>1, <3>2, <3>3, Zenon DEF OneUpgradeWaits
      <4>2. CASE ~ShouldUpgrade /\ height < TerenceHeight
        BY <4>2, <3>1, <3>2 DEF OneUpgradeWaits, UpgradesInv
      <4>3. CASE ~ShouldUpgrade /\ height = TerenceHeight
        <5>1. pending = NoPlan
          BY <4>3, <3>1, UpgradesAssumption DEF UpgradesInv, UpgradesTypeOK
        <5> QED
          BY <5>1, <4>3, <3>1, <3>4, UpgradesAssumption DEF OneUpgradeWaits, UpgradesInv, UpgradesTypeOK
      <4>4. CASE ~ShouldUpgrade /\ height > TerenceHeight
        BY <4>4, <3>1, <3>2 DEF OneUpgradeWaits, UpgradesInv
      <4> QED
        BY <4>1, <4>2, <4>3, <4>4, UpgradesAssumption DEF UpgradesInv, UpgradesTypeOK
    <3>8. pending' # NoPlan =>
            height' > TerenceHeight \/ (height' = TerenceHeight /\ stage' = "events")
      BY <3>1 DEF UpgradesInv
    <3> QED
      BY <3>1, <3>4, <3>5, <3>6, <3>7, <3>8, UpgradesAssumption
      DEF UpgradesInv, RollingUpgrade, IsTerence, HaltsOnlyOnUnschedulable, UpgradesTypeOK
  <2> QED
    BY <2>1, <2>2
<1>2. CASE \E n \in Names, h \in 1 .. MaxBlock :
             ProcessSoftwareUpgrade([name |-> n, height |-> h])
  <2>1. PICK n \in Names, h \in 1 .. MaxBlock :
          ProcessSoftwareUpgrade([name |-> n, height |-> h])
    BY <1>2
  <2> DEFINE p == [name |-> n, height |-> h]
  <2>2. p \in Plans /\ p # NoPlan /\ p.height = h
    BY UpgradesAssumption DEF Plans
  <2>3. /\ stage = "events" /\ ScheduleUpgrade(p)
        /\ accepted' = IF IsTerence THEN accepted \cup {p} ELSE {p}
        /\ UNCHANGED <<height, stage, done, binary, reason>>
    BY <2>1 DEF ProcessSoftwareUpgrade
  <2> HIDE DEF p
  <2>4. CASE IsTerence
    <3>1. p.height >= height /\ pending = NoPlan /\ pending' = p /\ UNCHANGED plan
      BY <2>3, <2>4 DEF ScheduleUpgrade, SetPendingUpgrade
    <3> QED
      BY <2>2, <2>3, <2>4, <3>1, UpgradesAssumption
      DEF UpgradesInv, UpgradesTypeOK, NotOverdue, RollingUpgrade, IsTerence, OneUpgradeWaits,
          HaltsOnlyOnUnschedulable, Plans
  <2>5. CASE ~IsTerence
    <3>1. p.height >= height /\ plan' = p /\ UNCHANGED pending /\ accepted' = {p}
      BY <2>3, <2>5 DEF ScheduleUpgrade, MaySchedule
    <3>2. height < TerenceHeight /\ pending = NoPlan
      BY <2>5, UpgradesAssumption DEF UpgradesInv, UpgradesTypeOK, IsTerence
    <3> QED
      BY <2>2, <2>3, <3>1, <3>2, UpgradesAssumption
      DEF UpgradesInv, UpgradesTypeOK, NotOverdue, RollingUpgrade, IsTerence, OneUpgradeWaits,
          HaltsOnlyOnUnschedulable, Plans
  <2> QED
    BY <2>4, <2>5
<1>3. CASE ProcessCancelUpgrade
  BY <1>3, UpgradesAssumption
  DEF ProcessCancelUpgrade, CancelUpgrade, UpgradesInv, UpgradesTypeOK, NotOverdue, RollingUpgrade,
      IsTerence, OneUpgradeWaits, HaltsOnlyOnUnschedulable
<1>4. CASE Commit
  BY <1>4, UpgradesAssumption
  DEF Commit, UpgradesInv, UpgradesTypeOK, Plans, NotOverdue, RollingUpgrade, IsTerence,
      OneUpgradeWaits, HaltsOnlyOnUnschedulable
<1>5. CASE \E n \in Names : InstallBinary(n)
  BY <1>5, UpgradesAssumption
  DEF InstallBinary, UpgradesInv, UpgradesTypeOK, Plans, NotOverdue, RollingUpgrade, IsTerence,
      OneUpgradeWaits, HaltsOnlyOnUnschedulable
<1>6. CASE UNCHANGED upgradesVars
  BY <1>6
  DEF upgradesVars, UpgradesInv, UpgradesTypeOK, NotOverdue, RollingUpgrade, IsTerence,
      OneUpgradeWaits, HaltsOnlyOnUnschedulable
<1> QED
  BY <1>1, <1>2, <1>3, <1>4, <1>5, <1>6 DEF UpgradesNext

\* UpgradesInv holds in every reachable state.
LEMMA UpgradesInvariance == UpgradesSpec => []UpgradesInv
  BY UpgradesStart, UpgradesSteps, PTL DEF UpgradesSpec

\* The store of upgrades is well typed, and a node is stopped exactly when its
\* PreBlocker failed.
THEOREM UpgradesTypeCorrect == UpgradesSpec => []UpgradesTypeOK
<1>1. UpgradesInv => UpgradesTypeOK
  BY DEF UpgradesInv
<1> QED
  BY <1>1, UpgradesInvariance, PTL

\* Whatever the release schedule of the operators, from the Terence block on no
\* node stops because its binary is ahead (App.PreBlocker, ScheduleUpgrade).
THEOREM RollingUpgradeSafe == UpgradesSpec => []RollingUpgrade
<1>1. UpgradesInv => RollingUpgrade
  BY DEF UpgradesInv
<1> QED
  BY <1>1, UpgradesInvariance, PTL

\* x/upgrade and x/evmengine never hold an upgrade each, and hold only what was
\* asked for and neither cancelled nor applied, also across Terence.
THEOREM OneUpgradeWaitsSafe == UpgradesSpec => []OneUpgradeWaits
<1>1. UpgradesInv => OneUpgradeWaits
  BY DEF UpgradesInv
<1> QED
  BY <1>1, UpgradesInvariance, PTL

\* App.PreBlocker fails for good only for a plan of the block before or for a
\* name that was applied before.
THEOREM HaltsOnly == UpgradesSpec => []HaltsOnlyOnUnschedulable
<1>1. UpgradesInv => HaltsOnlyOnUnschedulable
  BY DEF UpgradesInv
<1> QED
  BY <1>1, UpgradesInvariance, PTL

\* Upgrades asked for by events are applied by a binary that knows them, in the
\* block of their height or in the next.
THEOREM AppliedInTime == UpgradesSpec => AppliedOnTime
<1> DEFINE A == \A n \in (done' \ done) \cap Names :
                  /\ n \in binary
                  /\ \E p \in accepted : p.name = n /\ height - p.height \in {0, 1}
<1>1. UpgradesInv /\ [UpgradesNext]_upgradesVars => [A]_upgradesVars
  <2> SUFFICES ASSUME UpgradesInv, [UpgradesNext]_upgradesVars, NEW n \in (done' \ done) \cap Names
               PROVE  /\ n \in binary
                      /\ \E p \in accepted : p.name = n /\ height - p.height \in {0, 1}
    OBVIOUS
  <2>1. PreBlocker
    BY Zenon DEF UpgradesNext, upgradesVars, ProcessSoftwareUpgrade, ProcessCancelUpgrade, Commit, InstallBinary
  <2>2. /\ stage = "pre" /\ PreBlockerError = "none"
        /\ PlanInPreBlock # NoPlan /\ PlanInPreBlock.height <= height
        /\ n = PlanInPreBlock.name
    BY <2>1 DEF PreBlocker
  <2>3. n \in binary
    BY <2>2 DEF PreBlockerError
  <2>4. PlanInPreBlock \in {plan, pending}
    BY <2>2, PlanCases, UpgradesAssumption DEF UpgradesInv, UpgradesTypeOK
  <2>5. PlanInPreBlock \in accepted
    BY <2>2, <2>4, Zenon DEF UpgradesInv, OneUpgradeWaits
  <2>6. height - PlanInPreBlock.height \in {0, 1}
    BY <2>2, <2>4, PlanCases, UpgradesAssumption DEF UpgradesInv, UpgradesTypeOK, NotOverdue, Plans
  <2> QED
    BY <2>2, <2>3, <2>5, <2>6
<1> QED
  BY <1>1, UpgradesInvariance, PTL DEF UpgradesSpec, AppliedOnTime

-----------------------------------------------------------------------------
(* The home: the inductive invariant.                                      *)

InitSteps == {"prepare", "config", "story", "plainKey", "encryptedKey", "sign", "nodeKey",
              "template", "genesis", "done"}

InitCommands ==
  [pc : InitSteps, clean : BOOLEAN, force : BOOLEAN, encrypt : BOOLEAN, network : Networks,
   key : Keys \cup {None}]

RollbackCommands == [pc : {"rollback"}, left : Nat, last : Nat]

TypeOK ==
  /\ DOMAIN home = {"config", "story", "plain", "enc", "sign", "nodeKey", "genesis", "stray"}
  /\ home.plain \in Keys \cup {None}
  /\ home.enc \in Keys \cup {None, Torn}
  /\ home.sign \in Nat \cup {None}
  /\ data \in [blocks : Nat, comet : Nat, app : Nat]
  /\ cli = Idle \/ cli \in InitCommands \/ cli \in RollbackCommands
  /\ node = Down \/ node \in [up : {TRUE}, key : Keys, last : Nat]
  /\ made \in Nat
  /\ signed \in [Keys -> SUBSET Nat]
  /\ spoiled \in BOOLEAN /\ rolling \in BOOLEAN

\* The sign state of a key that has kept it covers every height it signed, on
\* disk and in the running node.
Protected ==
  /\ twice \subseteq lost
  /\ \A k \in Keys : k \notin lost =>
       \A h \in signed[k] : /\ home.sign # None /\ h <= home.sign
                            /\ node.up => h <= node.last

\* A block is stored before it becomes the state of CometBFT; the height a
\* rollback gives to the app is the one it has taken CometBFT to.
Heights ==
  /\ data.blocks = data.comet \/ data.blocks = data.comet + 1
  /\ ~rolling => data.app = data.comet \/ data.app = data.blocks
  /\ cli.pc = "rollback" =>
       /\ ~node.up
       /\ cli.left = 0 /\ cli.last > 0 => cli.last = data.comet /\ cli.last = data.blocks

\* What init has done by the step it is at, while nothing was cut off.
HomeOK ==
  ~spoiled =>
    /\ home.config # Torn /\ home.nodeKey # Torn /\ home.enc # Torn /\ home.genesis # Torn
    /\ home.plain # None \/ home.enc # None => home.sign # None \/ cli.pc = "sign"
    /\ cli.pc \in {"sign", "nodeKey", "template", "genesis", "done"} =>
         home.plain # None \/ home.enc # None
    /\ home.story = None =>
         /\ home.genesis = None
         /\ cli.pc \notin {"plainKey", "encryptedKey", "sign", "nodeKey", "template", "genesis", "done"}
    /\ home.story # None =>
         \/ home.story \in {Local, Public}
         \/ /\ home.story = Unsupported /\ home.genesis = None
            /\ cli.pc \in {"plainKey", "encryptedKey", "sign", "nodeKey", "template"}
            /\ cli.network = Unsupported
    /\ home.genesis = Template => cli.pc = "genesis"
    /\ cli.pc \in {"genesis", "done"} => home.genesis # None
    /\ cli.pc \in {"sign", "nodeKey", "template", "genesis"} => cli.key \in Keys

IInv == TypeOK /\ Protected /\ Heights /\ HomeOK

-----------------------------------------------------------------------------
(* Which command runs is known from the step it is at.                     *)

\* The record of the running command, by its step.
LEMMA CommandOf ==
  ASSUME TypeOK
  PROVE /\ cli.pc = "rollback" => cli \in RollbackCommands
        /\ cli.pc \in InitSteps => cli \in InitCommands
        /\ cli.pc = "idle" => cli = Idle
  <1>1. cli = Idle \/ cli \in InitCommands \/ cli \in RollbackCommands
    BY Zenon DEF TypeOK
  <1>2. cli = Idle => cli.pc = "idle"
    BY DEF Idle
  <1>3. (cli \in InitCommands => cli.pc \in InitSteps) /\ (cli \in RollbackCommands => cli.pc = "rollback")
    BY Zenon DEF InitCommands, RollbackCommands
  <1>4. "idle" \notin InitSteps /\ "rollback" \notin InitSteps
    BY DEF InitSteps
  <1> QED  BY <1>1, <1>2, <1>3, <1>4, Zenon

\* init goes to its next step and keeps its flags and its key.
LEMMA NextInitStep ==
  ASSUME TypeOK, cli.pc \in InitSteps, NEW p \in InitSteps, Goto(p)
  PROVE /\ cli' \in InitCommands /\ cli'.pc = p
        /\ cli'.key = cli.key /\ cli'.network = cli.network
  <1>1. cli \in InitCommands
    BY CommandOf
  <1> QED BY <1>1 DEF Goto, InitCommands

\* init goes to its next step with the key it has loaded or made.
LEMMA NextWithKey ==
  ASSUME TypeOK, cli.pc \in InitSteps, NEW p \in InitSteps, NEW k \in Keys,
         cli' = [cli EXCEPT !.pc = p, !.key = k]
  PROVE /\ cli' \in InitCommands /\ cli'.pc = p
        /\ cli'.key = k /\ cli'.network = cli.network
  <1>1. cli \in InitCommands
    BY CommandOf
  <1>2. cli'.pc = p /\ cli'.key = k /\ cli'.network = cli.network
    BY <1>1 DEF InitCommands
  <1>3. [cli EXCEPT !.pc = p] \in InitCommands
    BY <1>1 DEF InitCommands
  <1>4. cli' = [[cli EXCEPT !.pc = p] EXCEPT !.key = k]
    OBVIOUS
  <1>5. cli' \in InitCommands
    BY <1>3, <1>4, Zenon DEF InitCommands
  <1> QED BY <1>2, <1>5

-----------------------------------------------------------------------------
(* story init.                                                             *)

\* A new command is at its first step and has written nothing.
LEMMA InitFilesStep ==
  ASSUME IInv, InitFiles
  PROVE IInv'
  <1>1. PICK clean, force, encrypt \in BOOLEAN, network \in Networks :
          cli' = [pc |-> "prepare", clean |-> clean, force |-> force,
                  encrypt |-> encrypt, network |-> network, key |-> None]
    BY DEF InitFiles, Begin
  <1>2. cli' \in InitCommands /\ cli'.pc = "prepare" /\ cli.pc = "idle"
    BY <1>1 DEF InitCommands, InitSteps, InitFiles, Begin, Idle
  <1>3. UNCHANGED <<home, data, node, made, signed, twice, lost, spoiled, rolling>>
    BY DEF InitFiles, history
  <1>4. TypeOK'
    BY <1>2, <1>3, Zenon DEF IInv, TypeOK
  <1>5. Protected'
    BY <1>3, Zenon DEF IInv, Protected
  <1>6. Heights'
    BY <1>2, <1>3, ZenonT(30) DEF IInv, Heights
  <1>7. HomeOK'
    BY <1>2, <1>3 DEF IInv, HomeOK
  <1> QED BY <1>4, <1>5, <1>6, <1>7, Zenon DEF IInv

\* --clean drops the sign state of every key that has signed.
LEMMA prepareHomeDirectoryStep ==
  ASSUME IInv, prepareHomeDirectory
  PROVE IInv'
  <1>1. cli.pc = "prepare" /\ UNCHANGED <<node, made, signed, twice>>
    BY DEF prepareHomeDirectory, InitStep
  <1>2. \/ cli' = Idle
        \/ cli' \in InitCommands /\ cli'.pc = "config"
    BY <1>1, NextInitStep DEF prepareHomeDirectory, IInv, InitSteps
  <1>3. cli'.pc \in {"idle", "config"}
    BY <1>2 DEF Idle
  <1>4. CASE UNCHANGED <<home, data, lost, spoiled, rolling>>
    <2>1. TypeOK'
      BY <1>1, <1>2, <1>4, ZenonT(30) DEF IInv, TypeOK
    <2>2. Protected'
      BY <1>1, <1>4 DEF IInv, Protected
    <2>3. Heights'
      BY <1>3, <1>4, Zenon DEF IInv, Heights
    <2>4. HomeOK'
      BY <1>1, <1>3, <1>4 DEF IInv, HomeOK
    <2> QED BY <2>1, <2>2, <2>3, <2>4 DEF IInv
  <1>5. CASE /\ home' = Empty /\ data' = NoData /\ lost' = lost \cup Signers
             /\ spoiled' = FALSE /\ rolling' = FALSE /\ cli'.pc = "config"
    <2>1. TypeOK'
      BY <1>1, <1>2, <1>5, ZenonT(30) DEF IInv, TypeOK, Empty, NoData
    <2>2. Protected'
      BY <1>1, <1>5 DEF IInv, TypeOK, Protected, Signers
    <2>3. Heights'
      BY <1>5, Zenon DEF Heights, NoData
    <2>4. HomeOK'
      BY <1>5, FileContents DEF HomeOK, Empty
    <2> QED BY <2>1, <2>2, <2>3, <2>4 DEF IInv
  <1>6. ~(home.stray /\ ~cli.force) => cli'.pc = "config"
    BY <1>1, NextInitStep, Zenon DEF prepareHomeDirectory, IInv, InitSteps
  <1> QED BY <1>4, <1>5, <1>6, Zenon DEF prepareHomeDirectory

\* config.toml is written whole or left as it is.
LEMMA WriteConfigStep ==
  ASSUME IInv, WriteConfig
  PROVE IInv'
  <1>1. /\ cli.pc = "config" /\ cli' \in InitCommands /\ cli'.pc = "story"
        /\ cli'.key = cli.key /\ cli'.network = cli.network
    BY NextInitStep DEF WriteConfig, IInv, InitSteps
  <1>2. UNCHANGED <<data, node, made, signed, twice, lost, spoiled, rolling>>
    BY DEF WriteConfig, InitStep
  <1>3. /\ DOMAIN home' = DOMAIN home
        /\ home'.story = home.story /\ home'.plain = home.plain /\ home'.enc = home.enc
        /\ home'.sign = home.sign /\ home'.nodeKey = home.nodeKey /\ home'.genesis = home.genesis
    BY DEF WriteConfig, IInv, TypeOK
  <1>4. home'.config = IfAbsent(home.config, Default)
    BY DEF WriteConfig, IInv, TypeOK
  <1>5. TypeOK'
    BY <1>1, <1>2, <1>3, ZenonT(30) DEF IInv, TypeOK
  <1>6. Protected'
    BY <1>2, <1>3 DEF IInv, Protected
  <1>7. Heights'
    BY <1>1, <1>2, ZenonT(30) DEF IInv, Heights
  <1>8. HomeOK'
    BY <1>1, <1>2, <1>3, <1>4, FileContents DEF IInv, HomeOK, IfAbsent
  <1> QED BY <1>5, <1>6, <1>7, <1>8 DEF IInv

\* story.toml names the network of the command unless it was there.
LEMMA WriteConfigTOMLStep ==
  ASSUME IInv, WriteConfigTOML
  PROVE IInv'
  <1>1. /\ cli.pc = "story" /\ cli' \in InitCommands /\ cli'.pc \in {"plainKey", "encryptedKey"}
        /\ cli'.key = cli.key /\ cli'.network = cli.network
    BY NextInitStep DEF WriteConfigTOML, IInv, InitSteps
  <1>2. UNCHANGED <<data, node, made, signed, twice, lost, spoiled, rolling>>
    BY DEF WriteConfigTOML, InitStep
  <1>3. /\ DOMAIN home' = DOMAIN home
        /\ home'.config = home.config /\ home'.plain = home.plain /\ home'.enc = home.enc
        /\ home'.sign = home.sign /\ home'.nodeKey = home.nodeKey /\ home'.genesis = home.genesis
    BY DEF WriteConfigTOML, IInv, TypeOK
  <1>4. home'.story = IfAbsent(home.story, cli.network)
    BY DEF WriteConfigTOML, IInv, TypeOK
  <1>5. TypeOK'
    BY <1>1, <1>2, <1>3, Zenon DEF IInv, TypeOK
  <1>6. Protected'
    BY <1>2, <1>3, ZenonT(30) DEF IInv, Protected
  <1>7. Heights'
    BY <1>1, <1>2 DEF IInv, Heights
  <1>8. HomeOK'
    BY <1>1, <1>2, <1>3, <1>4, FileContents, ZenonT(30) DEF IInv, HomeOK, IfAbsent, InitCommands, Networks
  <1> QED BY <1>5, <1>6, <1>7, <1>8 DEF IInv

\* The plain key is loaded, refused without a sign state, or made.
LEMMA loadOrCreatePrivKeyStep ==
  ASSUME IInv, loadOrCreatePrivKey
  PROVE IInv'
  <1>0. cli.pc \in InitSteps /\ cli.pc \notin {"sign", "genesis", "done", "rollback"}
    BY Zenon DEF loadOrCreatePrivKey, InitSteps
  <1>1. CASE home.plain # None /\ home.sign # None
    <2>1. home.plain \in Keys
      BY <1>1, FileContents DEF IInv, TypeOK
    <2>2. /\ cli' = [cli EXCEPT !.pc = "nodeKey", !.key = home.plain]
          /\ UNCHANGED <<home, data, node, made, signed, twice, lost, spoiled, rolling>>
      BY <1>1 DEF loadOrCreatePrivKey, InitStep
    <2>3. /\ cli' \in InitCommands /\ cli'.pc = "nodeKey" /\ cli'.key \in Keys
          /\ cli'.network = cli.network
      BY <1>0, <2>1, <2>2, NextWithKey, Zenon DEF IInv, InitSteps
    <2>4. TypeOK'
      BY <2>2, <2>3, Zenon DEF IInv, TypeOK
    <2>5. Protected'
      BY <2>2 DEF IInv, Protected
    <2>6. Heights'
      BY <2>2, <2>3 DEF IInv, Heights
    <2>7. HomeOK'
      BY <1>1, <2>2, <2>3 DEF IInv, HomeOK, loadOrCreatePrivKey
    <2> QED BY <2>4, <2>5, <2>6, <2>7 DEF IInv
  <1>2. CASE home.plain # None /\ ~(home.sign # None)
    <2>1. /\ cli' = Idle /\ spoiled' = TRUE
          /\ UNCHANGED <<home, data, node, made, signed, twice, lost, rolling>>
      BY <1>2 DEF loadOrCreatePrivKey, InitStep, Fail
    <2> QED BY <2>1, Zenon DEF IInv, TypeOK, Protected, Heights, HomeOK, Idle
  <1>3. CASE home.plain = None
    <2>1. made + 1 \in Keys /\ made + 1 # None /\ made + 1 # Torn
      BY <1>3, HomeConstants, FileContents DEF IInv, TypeOK, Keys, loadOrCreatePrivKey
    <2>2. /\ cli' = [cli EXCEPT !.pc = "sign", !.key = made + 1]
          /\ made' = made + 1 /\ home' = [home EXCEPT !.plain = made + 1]
          /\ UNCHANGED <<data, node, signed, twice, lost, spoiled, rolling>>
      BY <1>3 DEF loadOrCreatePrivKey, InitStep
    <2>3. /\ cli' \in InitCommands /\ cli'.pc = "sign" /\ cli'.key \in Keys
          /\ cli'.network = cli.network
      BY <1>0, <2>1, <2>2, NextWithKey, Zenon DEF IInv, InitSteps
    <2>4. /\ DOMAIN home' = DOMAIN home /\ home'.plain = made + 1
          /\ home'.enc = home.enc
          /\ home'.config = home.config /\ home'.story = home.story
          /\ home'.sign = home.sign /\ home'.nodeKey = home.nodeKey
          /\ home'.genesis = home.genesis
      BY <2>2 DEF IInv, TypeOK
    <2>5. TypeOK'
      <3>1. made' \in Nat /\ home'.plain \in Keys
        BY <2>1, <2>2, <2>4 DEF IInv, TypeOK
      <3> QED BY <2>2, <2>3, <2>4, <3>1, Zenon DEF IInv, TypeOK
    <2>6. Protected'
      BY <2>2, <2>4 DEF IInv, Protected
    <2>7. Heights'
      BY <2>2, <2>3 DEF IInv, Heights
    <2>8. HomeOK'
      BY <2>1, <2>2, <2>3, <2>4 DEF IInv, HomeOK, loadOrCreatePrivKey
    <2> QED BY <2>5, <2>6, <2>7, <2>8 DEF IInv
  <1> QED BY <1>1, <1>2, <1>3

\* The encrypted key is loaded, refused when torn, or made.
LEMMA loadOrCreateEncryptedPrivKeyStep ==
  ASSUME IInv, loadOrCreateEncryptedPrivKey
  PROVE IInv'
  <1>0. cli.pc \in InitSteps /\ cli.pc \notin {"sign", "genesis", "done", "rollback"}
    BY DEF loadOrCreateEncryptedPrivKey, InitSteps
  <1>1. CASE home.enc # None /\ home.enc # Torn
    <2>1. home.enc \in Keys
      BY <1>1, FileContents DEF IInv, TypeOK
    <2>2. /\ cli' = [cli EXCEPT !.pc = "nodeKey", !.key = home.enc]
          /\ UNCHANGED <<home, data, node, made, signed, twice, lost, spoiled, rolling>>
      BY <1>1 DEF loadOrCreateEncryptedPrivKey, InitStep
    <2>3. /\ cli' \in InitCommands /\ cli'.pc = "nodeKey" /\ cli'.key \in Keys
          /\ cli'.network = cli.network
      BY <1>0, <2>1, <2>2, NextWithKey, Zenon DEF IInv, InitSteps
    <2>4. TypeOK'
      BY <2>2, <2>3, Zenon DEF IInv, TypeOK
    <2>5. Protected'
      BY <2>2 DEF IInv, Protected
    <2>6. Heights'
      BY <2>2, <2>3 DEF IInv, Heights
    <2>7. HomeOK'
      BY <1>1, <2>2, <2>3 DEF IInv, HomeOK, loadOrCreateEncryptedPrivKey
    <2> QED BY <2>4, <2>5, <2>6, <2>7 DEF IInv
  <1>2. CASE home.enc # None /\ ~(home.enc # Torn)
    <2>1. /\ cli' = Idle /\ spoiled' = TRUE
          /\ UNCHANGED <<home, data, node, made, signed, twice, lost, rolling>>
      BY <1>2 DEF loadOrCreateEncryptedPrivKey, InitStep, Fail
    <2> QED BY <2>1, Zenon DEF IInv, TypeOK, Protected, Heights, HomeOK, Idle
  <1>3. CASE home.enc = None
    <2>1. made + 1 \in Keys /\ made + 1 # None /\ made + 1 # Torn
      BY <1>3, HomeConstants, FileContents DEF IInv, TypeOK, Keys, loadOrCreateEncryptedPrivKey
    <2>2. /\ cli' = [cli EXCEPT !.pc = "sign", !.key = made + 1]
          /\ made' = made + 1 /\ home' = [home EXCEPT !.enc = made + 1]
          /\ UNCHANGED <<data, node, signed, twice, lost, spoiled, rolling>>
      BY <1>3 DEF loadOrCreateEncryptedPrivKey, InitStep
    <2>3. /\ cli' \in InitCommands /\ cli'.pc = "sign" /\ cli'.key \in Keys
          /\ cli'.network = cli.network
      BY <1>0, <2>1, <2>2, NextWithKey, Zenon DEF IInv, InitSteps
    <2>4. /\ DOMAIN home' = DOMAIN home /\ home'.enc = made + 1
          /\ home'.plain = home.plain
          /\ home'.config = home.config /\ home'.story = home.story
          /\ home'.sign = home.sign /\ home'.nodeKey = home.nodeKey
          /\ home'.genesis = home.genesis
      BY <2>2 DEF IInv, TypeOK
    <2>5. TypeOK'
      <3>1. made' \in Nat /\ home'.enc \in Keys
        BY <2>1, <2>2, <2>4 DEF IInv, TypeOK
      <3> QED BY <2>2, <2>3, <2>4, <3>1, ZenonT(30) DEF IInv, TypeOK
    <2>6. Protected'
      BY <2>2, <2>4 DEF IInv, Protected
    <2>7. Heights'
      BY <2>2, <2>3 DEF IInv, Heights
    <2>8. HomeOK'
      BY <2>1, <2>2, <2>3, <2>4 DEF IInv, HomeOK, loadOrCreateEncryptedPrivKey
    <2> QED BY <2>5, <2>6, <2>7, <2>8 DEF IInv
  <1> QED BY <1>1, <1>2, <1>3

\* The keys that signed under a sign state that is replaced have lost it.
LEMMA SaveSignStateStep ==
  ASSUME IInv, SaveSignState
  PROVE IInv'
  <1>1. /\ cli.pc = "sign" /\ cli' \in InitCommands /\ cli'.pc = "nodeKey"
        /\ cli'.key = cli.key /\ cli'.network = cli.network
    BY NextInitStep DEF SaveSignState, IInv, InitSteps
  <1>2. UNCHANGED <<data, node, made, signed, twice, spoiled, rolling>>
    BY DEF SaveSignState, InitStep
  <1>3. /\ DOMAIN home' = DOMAIN home
        /\ home'.config = home.config /\ home'.story = home.story /\ home'.plain = home.plain
        /\ home'.enc = home.enc /\ home'.nodeKey = home.nodeKey /\ home'.genesis = home.genesis
    BY DEF SaveSignState, IInv, TypeOK
  <1>4. home'.sign = 0
    BY DEF SaveSignState, IInv, TypeOK
  <1>5. TypeOK'
    <2>1. home'.sign \in Nat
      BY <1>4
    <2> QED BY <1>1, <1>2, <1>3, <2>1, Zenon DEF IInv, TypeOK
  <1>6. Protected'
    <2>1. lost' = IF home.sign = None THEN lost ELSE lost \cup Signers
      BY DEF SaveSignState
    <2> QED BY <1>2, <2>1 DEF IInv, TypeOK, Protected, Signers
  <1>7. Heights'
    BY <1>1, <1>2 DEF IInv, Heights
  <1>8. HomeOK'
    BY <1>1, <1>2, <1>3, <1>4, FileContents, ZenonT(30) DEF IInv, HomeOK
  <1> QED BY <1>5, <1>6, <1>7, <1>8 DEF IInv

\* The node key is written whole or left as it is.
LEMMA LoadOrGenNodeKeyStep ==
  ASSUME IInv, LoadOrGenNodeKey
  PROVE IInv'
  <1>1. /\ cli.pc = "nodeKey" /\ cli' \in InitCommands /\ cli'.pc = "template"
        /\ cli'.key = cli.key /\ cli'.network = cli.network
    BY NextInitStep DEF LoadOrGenNodeKey, IInv, InitSteps
  <1>2. UNCHANGED <<data, node, made, signed, twice, lost, spoiled, rolling>>
    BY DEF LoadOrGenNodeKey, InitStep
  <1>3. /\ DOMAIN home' = DOMAIN home
        /\ home'.config = home.config /\ home'.story = home.story /\ home'.plain = home.plain
        /\ home'.enc = home.enc /\ home'.sign = home.sign /\ home'.genesis = home.genesis
    BY DEF LoadOrGenNodeKey, IInv, TypeOK
  <1>4. home'.nodeKey = IfAbsent(home.nodeKey, Default)
    BY DEF LoadOrGenNodeKey, IInv, TypeOK
  <1>5. TypeOK'
    BY <1>1, <1>2, <1>3, ZenonT(30) DEF IInv, TypeOK
  <1>6. Protected'
    BY <1>2, <1>3, ZenonT(30) DEF IInv, Protected
  <1>7. Heights'
    BY <1>1, <1>2 DEF IInv, Heights
  <1>8. HomeOK'
    BY <1>1, <1>2, <1>3, <1>4, FileContents, Zenon DEF IInv, HomeOK, IfAbsent
  <1> QED BY <1>5, <1>6, <1>7, <1>8 DEF IInv

\* A genesis file for a known network, or none.
LEMMA WriteTemplateStep ==
  ASSUME IInv, WriteTemplate
  PROVE IInv'
  <1>1. cli.pc = "template" /\ UNCHANGED <<data, node, made, signed, twice, lost, rolling>>
    BY DEF WriteTemplate, InitStep
  <1>2. CASE cli' = Idle /\ spoiled' = TRUE /\ UNCHANGED home
    BY <1>1, <1>2, ZenonT(30) DEF IInv, TypeOK, Protected, Heights, HomeOK, Idle
  <1>3. CASE home.genesis # None /\ Goto("done") /\ UNCHANGED <<home, spoiled>>
    <2>1. cli' \in InitCommands /\ cli'.pc = "done"
      BY <1>1, <1>3, NextInitStep, ZenonT(30) DEF IInv, InitSteps
    <2>2. TypeOK'
      BY <1>1, <1>3, <2>1, ZenonT(30) DEF IInv, TypeOK
    <2>3. Protected'
      BY <1>1, <1>3 DEF IInv, Protected
    <2>4. Heights'
      BY <1>1, <1>3, <2>1 DEF IInv, Heights
    <2>5. HomeOK'
      BY <1>1, <1>3, <2>1, Zenon DEF IInv, HomeOK
    <2> QED BY <2>2, <2>3, <2>4, <2>5 DEF IInv
  <1>4. CASE /\ home.genesis = None /\ cli.network # Unsupported
             /\ home' = [home EXCEPT !.genesis =
                  IF cli.network = Local THEN Template ELSE WellKnown]
             /\ Goto("genesis") /\ UNCHANGED spoiled
    <2>1. cli' \in InitCommands /\ cli'.pc = "genesis" /\ cli'.key = cli.key
      BY <1>1, <1>4, NextInitStep DEF IInv, InitSteps
    <2>2. /\ DOMAIN home' = DOMAIN home /\ home'.genesis \in {Template, WellKnown}
          /\ home'.config = home.config /\ home'.story = home.story
          /\ home'.plain = home.plain /\ home'.enc = home.enc
          /\ home'.sign = home.sign /\ home'.nodeKey = home.nodeKey
      BY <1>4 DEF IInv, TypeOK
    <2>3. TypeOK'
      BY <1>1, <1>4, <2>1, <2>2, ZenonT(30) DEF IInv, TypeOK
    <2>4. Protected'
      BY <1>1, <2>2, ZenonT(30) DEF IInv, Protected
    <2>5. Heights'
      BY <1>1, <2>1 DEF IInv, Heights
    <2>6. HomeOK'
      BY <1>1, <1>4, <2>1, <2>2, FileContents, Zenon DEF IInv, HomeOK
    <2> QED BY <2>3, <2>4, <2>5, <2>6 DEF IInv
  <1> QED BY <1>2, <1>3, <1>4, Zenon DEF WriteTemplate, Fail

\* The addresses of the key take the place of the placeholders.
LEMMA WriteGenesisStep ==
  ASSUME IInv, WriteGenesis
  PROVE IInv'
  <1>1. /\ cli.pc = "genesis" /\ cli' \in InitCommands /\ cli'.pc = "done"
        /\ cli'.key = cli.key /\ cli'.network = cli.network
    BY NextInitStep DEF WriteGenesis, IInv, InitSteps
  <1>2. UNCHANGED <<data, node, made, signed, twice, lost, spoiled, rolling>>
    BY DEF WriteGenesis, InitStep
  <1>3. /\ DOMAIN home' = DOMAIN home
        /\ home'.config = home.config /\ home'.story = home.story /\ home'.plain = home.plain
        /\ home'.enc = home.enc /\ home'.sign = home.sign /\ home'.nodeKey = home.nodeKey
    BY DEF WriteGenesis, IInv, TypeOK
  <1>4. home'.genesis = IF home.genesis = Template THEN cli.key ELSE home.genesis
    BY DEF WriteGenesis, IInv, TypeOK
  <1>5. TypeOK'
    BY <1>1, <1>2, <1>3, ZenonT(30) DEF IInv, TypeOK
  <1>6. Protected'
    BY <1>2, <1>3, Zenon DEF IInv, Protected
  <1>7. Heights'
    BY <1>1, <1>2, ZenonT(30) DEF IInv, Heights
  <1>8. HomeOK'
    <2> SUFFICES ASSUME ~spoiled' PROVE HomeOK'
      BY ZenonT(30) DEF HomeOK
    <2>1. /\ home.config # Torn /\ home.nodeKey # Torn /\ home.enc # Torn /\ home.genesis # Torn
          /\ home.plain # None \/ home.enc # None
          /\ home.sign # None /\ home.story # None /\ home.story \in {Local, Public}
          /\ home.genesis # None /\ cli.key \in Keys
      BY <1>1, <1>2 DEF IInv, HomeOK
    <2>2. home'.genesis # Torn /\ home'.genesis # None /\ home'.genesis # Template
      BY <1>4, <2>1, FileContents DEF Keys
    <2> QED  BY <1>1, <1>3, <2>1, <2>2 DEF HomeOK
  <1> QED BY <1>5, <1>6, <1>7, <1>8 DEF IInv

\* init has returned.
LEMMA InitDoneStep ==
  ASSUME IInv, InitDone
  PROVE IInv'
  <1>1. /\ cli.pc = "done" /\ cli' = Idle
        /\ UNCHANGED <<home, data, node, made, signed, twice, lost, spoiled, rolling>>
    BY DEF InitDone, InitStep
  <1>2. TypeOK'
    BY <1>1, ZenonT(30) DEF IInv, TypeOK
  <1>3. Protected'
    BY <1>1 DEF IInv, Protected
  <1>4. Heights'
    BY <1>1 DEF IInv, Heights, Idle
  <1>5. HomeOK'
    BY <1>1, Zenon DEF IInv, HomeOK, Idle
  <1> QED BY <1>2, <1>3, <1>4, <1>5 DEF IInv

-----------------------------------------------------------------------------
(* story key.                                                              *)

\* The key of .env is written; without a sign state it spoils the home.
LEMMA genValidatorPrivKeyJSONStep ==
  ASSUME IInv, genValidatorPrivKeyJSON
  PROVE IInv'
  <1>1. /\ cli = Idle /\ cli' = Idle /\ cli.pc = "idle"
        /\ UNCHANGED <<data, node, made, signed, twice, lost, rolling>>
    BY DEF genValidatorPrivKeyJSON, Begin, Idle, history
  <1>2. /\ DOMAIN home' = DOMAIN home /\ home'.plain = EnvKey /\ home'.enc = home.enc
        /\ home'.config = home.config /\ home'.story = home.story
        /\ home'.sign = home.sign /\ home'.nodeKey = home.nodeKey
        /\ home'.genesis = home.genesis
    BY DEF genValidatorPrivKeyJSON, IInv, TypeOK
  <1>3. spoiled' = (spoiled \/ home.sign = None)
    BY DEF genValidatorPrivKeyJSON, history
  <1>4. TypeOK'
    BY <1>1, <1>2, <1>3, ZenonT(30) DEF IInv, TypeOK, Keys
  <1>5. Protected'
    BY <1>1, <1>2, ZenonT(30) DEF IInv, Protected
  <1>6. Heights'
    BY <1>1 DEF IInv, Heights
  <1>7. HomeOK'
    BY <1>1, <1>2, <1>3, FileContents, ZenonT(30) DEF IInv, TypeOK, HomeOK
  <1> QED BY <1>4, <1>5, <1>6, <1>7 DEF IInv

\* The key of .env is encrypted; without a sign state it spoils the home.
LEMMA encryptPrivKeyStep ==
  ASSUME IInv, encryptPrivKey
  PROVE IInv'
  <1>1. /\ cli = Idle /\ cli' = Idle /\ cli.pc = "idle"
        /\ UNCHANGED <<data, node, made, signed, twice, lost, rolling>>
    BY DEF encryptPrivKey, Begin, Idle, history
  <1>2. /\ DOMAIN home' = DOMAIN home /\ home'.enc = EnvKey /\ home'.plain = home.plain
        /\ home'.config = home.config /\ home'.story = home.story
        /\ home'.sign = home.sign /\ home'.nodeKey = home.nodeKey
        /\ home'.genesis = home.genesis
    BY DEF encryptPrivKey, IInv, TypeOK
  <1>3. spoiled' = (spoiled \/ home.sign = None)
    BY DEF encryptPrivKey, history
  <1>4. TypeOK'
    BY <1>1, <1>2, <1>3, ZenonT(30) DEF IInv, TypeOK, Keys
  <1>5. Protected'
    BY <1>1, <1>2, ZenonT(30) DEF IInv, Protected
  <1>6. Heights'
    BY <1>1 DEF IInv, Heights
  <1>7. HomeOK'
    BY <1>1, <1>2, <1>3, FileContents, Zenon DEF IInv, TypeOK, HomeOK
  <1> QED BY <1>4, <1>5, <1>6, <1>7 DEF IInv

\* The plain key is moved away and the sign state stays.
LEMMA RemoveKeyStep ==
  ASSUME IInv, RemoveKey
  PROVE IInv'
  <1>1. /\ cli = Idle /\ cli' = Idle /\ cli.pc = "idle"
        /\ UNCHANGED <<data, node, made, signed, twice, lost, rolling>>
    BY DEF RemoveKey, Begin, Idle, history
  <1>2. /\ DOMAIN home' = DOMAIN home /\ home'.plain = None /\ home'.enc = home.enc
        /\ home'.config = home.config /\ home'.story = home.story
        /\ home'.sign = home.sign /\ home'.nodeKey = home.nodeKey
        /\ home'.genesis = home.genesis
    BY DEF RemoveKey, IInv, TypeOK
  <1>3. spoiled' = spoiled
    BY DEF RemoveKey, history
  <1>4. TypeOK'
    BY <1>1, <1>2, <1>3, ZenonT(30) DEF IInv, TypeOK, Keys
  <1>5. Protected'
    BY <1>1, <1>2, ZenonT(30) DEF IInv, Protected
  <1>6. Heights'
    BY <1>1 DEF IInv, Heights
  <1>7. HomeOK'
    BY <1>1, <1>2, <1>3, FileContents, ZenonT(30) DEF IInv, TypeOK, HomeOK
  <1> QED BY <1>4, <1>5, <1>6, <1>7 DEF IInv

-----------------------------------------------------------------------------
(* story run.                                                              *)

\* The node takes up the key and the sign state of the files.
LEMMA StartStep ==
  ASSUME IInv, Start
  PROVE IInv'
  <1>1. UNCHANGED <<data, cli, made, signed, twice, lost, spoiled, rolling>>
    BY DEF Start, history
  <1>2. /\ DOMAIN home' = DOMAIN home /\ home'.nodeKey = IfAbsent(home.nodeKey, Default)
        /\ home'.config = home.config /\ home'.story = home.story
        /\ home'.plain = home.plain /\ home'.enc = home.enc
        /\ home'.sign = home.sign /\ home'.genesis = home.genesis
    BY DEF Start, IInv, TypeOK
  <1>3. /\ home.sign # None /\ home.sign \in Nat
        /\ loadPrivVal.key \in Keys /\ loadPrivVal.last = home.sign
    BY DEF Start, StartFails, CreateAppFails, loadPrivValFails, loadPrivVal, IInv, TypeOK
  <1>4. node' = [up |-> TRUE, key |-> loadPrivVal.key, last |-> loadPrivVal.last]
    BY DEF Start
  <1>5. node' \in [up : {TRUE}, key : Keys, last : Nat] /\ node'.last = home.sign
    BY <1>3, <1>4
  <1>6. TypeOK'
    BY <1>1, <1>2, <1>5, ZenonT(30) DEF IInv, TypeOK
  <1>7. Protected'
    BY <1>1, <1>2, <1>5 DEF IInv, Protected
  <1>8. Heights'
    BY <1>1 DEF IInv, Heights, Start
  <1>9. HomeOK'
    BY <1>1, <1>2, FileContents, Zenon DEF IInv, HomeOK, IfAbsent
  <1> QED BY <1>6, <1>7, <1>8, <1>9 DEF IInv

\* A height above the last sign state is one that no protected key has signed.
LEMMA SignStep ==
  ASSUME IInv, Sign
  PROVE IInv'
  <1>1. PICK h \in Nat : h = data.comet + 1
    BY DEF IInv, TypeOK
  <1>2. /\ node.up /\ h > node.last
        /\ node' = [node EXCEPT !.last = h] /\ home' = [home EXCEPT !.sign = h]
        /\ signed' = [signed EXCEPT ![node.key] = @ \cup {h}]
        /\ twice' = IF h \in signed[node.key] THEN twice \cup {node.key} ELSE twice
        /\ UNCHANGED <<data, cli, made, lost, spoiled, rolling>>
    BY <1>1 DEF Sign
  <1>3. node \in [up : {TRUE}, key : Keys, last : Nat]
    <2>1. node # Down
      BY <1>2 DEF Down
    <2> QED BY <2>1, Zenon DEF IInv, TypeOK
  <1>4. /\ node' \in [up : {TRUE}, key : Keys, last : Nat]
        /\ node'.up = node.up /\ node'.last = h
    BY <1>2, <1>3, Zenon
  <1>5. /\ DOMAIN home' = DOMAIN home /\ home'.sign = h
        /\ home'.config = home.config /\ home'.story = home.story
        /\ home'.plain = home.plain /\ home'.enc = home.enc
        /\ home'.nodeKey = home.nodeKey /\ home'.genesis = home.genesis
    BY <1>2 DEF IInv, TypeOK
  <1>6. signed' \in [Keys -> SUBSET Nat]
    BY <1>2, <1>3 DEF IInv, TypeOK
  <1>7. h # None
    BY FileContents
  <1>8. TypeOK'
    <2>1. home'.sign \in Nat
      BY <1>5
    <2> QED BY <1>2, <1>4, <1>5, <1>6, <2>1, Zenon DEF IInv, TypeOK
  <1>9. Protected'
    <2>1. ASSUME NEW k \in Keys, k \notin lost, NEW g \in signed[k]
          PROVE g \in Nat /\ g < h
      BY <1>2, <1>3, <2>1 DEF IInv, TypeOK, Protected
    <2>2. twice' \subseteq lost'
      <3>1. CASE node.key \in lost
        BY <1>2, <3>1 DEF IInv, Protected
      <3>2. CASE node.key \notin lost
        <4>1. h \notin signed[node.key]
          BY <1>3, <2>1, <3>2
        <4> QED BY <1>2, <4>1 DEF IInv, Protected
      <3> QED BY <3>1, <3>2
    <2>3. ASSUME NEW k \in Keys, k \notin lost, NEW g \in signed'[k]
          PROVE g <= h
      <3>1. g = h \/ g \in signed[k]
        BY <1>2, <1>3, <2>3 DEF IInv, TypeOK
      <3> QED BY <2>1, <2>3, <3>1
    <2> QED BY <1>2, <1>4, <1>5, <1>7, <2>2, <2>3 DEF Protected
  <1>10. Heights'
    BY <1>2, <1>4 DEF IInv, Heights
  <1>11. HomeOK'
    BY <1>2, <1>5, <1>7 DEF IInv, HomeOK
  <1> QED BY <1>8, <1>9, <1>10, <1>11 DEF IInv

\* The block first, then the app, then CometBFT.
LEMMA ApplyBlockStep ==
  ASSUME IInv, ApplyBlock
  PROVE IInv'
  <1>1. node.up /\ UNCHANGED <<home, cli, node, made, signed, twice, lost, spoiled, rolling>>
    BY DEF ApplyBlock, history
  <1>2. data' \in [blocks : Nat, comet : Nat, app : Nat]
    BY DEF ApplyBlock, IInv, TypeOK
  <1>3. TypeOK'
    BY <1>1, <1>2, Zenon DEF IInv, TypeOK
  <1>4. Protected'
    BY <1>1 DEF IInv, Protected
  <1>5. Heights'
    BY <1>1 DEF IInv, TypeOK, Heights, ApplyBlock
  <1>6. HomeOK'
    BY <1>1, Zenon DEF IInv, HomeOK
  <1> QED BY <1>3, <1>4, <1>5, <1>6 DEF IInv

\* The sign state stays on disk.
LEMMA StopStep ==
  ASSUME IInv, Stop
  PROVE IInv'
  <1>1. node' = Down /\ UNCHANGED <<home, data, cli, made, signed, twice, lost, spoiled, rolling>>
    BY DEF Stop, history
  <1>2. TypeOK'
    BY <1>1 DEF IInv, TypeOK
  <1>3. Protected'
    BY <1>1 DEF IInv, Protected, Down
  <1>4. Heights'
    BY <1>1 DEF IInv, Heights, Down
  <1>5. HomeOK'
    BY <1>1, Zenon DEF IInv, HomeOK
  <1> QED BY <1>2, <1>3, <1>4, <1>5 DEF IInv

-----------------------------------------------------------------------------
(* story rollback.                                                         *)

\* A rollback begins beside no node and has gone back to no height.
LEMMA RollbackStep ==
  ASSUME IInv, Rollback
  PROVE IInv'
  <1>1. PICK n \in Rollbacks : cli' = [pc |-> "rollback", left |-> n, last |-> 0]
    BY DEF Rollback, Begin
  <1>2. cli' \in RollbackCommands /\ cli'.pc = "rollback" /\ cli'.last = 0
    BY <1>1, HomeConstants DEF RollbackCommands
  <1>3. /\ ~node.up /\ cli.pc = "idle"
        /\ UNCHANGED <<home, data, node, made, signed, twice, lost, spoiled, rolling>>
    BY DEF Rollback, Begin, Idle, history
  <1>4. TypeOK'
    BY <1>2, <1>3, ZenonT(30) DEF IInv, TypeOK
  <1>5. Protected'
    BY <1>3 DEF IInv, Protected
  <1>6. Heights'
    BY <1>2, <1>3 DEF IInv, Heights
  <1>7. HomeOK'
    BY <1>2, <1>3, Zenon DEF IInv, HomeOK
  <1> QED BY <1>4, <1>5, <1>6, <1>7 DEF IInv

\* Each height gone back over ends with the block store and the state equal.
LEMMA RollbackStateStep ==
  ASSUME IInv, RollbackState
  PROVE IInv'
  <1>1. /\ cli.pc = "rollback" /\ cli.left > 0 /\ cli \in RollbackCommands
        /\ UNCHANGED <<home, node, made, signed, twice, lost, spoiled>>
    BY CommandOf DEF RollbackState, IInv
  <1>2. data' \in [blocks : Nat, comet : Nat, app : Nat] /\ rolling' \in BOOLEAN
    <2>1. data.blocks - 1 \in Nat \/ data.blocks # data.comet + 1
      BY DEF IInv, TypeOK
    <2>2. data.comet - 1 \in Nat \/ ~(data.comet > 1)
      BY DEF IInv, TypeOK
    <2>3. data' \in [blocks : Nat, comet : Nat, app : Nat]
      BY <2>1, <2>2 DEF RollbackState, IInv, TypeOK
    <2>4. rolling' \in BOOLEAN
      BY Zenon DEF RollbackState, IInv, TypeOK
    <2> QED BY <2>3, <2>4
  <1>3. \/ cli' = Idle
        \/ /\ cli' \in RollbackCommands
           /\ cli'.left = 0 => cli'.last = data'.comet /\ cli'.last = data'.blocks
    <2>1. CASE /\ data.blocks = data.comet + 1 /\ data' = [data EXCEPT !.blocks = @ - 1]
               /\ cli' = [cli EXCEPT !.left = @ - 1, !.last = data.comet]
      <3>1. cli.left - 1 \in Nat /\ data.comet \in Nat
        BY <1>1 DEF RollbackCommands, IInv, TypeOK
      <3>2. [cli EXCEPT !.left = cli.left - 1] \in RollbackCommands
        BY <1>1, <3>1 DEF RollbackCommands
      <3>3. cli' = [[cli EXCEPT !.left = cli.left - 1] EXCEPT !.last = data.comet]
        BY <2>1
      <3>4. cli' \in RollbackCommands /\ cli'.last = data.comet
        BY <3>1, <3>2, <3>3, ZenonT(30) DEF RollbackCommands
      <3>5. data'.comet = data.comet /\ data'.blocks = data.comet
        BY <2>1 DEF IInv, TypeOK
      <3> QED BY <3>4, <3>5
    <2>2. CASE UNCHANGED cli
      BY <1>1, <2>2 DEF RollbackCommands
    <2> QED BY <2>1, <2>2 DEF RollbackState
  <1>4. cli'.pc \in {"idle", "rollback"}
    BY <1>3 DEF Idle, RollbackCommands
  <1>5. TypeOK'
    BY <1>1, <1>2, <1>3, Zenon DEF IInv, TypeOK
  <1>6. Protected'
    BY <1>1, Zenon DEF IInv, Protected
  <1>7. Heights'
    <2>1. data'.blocks = data'.comet \/ data'.blocks = data'.comet + 1
      BY DEF RollbackState, IInv, TypeOK
    <2>2. rolling' \/ (data' = data /\ rolling' = rolling)
      BY DEF RollbackState
    <2> QED BY <1>1, <1>3, <2>1, <2>2 DEF IInv, Heights, Idle
  <1>8. HomeOK'
    BY <1>1, <1>4, Zenon DEF IInv, HomeOK
  <1> QED BY <1>5, <1>6, <1>7, <1>8 DEF IInv

\* The app goes back to the height that CometBFT is at.
LEMMA RollbackToVersionStep ==
  ASSUME IInv, RollbackToVersion
  PROVE IInv'
  <1>1. /\ cli.pc = "rollback" /\ cli.left = 0 /\ cli' = Idle /\ cli \in RollbackCommands
        /\ UNCHANGED <<home, node, made, signed, twice, lost, spoiled>>
    BY CommandOf DEF RollbackToVersion, IInv
  <1>2. \/ cli.last > 0 /\ data' = [data EXCEPT !.app = cli.last] /\ rolling' = FALSE
        \/ UNCHANGED <<data, rolling>>
    BY DEF RollbackToVersion
  <1>3. data' \in [blocks : Nat, comet : Nat, app : Nat] /\ rolling' \in BOOLEAN
    BY <1>1, <1>2, Zenon DEF IInv, TypeOK, RollbackCommands
  <1>4. TypeOK'
    BY <1>1, <1>3, Zenon DEF IInv, TypeOK
  <1>5. Protected'
    BY <1>1, Zenon DEF IInv, Protected
  <1>6. Heights'
    BY <1>1, <1>2 DEF IInv, TypeOK, Heights, Idle
  <1>7. HomeOK'
    BY <1>1, Zenon DEF IInv, HomeOK, Idle
  <1> QED BY <1>4, <1>5, <1>6, <1>7 DEF IInv

-----------------------------------------------------------------------------
(* The machine goes down.                                                  *)

\* A crash spoils the home exactly where it leaves a step of init half done.
LEMMA CrashStep ==
  ASSUME IInv, Crash
  PROVE IInv'
  <1>1. node' = Down /\ cli' = Idle /\ UNCHANGED <<made, signed, twice, rolling>>
    BY Zenon DEF Crash
  <1>2. CASE spoiled' = (spoiled \/ HalfMade) /\ UNCHANGED <<home, data, lost>>
    <2>1. TypeOK'
      BY <1>1, <1>2 DEF IInv, TypeOK
    <2>2. Protected'
      BY <1>1, <1>2, ZenonT(30) DEF IInv, Protected, Down
    <2>3. Heights'
      BY <1>1, <1>2 DEF IInv, Heights, Idle
    <2>4. HomeOK'
      BY <1>1, <1>2, Zenon DEF IInv, HomeOK, HalfMade, Idle
    <2> QED BY <2>1, <2>2, <2>3, <2>4 DEF IInv
  <1>3. CASE /\ Writing # "none" /\ home' = [home EXCEPT ![Writing] = Torn]
             /\ spoiled' = TRUE /\ UNCHANGED <<data, lost>>
    <2>1. Writing \in {"config", "story", "enc", "nodeKey", "genesis"}
      BY <1>3, Zenon DEF Writing
    <2>2. /\ DOMAIN home' = DOMAIN home /\ home'.plain = home.plain
          /\ home'.enc \in {home.enc, Torn} /\ home'.sign = home.sign
      BY <1>3, <2>1, Zenon DEF IInv, TypeOK
    <2>3. TypeOK'
      BY <1>1, <1>3, <2>2, Zenon DEF IInv, TypeOK
    <2>4. Protected'
      BY <1>1, <1>3, <2>2, Zenon DEF IInv, Protected, Down
    <2>5. Heights'
      BY <1>1, <1>3, Zenon DEF IInv, Heights, Idle
    <2>6. HomeOK'
      BY <1>3 DEF HomeOK
    <2> QED BY <2>3, <2>4, <2>5, <2>6 DEF IInv
  <1>4. CASE home' = [Empty EXCEPT !.sign = home.sign] /\ UNCHANGED <<data, lost, spoiled>>
    <2>1. home' = [config |-> None, story |-> None, plain |-> None, enc |-> None,
                   sign |-> home.sign, nodeKey |-> None, genesis |-> None, stray |-> FALSE]
      BY <1>4, ZenonT(30) DEF Empty
    <2>2. TypeOK'
      BY <1>1, <1>4, <2>1 DEF IInv, TypeOK
    <2>3. Protected'
      BY <1>1, <1>4, <2>1 DEF IInv, Protected, Down
    <2>4. Heights'
      BY <1>1, <1>4 DEF IInv, Heights, Idle
    <2>5. HomeOK'
      BY <1>1, <2>1, FileContents, Zenon DEF HomeOK, Idle
    <2> QED BY <2>2, <2>3, <2>4, <2>5 DEF IInv
  <1>5. CASE /\ home' = [home EXCEPT !.sign = None] /\ data' = NoData
             /\ lost' = lost \cup Signers /\ spoiled' = TRUE
    <2>1. /\ DOMAIN home' = DOMAIN home /\ home'.plain = home.plain
          /\ home'.enc = home.enc /\ home'.sign = None
      BY <1>5 DEF IInv, TypeOK
    <2>2. TypeOK'
      BY <1>1, <1>5, <2>1 DEF IInv, TypeOK, NoData
    <2>3. Protected'
      BY <1>1, <1>5 DEF IInv, TypeOK, Protected, Signers
    <2>4. Heights'
      BY <1>1, <1>5 DEF IInv, Heights, Idle, NoData
    <2>5. HomeOK'
      BY <1>5 DEF HomeOK
    <2> QED BY <2>2, <2>3, <2>4, <2>5 DEF IInv
  <1> QED BY <1>2, <1>3, <1>4, <1>5, ZenonT(30) DEF Crash

-----------------------------------------------------------------------------
(* The theorems.                                                           *)

\* An empty home, with or without a stray file.
LEMMA InitIInv ==
  ASSUME Init
  PROVE IInv
  <1>1. /\ DOMAIN home = {"config", "story", "plain", "enc", "sign", "nodeKey", "genesis", "stray"}
        /\ home.config = None /\ home.story = None /\ home.plain = None /\ home.enc = None
        /\ home.sign = None /\ home.nodeKey = None /\ home.genesis = None
    BY DEF Init, Empty
  <1>2. TypeOK
    BY <1>1, Zenon DEF Init, TypeOK, NoData
  <1>3. Protected
    BY DEF Init, Protected
  <1>4. Heights
    BY DEF Init, Heights, NoData, Idle
  <1>5. HomeOK
    BY <1>1, FileContents DEF Init, HomeOK, Idle
  <1> QED BY <1>2, <1>3, <1>4, <1>5 DEF IInv

\* A step that changes nothing.
LEMMA StutterIInv ==
  ASSUME IInv, UNCHANGED vars
  PROVE IInv'
  <1>1. UNCHANGED <<home, data, cli, node, made, signed, twice, lost, spoiled, rolling>>
    BY DEF vars, history
  <1>2. TypeOK'
    BY <1>1, ZenonT(30) DEF IInv, TypeOK
  <1>3. Protected'
    BY <1>1 DEF IInv, Protected
  <1>4. Heights'
    BY <1>1 DEF IInv, Heights
  <1>5. HomeOK'
    BY <1>1, ZenonT(30) DEF IInv, HomeOK
  <1> QED BY <1>2, <1>3, <1>4, <1>5 DEF IInv

\* The invariant holds of every home that the commands, the node and crashes
\* can make, for any number of each.
THEOREM Invariance == Spec => []IInv
  <1>1. Init => IInv
    BY InitIInv
  <1>2. IInv /\ [Next]_vars => IInv'
    <2> SUFFICES ASSUME IInv, [Next]_vars PROVE IInv'
      OBVIOUS
    <2>1. CASE InitFiles
      BY <2>1, InitFilesStep
    <2>2. CASE prepareHomeDirectory
      BY <2>2, prepareHomeDirectoryStep, ZenonT(30)
    <2>3. CASE WriteConfig
      BY <2>3, WriteConfigStep
    <2>4. CASE WriteConfigTOML
      BY <2>4, WriteConfigTOMLStep
    <2>5. CASE loadOrCreatePrivKey
      BY <2>5, loadOrCreatePrivKeyStep
    <2>6. CASE loadOrCreateEncryptedPrivKey
      BY <2>6, loadOrCreateEncryptedPrivKeyStep
    <2>7. CASE SaveSignState
      BY <2>7, SaveSignStateStep
    <2>8. CASE LoadOrGenNodeKey
      BY <2>8, LoadOrGenNodeKeyStep
    <2>9. CASE WriteTemplate
      BY <2>9, WriteTemplateStep
    <2>10. CASE WriteGenesis
      BY <2>10, WriteGenesisStep
    <2>11. CASE InitDone
      BY <2>11, InitDoneStep
    <2>12. CASE genValidatorPrivKeyJSON
      BY <2>12, genValidatorPrivKeyJSONStep
    <2>13. CASE encryptPrivKey
      BY <2>13, encryptPrivKeyStep
    <2>14. CASE RemoveKey
      BY <2>14, RemoveKeyStep
    <2>15. CASE Start
      BY <2>15, StartStep
    <2>16. CASE Sign
      BY <2>16, SignStep
    <2>17. CASE ApplyBlock
      BY <2>17, ApplyBlockStep
    <2>18. CASE Stop
      BY <2>18, StopStep
    <2>19. CASE Rollback
      BY <2>19, RollbackStep
    <2>20. CASE RollbackState
      BY <2>20, RollbackStateStep
    <2>21. CASE RollbackToVersion
      BY <2>21, RollbackToVersionStep
    <2>22. CASE Crash
      BY <2>22, CrashStep
    <2>23. CASE UNCHANGED vars
      BY <2>23, StutterIInv, Zenon
    <2> QED BY <2>1, <2>2, <2>3, <2>4, <2>5, <2>6, <2>7, <2>8, <2>9, <2>10, <2>11, <2>12, <2>13, <2>14, <2>15, <2>16, <2>17, <2>18, <2>19, <2>20, <2>21, <2>22, <2>23 DEF Next
  <1> QED BY <1>1, <1>2, PTL DEF Spec

\* No order of restarts, crashes, rollbacks and key commands makes a key sign
\* a height twice, unless its sign state was dropped after it had signed.
THEOREM NoDoubleSign == Spec => []SignsOnce
  <1>1. IInv => SignsOnce
    BY DEF IInv, Protected, SignsOnce
  <1> QED BY <1>1, Invariance, PTL

\* An init that returns leaves a home that the node starts from, whatever
\* commands came before, unless one of them was cut off or failed half way.
THEOREM InitLeavesStartable == Spec => []StartsAfterInit
  <1>1. IInv => StartsAfterInit
    BY ZenonT(30) DEF IInv, TypeOK, HomeOK, StartsAfterInit, StartFails, CreateAppFails, loadPrivValFails, Whole
  <1> QED BY <1>1, Invariance, PTL

\* CometBFT and the app stay within the block that a restart replays, except
\* from a rollback that was cut off to the next that completes.
THEOREM HeightsInStep == Spec => []InStep
  <1>1. IInv => InStep
    BY DEF IInv, TypeOK, Heights, InStep
  <1> QED BY <1>1, Invariance, PTL
=============================================================================
