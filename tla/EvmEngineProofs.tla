-------------------------- MODULE EvmEngineProofs --------------------------
(***************************************************************************)
(* Safety of the engine for any number of validators, heights, rounds,     *)
(* crashes and restarts: a block that was voted on passes every check of   *)
(* its finalisation, every node computes the same states, withdrawals are  *)
(* paid and events delivered once, the execution layer follows the decided *)
(* chain, an honest proposal is never refused, and only restarts end the   *)
(* trap of nodes that cannot vote.                                         *)
(*                                                                         *)
(* The argument rests on what a vote means (Passed): it was checked        *)
(* against the state after the last decided block, and that is the state   *)
(* of every node that finalises the block, however often it starts again.  *)
(***************************************************************************)
EXTENDS EvmEngine, CommitQuorum, QueueLemmas

-----------------------------------------------------------------------------
(* The inductive invariant.                                                *)

IsSequence(s) == s \in Seq({s[i] : i \in DOMAIN s})

\* The execution block of consensus height h; the first two heights have the
\* genesis block.
ExecBlock(h) == IF h <= 1 THEN GenesisBlock ELSE chain[h].msg.payload

ExecNumber(h) == IF h <= 1 THEN 0 ELSE h - 1

\* An application state: its fields, and the history of both queues.
IsApp(a) ==
  /\ DOMAIN a = {"height", "head", "wq", "rq", "delivered", "dueStake", "dueReward",
                 "paidStake", "paidReward"}
  /\ a.height \in Nat
  /\ a.head.number \in Nat /\ a.head.number = a.head.hash.number
  /\ a.head.time \in Nat /\ a.head.time = a.head.hash.time
  /\ IsQueue(a.wq, Withdrawals) /\ IsQueue(a.rq, Withdrawals)
  /\ a.dueStake \in Seq(Withdrawals) /\ a.dueReward \in Seq(Withdrawals)
  /\ a.paidStake \in Seq([index : Nat, w : Withdrawals])
  /\ a.paidReward \in Seq([index : Nat, w : Withdrawals])
  /\ QueueHistory(a.wq, a.dueStake, a.paidStake)
  /\ QueueHistory(a.rq, a.dueReward, a.paidReward)

\* What a vote for msg at height h stands for, when a is the state before.
Passed(a, h, msg, time) ==
  IF h = 1 THEN msg = None
  ELSE /\ msg # None
       /\ parseAndVerify(a, h, time, msg)
       /\ compareWithdrawals(a, msg.payload.wds)
       /\ ValidChild(msg.payload, a.height)
       /\ msg.events = msg.payload.parent.logs
       /\ msg.payload.time \in Nat

ChainOK ==
  /\ IsSequence(chain) /\ IsSequence(ledger)
  /\ Len(ledger) = Len(chain) + 1
  /\ \A h \in 1 .. Len(chain) :
       /\ chain[h].time \in Nat /\ chain[h].due \in Batches
       /\ Passed(ledger[h], h, chain[h].msg, chain[h].time)
       /\ ledger[h + 1] = Finalized(ledger[h], chain[h], TRUE)
  /\ \A h \in 0 .. Len(chain) :
       LET a == ledger[h + 1]
       IN  /\ IsApp(a) /\ a.height = h
           /\ a.head.hash = ExecBlock(h) /\ a.head.number = ExecNumber(h)
           /\ a.delivered = LogsBelow(a)

VotesOK ==
  /\ accepted = [n \in Nodes |-> accepted[n]]
  /\ \A n \in Nodes : \A p \in accepted[n] :
       p.time \in Nat /\ Passed(ledger[Len(ledger)], Height, p.msg, p.time)

\* p.msg.payload was built on the state a, for a time no later than p.time.
Honest(p, a) ==
  /\ p.msg = Message(Height, p.msg.payload)
  /\ \E s \in 0 .. p.time, logs \in Logs(a.head.number + 1) :
       p.msg.payload = startBuild(a, s, logs)

ProposalsOK ==
  /\ proposals = [n \in Nodes |-> proposals[n]]
  /\ \A n \in Nodes : proposals[n] # None =>
       /\ proposals[n].time \in Nat
       /\ Height > 1 => Honest(proposals[n], ledger[Len(ledger)])

OptOK ==
  /\ opt = [n \in Nodes |-> opt[n]]
  /\ \A n \in Nodes : opt[n].height # 0 =>
       /\ opt[n].height \in 2 .. Height
       /\ \E logs \in Logs(ledger[opt[n].height].head.number + 1) :
            opt[n].payload = startBuild(ledger[opt[n].height], chain[opt[n].height - 1].time, logs)

NodeOK(n) ==
  /\ app[n].height \in 0 .. Len(chain)
  /\ app[n] = ledger[app[n].height + 1]
  /\ work[n] = [pc |-> work[n].pc, ok |-> TRUE, app |-> work[n].app]
  /\ work[n].pc # "idle" => Behind(n)
  /\ work[n].pc = "pushed" => NextBlock(n).msg # None
  /\ work[n].pc = "finalized" => work[n].app = ledger[app[n].height + 2]

NodesOK ==
  /\ app = [n \in Nodes |-> app[n]] /\ work = [n \in Nodes |-> work[n]]
  /\ syncing = [n \in Nodes |-> syncing[n]]
  /\ \A n \in Nodes : NodeOK(n)

\* An EL has the decided blocks below every block it has, and its head and
\* target are decided blocks with a number of at most top.
IsEl(e, top) ==
  /\ DOMAIN e = {"known", "head", "target", "builds"}
  /\ \A b \in e.known : b.number \in 0 .. Len(chain)
  /\ \A b \in e.known, d \in Decided : d.number < b.number => d \in e.known
  /\ e.head \in e.known \cap Decided /\ e.target \in Decided
  /\ e.head.number <= top /\ e.target.number <= top

\* It follows the decided chain up to the block after the committed one.
ElsOK ==
  /\ el = [n \in Nodes |-> el[n]]
  /\ \A n \in Nodes : IsEl(el[n], app[n].height)

IInv == ChainOK /\ VotesOK /\ ProposalsOK /\ OptOK /\ NodesOK /\ ElsOK /\ crashes \in Nat
-----------------------------------------------------------------------------
(* The quorum that a block carries.                                        *)

\* The rounded division loses nothing: the handler of ProcessProposal goes on
\* exactly when strictly more than two thirds of the power voted.
THEOREM QuorumIsExact ==
  ASSUME NEW total \in Nat, NEW voted \in Nat
  PROVE  ~MissesQuorum(total, voted) <=> 3 * voted > 2 * total
<1>1. PICK q \in Nat : q = (total * 2) \div 3
  OBVIOUS
<1>2. 3 * q <= total * 2 /\ total * 2 < 3 * q + 3
  BY <1>1
<1> QED
  BY <1>1, <1>2 DEF MissesQuorum

\* Two commits that the handler accepts for one validator set have more than a
\* third of the power in common: of two conflicting blocks only one can be the
\* parent that proposals build on, unless a third of the power voted for both.
THEOREM QuorumsIntersect ==
  ASSUME NEW total \in Nat, NEW a \in Nat, NEW b \in Nat, NEW both \in Nat,
         a + b - both <= total,
         ~MissesQuorum(total, a), ~MissesQuorum(total, b)
  PROVE  3 * both > total
<1>1. 3 * a > 2 * total /\ 3 * b > 2 * total
  BY QuorumIsExact, Zenon
<1> QED
  BY <1>1
-----------------------------------------------------------------------------
(* Sequences and queues.                                                   *)

\* A sequence is a sequence of its own elements.
LEMMA SequenceOf ==
  ASSUME NEW S, NEW s \in Seq(S)
  PROVE  IsSequence(s)
<1>1. Len(s) \in Nat /\ s \in [1 .. Len(s) -> S] /\ DOMAIN s = 1 .. Len(s)
  BY LenProperties, Zenon
<1>2. s \in [1 .. Len(s) -> {s[i] : i \in DOMAIN s}]
  BY <1>1
<1> QED  BY <1>1, <1>2, SeqDef DEF IsSequence

\* Appending keeps what there was and adds one element at the end.
LEMMA AppendSequence ==
  ASSUME NEW s, NEW x, IsSequence(s)
  PROVE  /\ IsSequence(Append(s, x))
         /\ Len(s) \in Nat
         /\ Len(Append(s, x)) = Len(s) + 1
         /\ \A i \in 1 .. Len(s) : Append(s, x)[i] = s[i]
         /\ Append(s, x)[Len(s) + 1] = x
<1> DEFINE S == {s[i] : i \in DOMAIN s} \cup {x}
<1>1. s \in Seq(S)
  BY SeqMonotonic, Zenon DEF IsSequence
<1> HIDE DEF S
<1>2. x \in S
  BY DEF S
<1>3. /\ Append(s, x) \in Seq(S) /\ Len(Append(s, x)) = Len(s) + 1
      /\ \A i \in 1 .. Len(s) : Append(s, x)[i] = s[i]
      /\ Append(s, x)[Len(s) + 1] = x
  BY <1>1, <1>2, AppendProperties
<1>4. IsSequence(Append(s, x))
  BY <1>3, SequenceOf, Zenon
<1>5. Len(s) \in Nat
  BY <1>1, LenProperties, Zenon
<1> QED  BY <1>3, <1>4, <1>5

\* Paying what a peek returns and dequeuing as much keeps a queue in step
\* with its history.
LEMMA DequeueHistory ==
  ASSUME NEW q, NEW due \in Seq(Withdrawals), NEW paid \in Seq([index : Nat, w : Withdrawals]),
         IsQueue(q, Withdrawals), QueueHistory(q, due, paid), NEW max \in Nat, NEW s,
         s \in Seq([index : Nat, w : Withdrawals]), Len(s) = Eligible(q, max),
         \A i \in 1 .. Len(s) : s[i] = PeekEligible(q, max)[i]
  PROVE  /\ QueueHistory(AfterDequeue(q, max), due, paid \o s)
         /\ paid \o s \in Seq([index : Nat, w : Withdrawals])
<1> DEFINE n == Eligible(q, max)
           d == AfterDequeue(q, max)
<1>1. n \in Nat /\ n <= QueueLen(q) /\ q.front \in Nat /\ q.rear \in Nat /\ q.front <= q.rear
  BY EligibleBounds, Zenon DEF IsQueue
<1>2. /\ IsQueue(d, Withdrawals) /\ d.front = q.front + n /\ d.rear = q.rear
      /\ \A k \in (q.front + n) .. (q.rear - 1) : d.elements[k] = q.elements[k]
  <2>1. IsQueue(d, Withdrawals)
    BY AfterDequeueQueue, Zenon
  <2>2. d.front = q.front + n /\ d.rear = q.rear
    BY AfterDequeueQueue, Zenon
  <2>3. \A k \in (q.front + n) .. (q.rear - 1) : d.elements[k] = q.elements[k]
    BY DEF AfterDequeue
  <2> QED  BY <2>1, <2>2, <2>3, Zenon
<1>3. /\ q.front = Len(paid) /\ q.rear = Len(due)
      /\ \A k \in q.front .. (q.rear - 1) : q.elements[k] = due[k + 1]
      /\ \A i \in 1 .. Len(paid) : paid[i] = [index |-> i - 1, w |-> due[i]]
  BY DEF QueueHistory
<1>4. /\ paid \o s \in Seq([index : Nat, w : Withdrawals])
      /\ Len(paid \o s) = Len(paid) + n
      /\ \A i \in 1 .. Len(paid) + n :
           (paid \o s)[i] = IF i <= Len(paid) THEN paid[i] ELSE s[i - Len(paid)]
  <2>1. /\ paid \o s \in Seq([index : Nat, w : Withdrawals])
        /\ Len(paid \o s) = Len(paid) + Len(s)
        /\ \A i \in 1 .. Len(paid) + Len(s) :
             (paid \o s)[i] = IF i <= Len(paid) THEN paid[i] ELSE s[i - Len(paid)]
    BY ConcatProperties, Zenon
  <2> QED  BY <2>1, Zenon
<1>5. \A i \in 1 .. n : s[i] = [index |-> q.front + (i - 1), w |-> q.elements[q.front + (i - 1)]]
  BY PeekEligibleSeq, ZenonT(30)
<1> HIDE DEF n, d
<1>6. \A k \in d.front .. (d.rear - 1) : d.elements[k] = due[k + 1]
  BY <1>1, <1>2, <1>3
<1>7. ASSUME NEW i \in 1 .. Len(paid \o s)
      PROVE  (paid \o s)[i] = [index |-> i - 1, w |-> due[i]]
  <2>1. CASE i <= Len(paid)
    BY <1>1, <1>3, <1>4, <2>1
  <2>2. CASE ~(i <= Len(paid))
    <3>1. i - Len(paid) \in 1 .. n /\ (paid \o s)[i] = s[i - Len(paid)]
      BY <1>1, <1>3, <1>4, <2>2
    <3>2. q.front + ((i - Len(paid)) - 1) = i - 1 /\ i - 1 \in q.front .. (q.rear - 1)
      BY <1>1, <1>3, <1>4, <2>2 DEF QueueLen
    <3>3. s[i - Len(paid)] = [index |-> i - 1, w |-> q.elements[i - 1]]
      BY <1>5, <3>1, <3>2
    <3>4. q.elements[i - 1] = due[i]
      BY <1>3, <3>2
    <3> QED  BY <3>1, <3>3, <3>4
  <2> QED  BY <2>1, <2>2
<1> QED  BY <1>1, <1>2, <1>3, <1>4, <1>6, <1>7, Zenon DEF QueueHistory, d

\* So does enqueuing what becomes due.
LEMMA EnqueueHistory ==
  ASSUME NEW q, NEW due \in Seq(Withdrawals), NEW paid \in Seq([index : Nat, w : Withdrawals]),
         IsQueue(q, Withdrawals), QueueHistory(q, due, paid), NEW s \in Seq(Withdrawals)
  PROVE  QueueHistory(EnqueueAll(q, s), due \o s, paid) /\ due \o s \in Seq(Withdrawals)
<1> DEFINE e == EnqueueAll(q, s)
<1>1. /\ e.front = q.front /\ e.rear = q.rear + Len(s)
      /\ \A k \in q.front .. (q.rear + Len(s) - 1) :
           e.elements[k] = IF k < q.rear THEN q.elements[k] ELSE s[k - q.rear + 1]
  BY EnqueueAllQueue, ZenonT(30)
<1>2. /\ q.front = Len(paid) /\ q.rear = Len(due)
      /\ \A k \in q.front .. (q.rear - 1) : q.elements[k] = due[k + 1]
      /\ \A i \in 1 .. Len(paid) : paid[i] = [index |-> i - 1, w |-> due[i]]
      /\ Len(paid) \in Nat /\ Len(due) \in Nat /\ Len(s) \in Nat /\ Len(paid) <= Len(due)
  BY DEF QueueHistory, IsQueue
<1>3. /\ due \o s \in Seq(Withdrawals) /\ Len(due \o s) = Len(due) + Len(s)
      /\ \A i \in 1 .. Len(due) + Len(s) :
           (due \o s)[i] = IF i <= Len(due) THEN due[i] ELSE s[i - Len(due)]
  BY ConcatProperties, Zenon
<1> HIDE DEF e
<1>4. ASSUME NEW k \in e.front .. (e.rear - 1)
      PROVE  e.elements[k] = (due \o s)[k + 1]
  <2>1. k + 1 \in 1 .. Len(due) + Len(s) /\ k \in q.front .. (q.rear + Len(s) - 1)
    BY <1>1, <1>2
  <2>2. CASE k < q.rear
    BY <1>1, <1>2, <1>3, <2>1, <2>2
  <2>3. CASE ~(k < q.rear)
    <3>1. (k + 1) - Len(due) = k - q.rear + 1 /\ ~(k + 1 <= Len(due))
      BY <1>2, <2>1, <2>3
    <3> QED  BY <1>1, <1>3, <2>1, <2>3, <3>1
  <2> QED  BY <2>2, <2>3, Zenon
<1>5. \A i \in 1 .. Len(paid) : paid[i] = [index |-> i - 1, w |-> (due \o s)[i]]
  BY <1>2, <1>3
<1> QED  BY <1>1, <1>2, <1>3, <1>4, <1>5 DEF QueueHistory, e
-----------------------------------------------------------------------------
(* Application states.                                                     *)

\* A payload that compareWithdrawals takes is cut where the two dequeues cut
\* the queues, and lists what they remove.
LEMMA ComparedWithdrawals ==
  ASSUME NEW a, IsApp(a), NEW wds, compareWithdrawals(a, wds)
  PROVE  LET ns == Eligible(a.wq, MaxWithdrawalPerBlock)
             b  == RewardBudget(a.wq, MaxWithdrawalPerBlock)
             nr == Eligible(a.rq, b)
         IN  /\ ns \in Nat /\ b \in Nat /\ nr \in Nat
             /\ Len(wds) = ns + nr
             /\ Len(ExpectedWithdrawals(a)) = Len(wds)
             /\ \A i \in 1 .. ns : wds[i] = PeekEligible(a.wq, MaxWithdrawalPerBlock)[i]
             /\ \A i \in 1 .. nr : wds[ns + i] = PeekEligible(a.rq, b)[i]
<1> DEFINE M  == MaxWithdrawalPerBlock
           ns == Eligible(a.wq, M)
           b  == RewardBudget(a.wq, M)
           nr == Eligible(a.rq, b)
<1>1. M \in Nat /\ IsQueue(a.wq, Withdrawals) /\ IsQueue(a.rq, Withdrawals)
  BY EngineConstants, Zenon DEF IsApp
<1>2. b \in Nat
  BY <1>1, PayloadWithdrawalsSeq, Zenon
<1>3. ns \in Nat /\ PeekEligible(a.wq, M) \in Seq([index : Nat, w : Withdrawals])
      /\ Len(PeekEligible(a.wq, M)) = ns
  BY <1>1, EligibleBounds, PeekEligibleSeq, Zenon
<1>4. nr \in Nat /\ PeekEligible(a.rq, b) \in Seq([index : Nat, w : Withdrawals])
      /\ Len(PeekEligible(a.rq, b)) = nr
  BY <1>1, <1>2, EligibleBounds, PeekEligibleSeq, ZenonT(30)
<1>5. M - Len(PeekEligible(a.wq, M)) = b
  BY <1>3 DEF RewardBudget
<1>6. /\ ns + nr = Len(wds)
      /\ \A i \in 1 .. ns : wds[i] = PeekEligible(a.wq, M)[i]
      /\ \A i \in 1 .. nr : wds[ns + i] = PeekEligible(a.rq, b)[i]
  BY <1>3, <1>4, <1>5 DEF compareWithdrawals
<1>7. Len(ExpectedWithdrawals(a)) = ns + nr
  <2>1. Len(PeekEligible(a.wq, M) \o PeekEligible(a.rq, b)) = ns + nr
    BY <1>3, <1>4, ConcatProperties, Zenon
  <2> QED  BY <2>1 DEF ExpectedWithdrawals, PayloadWithdrawals
<1> QED  BY <1>2, <1>3, <1>4, <1>6, <1>7

\* The events processed by the blocks up to msg's.
DeliveredWith(a, msg) == Append(a.delivered, msg.payload.parent.logs)

\* What an accepted payload does to a state.
LEMMA ExecuteState ==
  ASSUME NEW a, IsApp(a), NEW h \in Nat, h # 1, NEW msg, NEW time, Passed(a, h, msg, time)
  PROVE  /\ IsApp(Execute(a, msg))
         /\ Execute(a, msg).height = a.height
         /\ Execute(a, msg).head.hash = msg.payload
         /\ Execute(a, msg).head.number = a.head.number + 1
         /\ Execute(a, msg).delivered = DeliveredWith(a, msg)
<1> DEFINE M  == MaxWithdrawalPerBlock
           p  == msg.payload
           ns == Eligible(a.wq, M)
           b  == RewardBudget(a.wq, M)
           nr == Eligible(a.rq, b)
           s1 == SubSeq(p.wds, 1, ns)
           s2 == SubSeq(p.wds, ns + 1, Len(p.wds))
           W  == [index : Nat, w : Withdrawals]
           e  == Execute(a, msg)
<1>1. /\ parseAndVerify(a, h, time, msg) /\ compareWithdrawals(a, p.wds)
      /\ msg.events = p.parent.logs /\ p.time \in Nat
  BY DEF Passed
<1>2. p.number = a.head.number + 1 /\ a.head.number + 1 \in Nat
  BY <1>1 DEF parseAndVerify, IsApp
<1>3. M \in Nat /\ IsQueue(a.wq, Withdrawals) /\ IsQueue(a.rq, Withdrawals)
  BY EngineConstants, Zenon DEF IsApp
<1>4. /\ ns \in Nat /\ b \in Nat /\ nr \in Nat /\ Len(p.wds) = ns + nr
      /\ \A i \in 1 .. ns : p.wds[i] = PeekEligible(a.wq, M)[i]
      /\ \A i \in 1 .. nr : p.wds[ns + i] = PeekEligible(a.rq, b)[i]
  BY <1>1, ComparedWithdrawals, Zenon
<1>5. \A i \in 1 .. ns : PeekEligible(a.wq, M)[i] \in W
  <2>1. PeekEligible(a.wq, M) \in Seq(W) /\ Len(PeekEligible(a.wq, M)) = ns
    BY <1>3, PeekEligibleSeq, Zenon
  <2> QED  BY <2>1, ElementOfSeq, Zenon
<1>5a. \A i \in 1 .. nr : PeekEligible(a.rq, b)[i] \in W
  <2>1. PeekEligible(a.rq, b) \in Seq(W) /\ Len(PeekEligible(a.rq, b)) = nr
    <3>1. b \in Nat /\ IsQueue(a.rq, Withdrawals)
      BY <1>3, <1>4, Zenon
    <3> QED  BY <3>1, PeekEligibleSeq, Zenon
  <2> QED  BY <2>1, ElementOfSeq, Zenon
<1>6. /\ DOMAIN e = DOMAIN a /\ e.height = a.height
      /\ e.head = [number |-> p.number, hash |-> p, time |-> p.time]
      /\ e.wq = AfterDequeue(a.wq, M) /\ e.rq = AfterDequeue(a.rq, b)
      /\ e.delivered = Append(a.delivered, msg.events)
      /\ e.dueStake = a.dueStake /\ e.dueReward = a.dueReward
      /\ e.paidStake = a.paidStake \o s1 /\ e.paidReward = a.paidReward \o s2
  <2>1. DOMAIN a = {"height", "head", "wq", "rq", "delivered", "dueStake", "dueReward",
                    "paidStake", "paidReward"}
    BY DEF IsApp
  <2> QED  BY <2>1, Zenon DEF Execute
<1> HIDE DEF ns, b, nr, e, M
<1>7. s1 \in Seq(W) /\ Len(s1) = ns /\ \A i \in 1 .. ns : s1[i] = PeekEligible(a.wq, M)[i]
  <2>1. \A i \in 1 .. ns : p.wds[i] \in W
    BY <1>4, <1>5
  <2>2. s1 \in Seq(W) /\ Len(s1) = (IF 1 <= ns THEN ns - 1 + 1 ELSE 0)
        /\ \A i \in 1 .. ns - 1 + 1 : s1[i] = p.wds[1 + i - 1]
    BY <1>4, <2>1, SubSeqProperties
  <2> HIDE DEF s1
  <2>3. ns \in Nat /\ ns - 1 + 1 = ns
    BY <1>4
  <2>4. Len(s1) = ns
    BY <2>2, <2>3
  <2>5. ASSUME NEW i \in 1 .. ns PROVE s1[i] = PeekEligible(a.wq, M)[i]
    <3>1. 1 + i - 1 = i /\ i \in 1 .. ns - 1 + 1
      BY <2>3
    <3>2. s1[i] = p.wds[i]
      BY <2>2, <3>1
    <3> QED  BY <1>4, <3>2
  <2> QED  BY <2>2, <2>4, <2>5
<1>8. s2 \in Seq(W) /\ Len(s2) = nr /\ \A i \in 1 .. nr : s2[i] = PeekEligible(a.rq, b)[i]
  <2> DEFINE n == Len(p.wds)
             m == ns + 1
  <2>0. n = ns + nr /\ n \in Int /\ m \in Int /\ m = ns + 1
    BY <1>4
  <2>1. \A i \in m .. n : p.wds[i] \in W
    <3> SUFFICES ASSUME NEW i \in m .. n PROVE p.wds[i] \in W  OBVIOUS
    <3>1. i - ns \in 1 .. nr /\ ns + (i - ns) = i
      BY <1>4, <2>0
    <3>2. p.wds[i] = PeekEligible(a.rq, b)[i - ns]
      BY <1>4, <3>1
    <3> QED  BY <1>5a, <3>1, <3>2
  <2> HIDE DEF n, m
  <2>2. SubSeq(p.wds, m, n) \in Seq(W)
        /\ Len(SubSeq(p.wds, m, n)) = (IF m <= n THEN n - m + 1 ELSE 0)
        /\ \A i \in 1 .. n - m + 1 : SubSeq(p.wds, m, n)[i] = p.wds[m + i - 1]
    BY <2>0, <2>1, SubSeqProperties
  <2>3. s2 \in Seq(W) /\ Len(s2) = (IF m <= n THEN n - m + 1 ELSE 0)
        /\ \A i \in 1 .. n - m + 1 : s2[i] = p.wds[m + i - 1]
    BY <2>2 DEF n, m
  <2>4. Len(s2) = nr /\ n - m + 1 = nr
    BY <1>4, <2>0, <2>3
  <2>5. ASSUME NEW i \in 1 .. nr PROVE s2[i] = PeekEligible(a.rq, b)[i]
    <3>1. m + i - 1 = ns + i
      BY <1>4, <2>0
    <3>2. s2[i] = p.wds[ns + i]
      BY <2>3, <2>4, <3>1
    <3> QED  BY <1>4, <3>2, Zenon
  <2> QED  BY <2>3, <2>4, <2>5
<1> HIDE DEF s1, s2, W
<1>9. QueueHistory(AfterDequeue(a.wq, M), a.dueStake, a.paidStake \o s1)
      /\ a.paidStake \o s1 \in Seq(W)
  <2>1. /\ a.dueStake \in Seq(Withdrawals) /\ a.paidStake \in Seq([index : Nat, w : Withdrawals])
        /\ QueueHistory(a.wq, a.dueStake, a.paidStake)
    BY DEF IsApp
  <2>2. s1 \in Seq([index : Nat, w : Withdrawals]) /\ Len(s1) = Eligible(a.wq, M)
        /\ \A i \in 1 .. Len(s1) : s1[i] = PeekEligible(a.wq, M)[i]
    BY <1>7 DEF W, ns
  <2> QED  BY <1>3, <2>1, <2>2, DequeueHistory, Zenon DEF W
<1>10. QueueHistory(AfterDequeue(a.rq, b), a.dueReward, a.paidReward \o s2)
       /\ a.paidReward \o s2 \in Seq(W)
  <2>1. /\ a.dueReward \in Seq(Withdrawals) /\ a.paidReward \in Seq([index : Nat, w : Withdrawals])
        /\ QueueHistory(a.rq, a.dueReward, a.paidReward)
    BY DEF IsApp
  <2>2. s2 \in Seq([index : Nat, w : Withdrawals]) /\ Len(s2) = Eligible(a.rq, b)
        /\ \A i \in 1 .. Len(s2) : s2[i] = PeekEligible(a.rq, b)[i]
    BY <1>8 DEF W, nr
  <2> QED  BY <1>3, <1>4, <2>1, <2>2, DequeueHistory, Zenon DEF W
<1>11. IsQueue(AfterDequeue(a.wq, M), Withdrawals) /\ IsQueue(AfterDequeue(a.rq, b), Withdrawals)
  BY <1>3, <1>4, AfterDequeueQueue, Zenon
<1>12. IsApp(e)
  <2>1. /\ DOMAIN a = {"height", "head", "wq", "rq", "delivered", "dueStake", "dueReward",
                       "paidStake", "paidReward"}
        /\ a.height \in Nat /\ a.dueStake \in Seq(Withdrawals) /\ a.dueReward \in Seq(Withdrawals)
    BY DEF IsApp
  <2> QED  BY <1>1, <1>2, <1>6, <1>9, <1>10, <1>11, <2>1 DEF IsApp, W
<1>13. /\ e.height = a.height /\ e.head.hash = p /\ e.head.number = a.head.number + 1
       /\ e.delivered = DeliveredWith(a, msg)
  BY <1>1, <1>2, <1>6 DEF DeliveredWith
<1> QED  BY <1>12, <1>13 DEF e

\* EndBlock adds to both queues and nothing else.
LEMMA EndBlockState ==
  ASSUME NEW a, IsApp(a), NEW due \in Batches
  PROVE  /\ IsApp(EndBlock(a, due))
         /\ EndBlock(a, due).height = a.height + 1
         /\ EndBlock(a, due).head = a.head
         /\ EndBlock(a, due).delivered = a.delivered
<1> DEFINE e == EndBlock(a, due)
<1>1. due.stake \in Seq(Withdrawals) /\ due.reward \in Seq(Withdrawals)
  BY EngineConstants, Zenon
<1>2. /\ DOMAIN e = DOMAIN a /\ e.height = a.height + 1 /\ e.head = a.head
      /\ e.wq = EnqueueAll(a.wq, due.stake) /\ e.rq = EnqueueAll(a.rq, due.reward)
      /\ e.delivered = a.delivered
      /\ e.dueStake = a.dueStake \o due.stake /\ e.dueReward = a.dueReward \o due.reward
      /\ e.paidStake = a.paidStake /\ e.paidReward = a.paidReward
  <2>1. DOMAIN a = {"height", "head", "wq", "rq", "delivered", "dueStake", "dueReward",
                    "paidStake", "paidReward"}
    BY DEF IsApp
  <2> QED  BY <2>1 DEF EndBlock
<1>3. /\ QueueHistory(EnqueueAll(a.wq, due.stake), a.dueStake \o due.stake, a.paidStake)
      /\ a.dueStake \o due.stake \in Seq(Withdrawals)
  BY <1>1, EnqueueHistory, Zenon DEF IsApp
<1>4. /\ QueueHistory(EnqueueAll(a.rq, due.reward), a.dueReward \o due.reward, a.paidReward)
      /\ a.dueReward \o due.reward \in Seq(Withdrawals)
  BY <1>1, EnqueueHistory, Zenon DEF IsApp
<1>5. /\ IsQueue(EnqueueAll(a.wq, due.stake), Withdrawals)
      /\ IsQueue(EnqueueAll(a.rq, due.reward), Withdrawals)
  BY <1>1, EnqueueAllQueue, Zenon DEF IsApp
<1> HIDE DEF e
<1>6. IsApp(e)
  <2>1. /\ DOMAIN a = {"height", "head", "wq", "rq", "delivered", "dueStake", "dueReward",
                       "paidStake", "paidReward"}
        /\ a.height + 1 \in Nat
        /\ a.head.number \in Nat /\ a.head.number = a.head.hash.number
        /\ a.head.time \in Nat /\ a.head.time = a.head.hash.time
        /\ a.paidStake \in Seq([index : Nat, w : Withdrawals])
        /\ a.paidReward \in Seq([index : Nat, w : Withdrawals])
    BY DEF IsApp
  <2> QED  BY <1>2, <1>3, <1>4, <1>5, <2>1 DEF IsApp
<1>7. e.height = a.height + 1 /\ e.head = a.head /\ e.delivered = a.delivered
  BY <1>2
<1> QED  BY <1>6, <1>7 DEF e

\* The state after the first block.
LEMMA FinalizedFirst ==
  ASSUME NEW a, IsApp(a), NEW block, block.msg = None, block.due \in Batches
  PROVE  /\ IsApp(Finalized(a, block, TRUE))
         /\ Finalized(a, block, TRUE).height = a.height + 1
         /\ Finalized(a, block, TRUE).head = a.head
         /\ Finalized(a, block, TRUE).delivered = a.delivered
<1>1. Finalized(a, block, TRUE) = EndBlock(a, block.due)
  BY DEF Finalized
<1> QED  BY <1>1, EndBlockState, Zenon

\* The state after a later block that was voted on.
LEMMA FinalizedLater ==
  ASSUME NEW a, IsApp(a), NEW h \in Nat, h # 1, NEW block,
         Passed(a, h, block.msg, block.time), block.due \in Batches
  PROVE  /\ IsApp(Finalized(a, block, TRUE))
         /\ Finalized(a, block, TRUE).height = a.height + 1
         /\ Finalized(a, block, TRUE).head.hash = block.msg.payload
         /\ Finalized(a, block, TRUE).head.number = a.head.number + 1
         /\ Finalized(a, block, TRUE).delivered = DeliveredWith(a, block.msg)
<1>1. Finalized(a, block, TRUE) = EndBlock(Execute(a, block.msg), block.due)
  BY DEF Finalized, Passed
<1> DEFINE e == Execute(a, block.msg)
<1>2. IsApp(e) /\ e.height = a.height
      /\ e.head.hash = block.msg.payload /\ e.head.number = a.head.number + 1
      /\ e.delivered = DeliveredWith(a, block.msg)
  BY ExecuteState, ZenonT(30)
<1> HIDE DEF e
<1>3. IsApp(EndBlock(e, block.due)) /\ EndBlock(e, block.due).height = e.height + 1
      /\ EndBlock(e, block.due).head = e.head /\ EndBlock(e, block.due).delivered = e.delivered
  BY <1>2, EndBlockState, Zenon
<1> QED  BY <1>1, <1>2, <1>3, Zenon DEF e

\* A payload that was built on a state for a time no later than the block's
\* passes every check made on that state.
LEMMA BuiltPasses ==
  ASSUME NEW a, IsApp(a), NEW s \in Nat, NEW t \in Nat, s <= t, NEW h \in Nat, NEW logs
  PROVE  LET p == startBuild(a, s, logs)
         IN  /\ parseAndVerify(a, h, t, Message(h, p))
             /\ compareWithdrawals(a, p.wds)
             /\ ValidChild(p, a.height)
             /\ p.time \in Nat
             /\ p.number = a.head.number + 1
             /\ p.parent = a.head.hash
             /\ p.parent.logs = Message(h, p).events
<1> DEFINE p  == startBuild(a, s, logs)
           M  == MaxWithdrawalPerBlock
           e1 == PeekEligible(a.wq, M)
           b  == RewardBudget(a.wq, M)
           e2 == PeekEligible(a.rq, b)
           W  == [index : Nat, w : Withdrawals]
<1>1. /\ a.head.number \in Nat /\ a.head.number = a.head.hash.number
      /\ a.head.time \in Nat /\ a.head.time = a.head.hash.time
      /\ M \in Nat /\ IsQueue(a.wq, Withdrawals) /\ IsQueue(a.rq, Withdrawals)
  BY EngineConstants, Zenon DEF IsApp
<1>2. /\ p.number = a.head.number + 1 /\ p.parent = a.head.hash /\ p.root = a.height
      /\ p.wds = e1 \o e2
      /\ p.time = IF s <= a.head.time THEN a.head.time + 1 ELSE s
  BY DEF startBuild, ExpectedWithdrawals, PayloadWithdrawals
<1>3. b \in Nat
  BY <1>1, PayloadWithdrawalsSeq, Zenon
<1>4. e1 \in Seq(W) /\ e2 \in Seq(W) /\ Len(e1) = Eligible(a.wq, M)
  BY <1>1, <1>3, PeekEligibleSeq, ZenonT(30)
<1>5. M - Len(e1) = b
  BY <1>4 DEF RewardBudget
<1>6. compareWithdrawals(a, p.wds)
  <2> HIDE DEF W, e1, p
  <2>1. /\ Len(e1) \in Nat /\ Len(e2) \in Nat
        /\ Len(e1 \o e2) = Len(e1) + Len(e2)
        /\ \A i \in 1 .. Len(e1) + Len(e2) :
             (e1 \o e2)[i] = IF i <= Len(e1) THEN e1[i] ELSE e2[i - Len(e1)]
    BY <1>4, ConcatProperties, LenProperties, Zenon
  <2>2. \A i \in 1 .. Len(e1) : (e1 \o e2)[i] = e1[i]
    BY <2>1
  <2>3. ASSUME NEW i \in 1 .. Len(e2) PROVE (e1 \o e2)[Len(e1) + i] = e2[i]
    <3>1. Len(e1) + i \in 1 .. Len(e1) + Len(e2) /\ ~(Len(e1) + i <= Len(e1))
          /\ (Len(e1) + i) - Len(e1) = i
      BY <2>1
    <3> QED  BY <2>1, <3>1
  <2> QED  BY <1>2, <1>5, <2>1, <2>2, <2>3 DEF compareWithdrawals, e1
<1>7. Message(h, p).payload = p /\ Message(h, p).events = p.parent.logs /\ Message(h, p).ok
      /\ Message(h, p).fmt = (IF IsTerence(h) THEN "proto" ELSE "json")
  BY DEF Message
<1> HIDE DEF p
<1>8. parseAndVerify(a, h, t, Message(h, p))
  BY <1>1, <1>2, <1>7 DEF parseAndVerify
<1>9. ValidChild(p, a.height) /\ p.time \in Nat
  BY <1>1, <1>2 DEF ValidChild
<1> QED  BY <1>2, <1>6, <1>7, <1>8, <1>9 DEF p
-----------------------------------------------------------------------------
(* The decided chain.                                                      *)

\* The genesis state satisfies the invariant.
LEMMA InitIInv == Init => IInv
<1> SUFFICES ASSUME Init PROVE IInv  OBVIOUS
<1> USE DEF Init
<1>1. IsApp(GenesisApp) /\ GenesisApp.height = 0 /\ GenesisApp.head.hash = GenesisBlock
      /\ GenesisApp.head.number = 0 /\ GenesisApp.delivered = << >>
  <2> DEFINE g == GenesisApp
  <2>1. /\ DOMAIN g = {"height", "head", "wq", "rq", "delivered", "dueStake", "dueReward",
                      "paidStake", "paidReward"}
        /\ g.height = 0 /\ g.head = [number |-> 0, hash |-> GenesisBlock, time |-> 0]
        /\ g.wq = Initialize /\ g.rq = Initialize /\ g.delivered = << >>
        /\ g.dueStake = << >> /\ g.dueReward = << >> /\ g.paidStake = << >> /\ g.paidReward = << >>
    BY DEF GenesisApp
  <2>2. GenesisBlock.number = 0 /\ GenesisBlock.time = 0
    BY DEF GenesisBlock
  <2>3. IsQueue(Initialize, Withdrawals) /\ Initialize.front = 0 /\ Initialize.rear = 0
    BY InitializeIsQueue, Zenon
  <2>4. << >> \in Seq(Withdrawals) /\ << >> \in Seq([index : Nat, w : Withdrawals])
        /\ Len(<< >>) = 0
    BY EmptySeq, Zenon
  <2>5. QueueHistory(Initialize, << >>, << >>)
    BY <2>3, <2>4 DEF QueueHistory
  <2> HIDE DEF g
  <2> QED  BY <2>1, <2>2, <2>3, <2>4, <2>5 DEF IsApp, g
<1>2. ChainOK
  <2>1. IsSequence(chain) /\ Len(chain) = 0
    BY SequenceOf, EmptySeq, Zenon
  <2>2. IsSequence(ledger) /\ Len(ledger) = 1 /\ ledger[1] = GenesisApp
    <3>1. ledger \in Seq({GenesisApp})
      OBVIOUS
    <3> QED  BY <3>1, SequenceOf, Zenon
  <2>3. LogsBelow(GenesisApp) = << >>
    BY <1>1 DEF LogsBelow
  <2> QED  BY <1>1, <2>1, <2>2, <2>3 DEF ChainOK, ExecBlock, ExecNumber
<1>3. VotesOK /\ ProposalsOK /\ OptOK
  BY DEF VotesOK, ProposalsOK, OptOK
<1>4. Len(chain) = 0 /\ Len(ledger) = 1 /\ ledger[1] = GenesisApp /\ Decided = {GenesisBlock}
  BY DEF Decided
<1>5. NodesOK
  <2>1. ASSUME NEW n \in Nodes
        PROVE  /\ app[n] = GenesisApp
               /\ work[n] = [pc |-> "idle", ok |-> TRUE, app |-> None]
    BY DEF Idle
  <2>2. /\ app = [n \in Nodes |-> app[n]] /\ work = [n \in Nodes |-> work[n]]
        /\ syncing = [n \in Nodes |-> syncing[n]]
    OBVIOUS
  <2>3. ASSUME NEW n \in Nodes
        PROVE  /\ app[n].height = 0 /\ app[n] = ledger[app[n].height + 1]
               /\ work[n] = [pc |-> work[n].pc, ok |-> TRUE, app |-> work[n].app]
               /\ work[n].pc = "idle"
    BY <1>1, <1>4, <2>1
  <2> QED  BY <1>4, <2>2, <2>3 DEF NodesOK, NodeOK
<1>6. ElsOK
  <2>1. GenesisBlock.number = 0
    BY DEF GenesisBlock
  <2> QED  BY <1>1, <1>4, <2>1 DEF ElsOK, IsEl
<1> QED  BY <1>2, <1>3, <1>5, <1>6 DEF IInv

\* The ledger has one state more than there are blocks.
LEMMA ChainFacts ==
  ASSUME ChainOK
  PROVE  /\ Len(chain) \in Nat /\ Len(ledger) = Len(chain) + 1 /\ Height = Len(chain) + 1
         /\ \A h \in 0 .. Len(chain) :
              /\ IsApp(ledger[h + 1]) /\ ledger[h + 1].height = h
              /\ ledger[h + 1].head.hash = ExecBlock(h) /\ ledger[h + 1].head.number = ExecNumber(h)
              /\ ledger[h + 1].delivered = LogsBelow(ledger[h + 1])
         /\ \A h \in 1 .. Len(chain) :
              /\ chain[h].time \in Nat /\ chain[h].due \in Batches
              /\ Passed(ledger[h], h, chain[h].msg, chain[h].time)
              /\ ledger[h + 1] = Finalized(ledger[h], chain[h], TRUE)
<1>1. Len(chain) \in Nat
  BY AppendSequence, Zenon DEF ChainOK
<1> QED  BY <1>1, Zenon DEF ChainOK, Height

\* Every height but the first has an execution block, one above the last.
LEMMA DecidedBlocks ==
  ASSUME ChainOK
  PROVE  /\ \A h \in 0 .. Len(chain) : ExecBlock(h) \in Decided /\ ExecBlock(h).number = ExecNumber(h)
         /\ \A d \in Decided : \E h \in 0 .. Len(chain) : d = ExecBlock(h)
         /\ \A h \in 1 .. Len(chain) : chain[h].msg = None <=> h = 1
         /\ \A h \in 2 .. Len(chain) : /\ chain[h].msg.payload = ExecBlock(h)
                                      /\ chain[h].msg.payload.parent = ExecBlock(h - 1)
<1>1. Len(chain) \in Nat
  BY ChainFacts, Zenon
<1>2. \A h \in 1 .. Len(chain) : chain[h].msg = None <=> h = 1
  BY <1>1, ChainFacts, Zenon DEF Passed
<1>3. ASSUME NEW h \in 0 .. Len(chain)
      PROVE  ExecBlock(h) \in Decided /\ ExecBlock(h).number = ExecNumber(h)
  <2>1. ExecBlock(h) \in Decided
    BY <1>1, <1>2 DEF ExecBlock, Decided
  <2>2. ledger[h + 1].head.hash = ExecBlock(h) /\ ledger[h + 1].head.number = ExecNumber(h)
        /\ ledger[h + 1].head.number = ledger[h + 1].head.hash.number
    BY ChainFacts, Zenon DEF IsApp
  <2> QED  BY <2>1, <2>2
<1>4. ASSUME NEW d \in Decided
      PROVE  \E h \in 0 .. Len(chain) : d = ExecBlock(h)
  <2>1. CASE d = GenesisBlock
    BY <1>1, <2>1 DEF ExecBlock
  <2>2. CASE d # GenesisBlock
    <3>1. PICK h \in 1 .. Len(chain) : chain[h].msg # None /\ d = chain[h].msg.payload
      BY <2>2 DEF Decided
    <3>2. h > 1
      BY <1>1, <1>2, <3>1
    <3> QED  BY <1>1, <3>1, <3>2 DEF ExecBlock
  <2> QED  BY <2>1, <2>2
<1>5. ASSUME NEW h \in 2 .. Len(chain)
      PROVE  chain[h].msg.payload = ExecBlock(h) /\ chain[h].msg.payload.parent = ExecBlock(h - 1)
  <2>1. Passed(ledger[h], h, chain[h].msg, chain[h].time)
    <3>1. h \in 1 .. Len(chain)
      BY <1>1
    <3> QED  BY <3>1, ChainFacts, Zenon
  <2>2. chain[h].msg.payload.parent = ledger[h].head.hash
    BY <1>1, <2>1 DEF Passed, parseAndVerify
  <2>3. h - 1 \in 0 .. Len(chain) /\ (h - 1) + 1 = h
    BY <1>1
  <2>4. ledger[h].head.hash = ExecBlock(h - 1)
    BY <2>3, ChainFacts, Zenon
  <2> QED  BY <1>1, <2>2, <2>4 DEF ExecBlock
<1> QED  BY <1>2, <1>3, <1>4, <1>5

\* Two decided execution blocks with one number are the same.
LEMMA DecidedUnique ==
  ASSUME ChainOK
  PROVE  /\ \A d \in Decided : d.number \in Nat /\ d.number <= ExecNumber(Len(chain))
         /\ \A d, x \in Decided : d.number = x.number => d = x
         /\ \A k \in 0 .. ExecNumber(Len(chain)) : \E d \in Decided : d.number = k
<1>1. Len(chain) \in Nat
  BY ChainFacts, Zenon
<1>2. \A d \in Decided : \E h \in 0 .. Len(chain) : d = ExecBlock(h) /\ d.number = ExecNumber(h)
  BY DecidedBlocks, Zenon
<1>3. \A d \in Decided : d.number \in Nat /\ d.number <= ExecNumber(Len(chain))
  BY <1>1, <1>2 DEF ExecNumber
<1>4. ASSUME NEW d \in Decided, NEW x \in Decided, d.number = x.number
      PROVE  d = x
  <2>1. PICK g \in 0 .. Len(chain) : d = ExecBlock(g) /\ d.number = ExecNumber(g)
    BY <1>2
  <2>2. PICK h \in 0 .. Len(chain) : x = ExecBlock(h) /\ x.number = ExecNumber(h)
    BY <1>2
  <2>3. g = h \/ (g <= 1 /\ h <= 1)
    BY <1>1, <1>4, <2>1, <2>2 DEF ExecNumber
  <2> QED  BY <2>1, <2>2, <2>3 DEF ExecBlock
<1>5. ASSUME NEW k \in 0 .. ExecNumber(Len(chain))
      PROVE  \E d \in Decided : d.number = k
  <2>1. CASE k = 0
    <3>1. 0 \in 0 .. Len(chain) /\ ExecNumber(0) = 0
      BY <1>1 DEF ExecNumber
    <3> QED  BY <2>1, <3>1, DecidedBlocks, Zenon
  <2>2. CASE k # 0
    <3>1. k + 1 \in 0 .. Len(chain) /\ ExecNumber(k + 1) = k
      BY <1>1, <2>2 DEF ExecNumber
    <3> QED  BY <3>1, DecidedBlocks, Zenon
  <2> QED  BY <2>1, <2>2
<1> QED  BY <1>3, <1>4, <1>5
-----------------------------------------------------------------------------
(* The execution layer.                                                    *)

\* A forkchoice update to a decided block drops no decided block.
LEMMA WithHeadEl ==
  ASSUME ChainOK, NEW e, NEW top \in Nat, IsEl(e, top), NEW b \in Decided, b.number <= top
  PROVE  IsEl(WithHead(e, b), top)
<1>1. CASE b \notin e.known
  <2> DEFINE f == [e EXCEPT !.target = b]
  <2>1. /\ WithHead(e, b) = f
    BY <1>1 DEF WithHead
  <2>2. DOMAIN f = DOMAIN e /\ f.known = e.known /\ f.head = e.head /\ f.target = b
    BY DEF IsEl
  <2> HIDE DEF f
  <2> QED  BY <2>1, <2>2 DEF IsEl
<1>2. CASE b \in e.known /\ b.number < e.head.number
  BY <1>2 DEF WithHead
<1>3. CASE b \in e.known /\ ~(b.number < e.head.number)
  <2> DEFINE f == [e EXCEPT !.head = b, !.target = b,
                            !.known = {x \in @ : x.number # b.number} \cup {b}]
  <2>1. WithHead(e, b) = f
    BY <1>3 DEF WithHead
  <2>2. DOMAIN f = DOMAIN e /\ f.known = {x \in e.known : x.number # b.number} \cup {b}
        /\ f.head = b /\ f.target = b
    BY DEF IsEl
  <2> HIDE DEF f
  <2>3. \A x \in f.known : x \in e.known
    BY <1>3, <2>2
  <2>4. ASSUME NEW x \in f.known, NEW d \in Decided, d.number < x.number
        PROVE  d \in f.known
    <3>1. d \in e.known
      BY <2>3, <2>4 DEF IsEl
    <3>2. d.number = b.number => d = b
      BY DecidedUnique, Zenon
    <3> QED  BY <2>2, <3>1, <3>2
  <2>5. \A x \in f.known : x.number \in 0 .. Len(chain)
    BY <2>3 DEF IsEl
  <2> QED  BY <2>1, <2>2, <2>4, <2>5 DEF IsEl
<1> QED  BY <1>1, <1>2, <1>3

\* A payload on top of a decided block may be imported at any time.
LEMMA PushEl ==
  ASSUME ChainOK, NEW e, NEW top \in Nat, IsEl(e, top), NEW b, b.parent \in e.known,
         b.parent \in Decided, b.number = b.parent.number + 1, b.number \in 0 .. Len(chain)
  PROVE  IsEl(pushPayload(e, b), top)
<1> DEFINE f == pushPayload(e, b)
<1>1. DOMAIN f = DOMAIN e /\ f.known = e.known \cup {b} /\ f.head = e.head /\ f.target = e.target
  BY DEF IsEl, pushPayload
<1> HIDE DEF f
<1>2. ASSUME NEW d \in Decided, d.number < b.number
      PROVE  d \in e.known
  <2>1. d.number \in Nat /\ b.parent.number \in Nat /\ (d.number = b.parent.number => d = b.parent)
    BY DecidedUnique, Zenon
  <2>2. d = b.parent \/ d.number < b.parent.number
    BY <1>2, <2>1
  <2> QED  BY <2>2 DEF IsEl
<1>3. \A x \in f.known : x.number \in 0 .. Len(chain)
  BY <1>1 DEF IsEl
<1>4. \A x \in f.known, d \in Decided : d.number < x.number => d \in f.known
  BY <1>1, <1>2 DEF IsEl
<1>5. IsEl(f, top)
  BY <1>1, <1>3, <1>4 DEF IsEl
<1> QED  BY <1>5 DEF f
-----------------------------------------------------------------------------
(* What a step that decides nothing leaves alone.                          *)

\* The decided chain and its ledger.
LEMMA ChainKept ==
  ASSUME ChainOK, chain' = chain, ledger' = ledger
  PROVE  /\ ChainOK' /\ Decided' = Decided /\ Height' = Height
<1>1. Decided' = Decided /\ Height' = Height
  BY DEF Decided, Height
<1>2. ASSUME NEW h \in 0 .. Len(chain)
      PROVE  ExecBlock(h)' = ExecBlock(h) /\ LogsBelow(ledger[h + 1])' = LogsBelow(ledger[h + 1])
  BY DEF ExecBlock, LogsBelow
<1>3. \A h \in 1 .. Len(chain') :
        /\ chain'[h].time \in Nat /\ chain'[h].due \in Batches
        /\ Passed(ledger'[h], h, chain'[h].msg, chain'[h].time)
        /\ ledger'[h + 1] = Finalized(ledger'[h], chain'[h], TRUE)
  BY Zenon DEF ChainOK
<1>4. ASSUME NEW h \in 0 .. Len(chain')
      PROVE  LET a == ledger'[h + 1]
             IN  /\ IsApp(a) /\ a.height = h
                 /\ a.head.hash = ExecBlock(h)' /\ a.head.number = ExecNumber(h)
                 /\ a.delivered = LogsBelow(ledger[h + 1])'
  BY <1>2 DEF ChainOK
<1>5. ChainOK'
  BY <1>3, <1>4, Zenon DEF ChainOK
<1> QED  BY <1>1, <1>5

\* The votes of the current height.
LEMMA VotesKept ==
  ASSUME VotesOK, chain' = chain, ledger' = ledger, accepted' = accepted
  PROVE  VotesOK'
BY DEF VotesOK, Height

\* The proposals of the current height.
LEMMA ProposalsKept ==
  ASSUME ProposalsOK, chain' = chain, ledger' = ledger, proposals' = proposals
  PROVE  ProposalsOK'
BY DEF ProposalsOK, Height, Honest

\* The payloads built ahead of time.
LEMMA OptKept ==
  ASSUME OptOK, chain' = chain, ledger' = ledger, opt' = opt
  PROVE  OptOK'
BY DEF OptOK, Height

\* One node, whatever the others do.
LEMMA NodeKept ==
  ASSUME NEW n, NodeOK(n), chain' = chain, ledger' = ledger, app'[n] = app[n], work'[n] = work[n]
  PROVE  NodeOK(n)'
BY DEF NodeOK, Behind, NextBlock

\* All nodes.
LEMMA NodesKept ==
  ASSUME NodesOK, chain' = chain, ledger' = ledger, app' = app, work' = work, syncing' = syncing
  PROVE  NodesOK'
BY NodeKept, Zenon DEF NodesOK

\* An EL that changes on its own.
LEMMA ElKept ==
  ASSUME NodesOK, ElsOK, chain' = chain, app' = app, NEW n \in Nodes, NEW e,
         el' = [el EXCEPT ![n] = e], IsEl(e, app[n].height)
  PROVE  ElsOK'
<1>1. el' = [m \in Nodes |-> IF m = n THEN e ELSE el[m]]
  BY DEF ElsOK
<1>2. ASSUME NEW m \in Nodes PROVE IsEl(el[m], app[m].height)'
  <2>1. IsEl(el'[m], app[m].height)
    BY <1>1 DEF ElsOK
  <2> QED  BY <2>1 DEF IsEl, Decided
<1> QED  BY <1>1, <1>2 DEF ElsOK

\* All ELs.
LEMMA ElsKept ==
  ASSUME ElsOK, chain' = chain, app' = app, el' = el
  PROVE  ElsOK'
BY DEF ElsOK, IsEl, Decided
-----------------------------------------------------------------------------
(* Deciding a block.                                                       *)

\* Appending to a list of values is listing one more value.
LEMMA AppendNext ==
  ASSUME NEW k \in Nat, NEW f
  PROVE  Append([i \in 1 .. k |-> f[i]], f[k + 1]) = [i \in 1 .. k + 1 |-> f[i]]
<1> DEFINE S == {f[i] : i \in 1 .. k + 1}
           s == [i \in 1 .. k |-> f[i]]
           t == Append(s, f[k + 1])
<1>1. s \in [1 .. k -> S]
  OBVIOUS
<1>2. s \in Seq(S) /\ Len(s) = k
  BY <1>1, SeqDef, LenProperties
<1>3. f[k + 1] \in S
  OBVIOUS
<1>4. /\ t \in Seq(S) /\ Len(t) = k + 1 /\ \A i \in 1 .. k : t[i] = s[i]
      /\ t[k + 1] = f[k + 1]
  BY <1>2, <1>3, AppendProperties
<1>5. t \in [1 .. k + 1 -> S]
  BY <1>4, LenProperties, Zenon
<1> HIDE DEF t, S
<1>6. \A i \in 1 .. k + 1 : t[i] = f[i]
  BY <1>4
<1>7. t = [i \in 1 .. k + 1 |-> f[i]]
  BY <1>5, <1>6
<1> QED  BY <1>7 DEF t

\* A quorum of votes decides a block that passes, and its execution is the
\* next state of the ledger.
LEMMA DecideStep == IInv /\ Decide => IInv'
<1> SUFFICES ASSUME IInv, Decide PROVE IInv'  OBVIOUS
<1> USE DEF IInv
<1>a. PICK L \in Nat : L = Len(chain)
  BY ChainFacts, Zenon
<1>b. PICK last : last = ledger[L + 1]
  OBVIOUS
<1>0. /\ L = Len(chain) /\ Len(ledger) = L + 1 /\ Height = L + 1 /\ last = ledger[L + 1]
      /\ IsApp(last) /\ last.height = L /\ last.head.hash = ExecBlock(L)
      /\ last.head.number = ExecNumber(L) /\ last.delivered = LogsBelow(last)
  <2>1. L \in 0 .. Len(chain)
    BY <1>a
  <2> QED  BY <1>a, <1>b, <2>1, ChainFacts, Zenon
<1>1. PICK p \in UNION {accepted[n] : n \in Nodes}, due \in Batches :
        /\ chain' = Append(chain, [msg |-> p.msg, time |-> p.time, due |-> due])
        /\ ledger' = Append(ledger, Finalized(ledger[Len(ledger)],
                                              [msg |-> p.msg, time |-> p.time, due |-> due], TRUE))
        /\ proposals' = [n \in Nodes |-> None]
        /\ accepted' = [n \in Nodes |-> {}]
        /\ UNCHANGED <<app, work, opt, syncing, el, crashes, elRestarts>>
  BY Zenon DEF Decide
<1> DEFINE block == [msg |-> p.msg, time |-> p.time, due |-> due]
<1>c. PICK f : f = Finalized(last, block, TRUE)
  BY Zenon
<1>2. /\ p.time \in Nat /\ Passed(last, L + 1, p.msg, p.time)
  BY <1>0, <1>1 DEF VotesOK
<1>3. block.msg = p.msg /\ block.time = p.time /\ block.due = due
  OBVIOUS
<1> HIDE DEF block
<1>4. /\ IsApp(f) /\ f.height = L + 1
      /\ L = 0 => f.head = last.head /\ f.delivered = last.delivered
      /\ L # 0 => /\ f.head.hash = p.msg.payload
                  /\ f.head.number = last.head.number + 1
                  /\ f.delivered = Append(last.delivered, p.msg.payload.parent.logs)
  <2>1. IsApp(last) /\ block.due \in Batches
    BY <1>0, <1>3
  <2>2. CASE L = 0
    <3>1. block.msg = None
      BY <1>2, <1>3, <2>2 DEF Passed
    <3>2. /\ IsApp(f) /\ f.height = last.height + 1
          /\ f.head = last.head /\ f.delivered = last.delivered
      BY <1>c, <2>1, <3>1, FinalizedFirst, Zenon
    <3> QED  BY <1>0, <2>2, <3>2, Zenon
  <2>3. CASE L # 0
    <3>1. PICK h \in Nat : h = L + 1
      OBVIOUS
    <3>2. h # 1 /\ Passed(last, h, block.msg, block.time)
      BY <1>2, <1>3, <2>3, <3>1
    <3>3. /\ IsApp(f) /\ f.height = last.height + 1
          /\ f.head.hash = block.msg.payload /\ f.head.number = last.head.number + 1
          /\ f.delivered = DeliveredWith(last, block.msg)
      BY <1>c, <2>1, <3>2, FinalizedLater, ZenonT(30)
    <3> QED  BY <1>0, <1>3, <2>3, <3>3 DEF DeliveredWith
  <2> QED  BY <2>2, <2>3
<1>5. /\ IsSequence(chain') /\ Len(chain') = L + 1 /\ chain'[L + 1] = block
      /\ \A h \in 1 .. L : chain'[h] = chain[h]
  BY <1>0, <1>1, AppendSequence DEF ChainOK, block
<1>6. /\ IsSequence(ledger') /\ Len(ledger') = L + 2 /\ ledger'[L + 2] = f
      /\ \A h \in 1 .. L + 1 : ledger'[h] = ledger[h]
  <2>1. ledger' = Append(ledger, f)
    BY <1>0, <1>1, <1>c DEF block
  <2>2. (L + 1) + 1 = L + 2
    BY <1>0
  <2> QED  BY <1>0, <2>1, <2>2, AppendSequence DEF ChainOK
<1>7. ASSUME NEW h \in 0 .. L
      PROVE  /\ ExecBlock(h)' = ExecBlock(h)
             /\ ledger'[h + 1] = ledger[h + 1]
             /\ LogsBelow(ledger[h + 1])' = LogsBelow(ledger[h + 1])
  <2>1. h \in 1 .. L => chain'[h] = chain[h]
    BY <1>5
  <2>2. ExecBlock(h)' = ExecBlock(h)
    BY <1>0, <2>1 DEF ExecBlock
  <2>3. ledger'[h + 1] = ledger[h + 1] /\ ledger[h + 1].height = h
    BY <1>0, <1>6, ChainFacts
  <2>4. \A i \in 1 .. h - 1 : chain'[i + 1] = chain[i + 1]
    BY <1>0, <1>5
  <2> QED  BY <2>2, <2>3, <2>4 DEF LogsBelow
<1>8. ExecBlock(L + 1)' = f.head.hash /\ f.head.number = ExecNumber(L + 1)
  <2>1. CASE L = 0
    BY <1>0, <1>4, <2>1 DEF ExecBlock, ExecNumber
  <2>2. CASE L # 0
    BY <1>0, <1>3, <1>4, <1>5, <2>2 DEF ExecBlock, ExecNumber
  <2> QED  BY <2>1, <2>2
<1>9. f.delivered = LogsBelow(f)'
  <2>1. CASE L = 0
    BY <1>0, <1>4, <2>1 DEF LogsBelow
  <2>2. CASE L # 0
    <3> DEFINE g == [i \in 1 .. L |-> chain'[i + 1].msg.payload.parent.logs]
    <3>1. LogsBelow(last) = [i \in 1 .. L - 1 |-> g[i]]
      <4>1. \A i \in 1 .. L - 1 : i \in 1 .. L /\ chain[i + 1] = chain'[i + 1]
        BY <1>0, <1>5
      <4>2. \A i \in 1 .. L - 1 : chain[i + 1].msg.payload.parent.logs = g[i]
        BY <4>1
      <4> QED  BY <1>0, <4>2, Zenon DEF LogsBelow
    <3>2. LogsBelow(f)' = g
      BY <1>0, <1>4 DEF LogsBelow
    <3>3. p.msg.payload.parent.logs = g[L]
      BY <1>0, <1>3, <1>5, <2>2
    <3>4. g = [i \in 1 .. L |-> g[i]]
      OBVIOUS
    <3> HIDE DEF g
    <3>5. L - 1 \in Nat /\ (L - 1) + 1 = L
      BY <1>0, <2>2
    <3>6. Append([i \in 1 .. L - 1 |-> g[i]], g[L]) = [i \in 1 .. L |-> g[i]]
      BY <3>5, AppendNext, Zenon
    <3>7. f.delivered = Append(last.delivered, p.msg.payload.parent.logs)
      BY <1>0, <1>4, <2>2
    <3> QED  BY <1>0, <3>1, <3>2, <3>3, <3>4, <3>6, <3>7, Zenon
  <2> QED  BY <2>1, <2>2
<1>10. ChainOK'
  <2>1. \A h \in 1 .. L + 1 :
          /\ chain'[h].time \in Nat /\ chain'[h].due \in Batches
          /\ Passed(ledger'[h], h, chain'[h].msg, chain'[h].time)
          /\ ledger'[h + 1] = Finalized(ledger'[h], chain'[h], TRUE)
    <3> SUFFICES ASSUME NEW h \in 1 .. L + 1
                 PROVE  /\ chain'[h].time \in Nat /\ chain'[h].due \in Batches
                        /\ Passed(ledger'[h], h, chain'[h].msg, chain'[h].time)
                        /\ ledger'[h + 1] = Finalized(ledger'[h], chain'[h], TRUE)
      BY Zenon
    <3>1. CASE h = L + 1
      <4>1. chain'[h] = block /\ ledger'[h] = last /\ ledger'[h + 1] = f
        BY <1>0, <1>5, <1>6, <3>1
      <4> QED  BY <1>1, <1>2, <1>3, <1>c, <3>1, <4>1, Zenon
    <3>2. CASE h # L + 1
      <4>1. h \in 1 .. L /\ h + 1 \in 1 .. L + 1
        BY <1>0, <3>2
      <4>2. chain'[h] = chain[h] /\ ledger'[h] = ledger[h] /\ ledger'[h + 1] = ledger[h + 1]
        BY <1>0, <1>5, <1>6, <4>1
      <4> QED  BY <4>1, <4>2, <1>0, ChainFacts, Zenon
    <3> QED  BY <3>1, <3>2, Zenon
  <2>2. ASSUME NEW h \in 0 .. L + 1
        PROVE  /\ IsApp(ledger'[h + 1]) /\ ledger'[h + 1].height = h
               /\ ledger'[h + 1].head.hash = ExecBlock(h)'
               /\ ledger'[h + 1].head.number = ExecNumber(h)
               /\ ledger'[h + 1].delivered = LogsBelow(ledger[h + 1])'
    <3>1. CASE h = L + 1
      <4>1. ledger'[h + 1] = f
        BY <1>0, <1>6, <3>1
      <4>2. ledger'[h + 1].delivered = LogsBelow(ledger[h + 1])'
        BY <1>9, <4>1 DEF LogsBelow
      <4> QED  BY <1>0, <1>4, <1>8, <3>1, <4>1, <4>2
    <3>2. CASE h # L + 1
      <4>1. h \in 0 .. L
        BY <1>0, <3>2
      <4>2. LogsBelow(ledger[h + 1])' = LogsBelow(ledger[h + 1])
        BY <1>7, <4>1
      <4> QED  BY <1>7, <4>1, <4>2, <1>0, ChainFacts, Zenon
    <3> QED  BY <3>1, <3>2
  <2>3. Len(ledger') = Len(chain') + 1
    BY <1>0, <1>5, <1>6
  <2> QED  BY <1>5, <1>6, <2>1, <2>2, <2>3, Zenon DEF ChainOK
<1>11. VotesOK' /\ ProposalsOK'
  BY <1>1 DEF VotesOK, ProposalsOK
<1>12. OptOK'
  <2>1. ASSUME NEW n \in Nodes, opt[n].height # 0
        PROVE  /\ opt[n].height \in 2 .. L + 2
               /\ \E logs \in Logs(ledger'[opt[n].height].head.number + 1) :
                    opt[n].payload = startBuild(ledger'[opt[n].height], chain'[opt[n].height - 1].time, logs)
    <3>1. opt[n].height \in 2 .. L + 1
      BY <1>0, <2>1 DEF OptOK
    <3>2. ledger'[opt[n].height] = ledger[opt[n].height]
          /\ chain'[opt[n].height - 1] = chain[opt[n].height - 1]
      <4>1. opt[n].height \in 1 .. L + 1 /\ opt[n].height - 1 \in 1 .. L
        BY <3>1
      <4>2. ledger'[opt[n].height] = ledger[opt[n].height]
        BY <1>6, <4>1, Zenon
      <4>3. chain'[opt[n].height - 1] = chain[opt[n].height - 1]
        BY <1>5, <4>1, Zenon
      <4> QED  BY <4>2, <4>3
    <3> QED  BY <1>0, <2>1, <3>1, <3>2 DEF OptOK
  <2>2. Height' = L + 2
    <3>1. Len(chain') = L + 1
      BY <1>5
    <3> QED  BY <3>1 DEF Height
  <2>3. opt' = opt
    BY <1>1
  <2> QED  BY <2>1, <2>2, <2>3 DEF OptOK
<1>13. NodesOK'
  <2>1. ASSUME NEW n \in Nodes PROVE NodeOK(n)'
    <3>1. app'[n] = app[n] /\ work'[n] = work[n]
      BY <1>1
    <3>2. app[n].height \in 0 .. L /\ app[n] = ledger[app[n].height + 1]
      BY <1>0 DEF NodesOK, NodeOK
    <3>3. app'[n].height \in 0 .. Len(chain') /\ app'[n] = ledger'[app'[n].height + 1]
      <4>1. app[n].height + 1 \in 1 .. L + 1 /\ app[n].height \in 0 .. L + 1
        BY <3>2
      <4>2. ledger'[app[n].height + 1] = ledger[app[n].height + 1]
        BY <1>6, <4>1, Zenon
      <4>3. Len(chain') = L + 1
        BY <1>5
      <4> QED  BY <3>1, <3>2, <4>1, <4>2, <4>3
    <3>4. /\ work[n] = [pc |-> work[n].pc, ok |-> TRUE, app |-> work[n].app]
          /\ work[n].pc # "idle" => app[n].height < L
          /\ work[n].pc = "pushed" => chain[app[n].height + 1].msg # None
          /\ work[n].pc = "finalized" => work[n].app = ledger[app[n].height + 2]
      BY <1>0 DEF NodesOK, NodeOK, Behind, NextBlock
    <3>5. app[n].height < L => /\ chain'[app[n].height + 1] = chain[app[n].height + 1]
                               /\ ledger'[app[n].height + 2] = ledger[app[n].height + 2]
      <4>1. app[n].height < L => app[n].height + 1 \in 1 .. L /\ app[n].height + 2 \in 1 .. L + 1
        BY <3>2
      <4> QED  BY <1>5, <1>6, <4>1
    <3>6. app[n].height < L => app'[n].height < Len(chain')
      BY <1>0, <1>5, <3>1, <3>2
    <3> QED  BY <3>1, <3>3, <3>4, <3>5, <3>6, Zenon DEF NodeOK, Behind, NextBlock
  <2> QED  BY <1>1, <2>1, Zenon DEF NodesOK
<1>14. ElsOK'
  <2>1. ASSUME NEW d \in Decided'
        PROVE  d \in Decided \/ d.number = L
    <3>1. CASE d = GenesisBlock
      BY <3>1 DEF Decided
    <3>2. CASE d # GenesisBlock
      <4>1. PICK h \in 1 .. L + 1 : chain'[h].msg # None /\ d = chain'[h].msg.payload
        BY <1>5, <3>2 DEF Decided
      <4>2. CASE h = L + 1
        <5>1. p.msg # None /\ d = p.msg.payload
          BY <1>3, <1>5, <4>1, <4>2, Zenon
        <5>2. L # 0
          BY <1>0, <1>2, <5>1 DEF Passed
        <5>3. d.number = last.head.number + 1
          BY <1>0, <1>2, <5>1, <5>2, ZenonT(30) DEF Passed, parseAndVerify
        <5> QED  BY <1>0, <5>2, <5>3 DEF ExecNumber
      <4>3. CASE h # L + 1
        <5>1. h \in 1 .. L
          BY <1>0, <4>3
        <5>2. chain'[h] = chain[h]
          BY <1>5, <5>1
        <5> QED  BY <1>0, <4>1, <5>1, <5>2 DEF Decided
      <4> QED  BY <4>2, <4>3
    <3> QED  BY <3>1, <3>2
  <2>2. ASSUME NEW d \in Decided
        PROVE  d \in Decided'
    <3>1. CASE d = GenesisBlock
      BY <3>1 DEF Decided
    <3>2. CASE d # GenesisBlock
      <4>1. PICK h \in 1 .. L : chain[h].msg # None /\ d = chain[h].msg.payload
        BY <1>0, <3>2 DEF Decided
      <4>2. chain'[h] = chain[h] /\ h \in 1 .. Len(chain')
        BY <1>0, <1>5
      <4> QED  BY <4>1, <4>2 DEF Decided
    <3> QED  BY <3>1, <3>2
  <2>3. ASSUME NEW n \in Nodes PROVE IsEl(el[n], app[n].height)'
    <3>1. /\ DOMAIN el[n] = {"known", "head", "target", "builds"}
          /\ \A b \in el[n].known : b.number \in 0 .. L
          /\ \A b \in el[n].known, d \in Decided : d.number < b.number => d \in el[n].known
          /\ el[n].head \in el[n].known \cap Decided /\ el[n].target \in Decided
          /\ el[n].head.number <= app[n].height /\ el[n].target.number <= app[n].height
      BY <1>0, Zenon DEF ElsOK, IsEl
    <3>2. \A b \in el[n].known : b.number \in 0 .. Len(chain')
      BY <1>0, <1>5, <3>1
    <3>3. \A b \in el[n].known, d \in Decided' : d.number < b.number => d \in el[n].known
      BY <1>0, <2>1, <3>1
    <3>4. el'[n] = el[n] /\ app'[n] = app[n]
      BY <1>1
    <3> QED  BY <2>2, <3>1, <3>2, <3>3, <3>4 DEF IsEl
  <2> QED  BY <1>1, <2>3 DEF ElsOK
<1> QED  BY <1>1, <1>10, <1>11, <1>12, <1>13, <1>14
-----------------------------------------------------------------------------
(* What holds of one node.                                                 *)

\* A node's state is the one of the ledger at its height.
LEMMA NodeFacts ==
  ASSUME IInv, NEW n \in Nodes
  PROVE  /\ Len(chain) \in Nat /\ app[n].height \in Nat /\ app[n].height \in 0 .. Len(chain)
         /\ IsApp(app[n]) /\ app[n] = ledger[app[n].height + 1]
         /\ app[n].head.hash = ExecBlock(app[n].height) /\ app[n].head.hash \in Decided
         /\ app[n].head.number = ExecNumber(app[n].height)
         /\ app[n].head.hash.number = app[n].head.number
         /\ app[n].head.number <= app[n].height
         /\ IsEl(el[n], app[n].height)
<1>1. /\ Len(chain) \in Nat /\ app[n].height \in 0 .. Len(chain)
      /\ app[n] = ledger[app[n].height + 1] /\ IsEl(el[n], app[n].height)
  BY ChainFacts, Zenon DEF IInv, NodesOK, NodeOK, ElsOK
<1>2. PICK h \in 0 .. Len(chain) : h = app[n].height
  BY <1>1
<1>3. /\ IsApp(app[n]) /\ app[n].head.hash = ExecBlock(h) /\ app[n].head.number = ExecNumber(h)
      /\ ExecBlock(h) \in Decided
  <2>0. ChainOK
    BY DEF IInv
  <2>1. /\ IsApp(ledger[h + 1]) /\ ledger[h + 1].head.hash = ExecBlock(h)
        /\ ledger[h + 1].head.number = ExecNumber(h)
    BY <2>0, ChainFacts, Zenon
  <2>2. ExecBlock(h) \in Decided
    BY <2>0, DecidedBlocks, Zenon
  <2> QED  BY <1>1, <1>2, <2>1, <2>2
<1>4. app[n].head.hash.number = app[n].head.number
  BY <1>3 DEF IsApp
<1>5. ExecNumber(h) <= h
  BY <1>1 DEF ExecNumber
<1> QED  BY <1>1, <1>2, <1>3, <1>4, <1>5

\* A node at the tip has the last state of the ledger.
LEMMA TipFacts ==
  ASSUME IInv, NEW n \in Nodes, AtTip(n)
  PROVE  /\ Len(chain) \in Nat /\ Height = Len(chain) + 1
         /\ IsApp(app[n]) /\ app[n].height = Len(chain) /\ app[n] = ledger[Len(ledger)]
<1>1. ChainOK
  BY DEF IInv
<1>2. Len(chain) \in Nat /\ Len(ledger) = Len(chain) + 1 /\ Height = Len(chain) + 1
  BY <1>1, ChainFacts, Zenon
<1>3. IsApp(app[n]) /\ app[n] = ledger[app[n].height + 1]
  BY NodeFacts, Zenon
<1> QED  BY <1>2, <1>3 DEF AtTip

\* The block that a node finalises next was voted on for its state.
LEMMA NextFacts ==
  ASSUME IInv, NEW n \in Nodes, Behind(n)
  PROVE  LET h == app[n].height
             block == NextBlock(n)
             b == block.msg.payload
         IN  /\ Passed(app[n], h + 1, block.msg, block.time)
             /\ block.time \in Nat
             /\ block.msg = None <=> h = 0
             /\ ledger[h + 2] = Finalized(app[n], block, TRUE)
             /\ ledger[h + 2].height = h + 1
             /\ ledger[h + 2].head.hash \in Decided /\ ledger[h + 2].head.hash.number <= h
             /\ block.msg # None => /\ b \in Decided /\ b.number = h
                                    /\ b.parent = app[n].head.hash
                                    /\ b.number = b.parent.number + 1
<1>0. app[n].height \in Nat
  BY NodeFacts, Zenon
<1>1. PICK h \in Nat : h = app[n].height
  BY <1>0
<1>2. /\ Len(chain) \in Nat /\ h + 1 \in 1 .. Len(chain) /\ h + 1 \in 0 .. Len(chain)
      /\ NextBlock(n) = chain[h + 1] /\ app[n] = ledger[h + 1]
  <2>1. /\ Len(chain) \in Nat /\ app[n].height \in 0 .. Len(chain)
        /\ app[n] = ledger[app[n].height + 1]
    BY NodeFacts, Zenon
  <2> QED  BY <1>1, <2>1 DEF Behind, NextBlock
<1>c. ChainOK
  BY DEF IInv
<1>3. PICK k \in 1 .. Len(chain) : k = h + 1
  BY <1>2
<1>4. /\ Passed(ledger[k], k, chain[k].msg, chain[k].time) /\ chain[k].time \in Nat
      /\ ledger[k + 1] = Finalized(ledger[k], chain[k], TRUE)
      /\ chain[k].msg = None <=> k = 1
  <2>1. /\ Passed(ledger[k], k, chain[k].msg, chain[k].time) /\ chain[k].time \in Nat
        /\ ledger[k + 1] = Finalized(ledger[k], chain[k], TRUE)
    BY <1>c, ChainFacts, Zenon
  <2>2. chain[k].msg = None <=> k = 1
    BY <1>c, DecidedBlocks, Zenon
  <2> QED  BY <2>1, <2>2
<1>5. /\ k \in 0 .. Len(chain) /\ ledger[k + 1].height = k
      /\ ledger[k + 1].head.hash = ExecBlock(k)
      /\ ExecBlock(k) \in Decided /\ ExecBlock(k).number = ExecNumber(k)
  <2>1. k \in 0 .. Len(chain)
    BY <1>2, <1>3
  <2>2. ledger[k + 1].height = k /\ ledger[k + 1].head.hash = ExecBlock(k)
    BY <1>c, <2>1, ChainFacts, Zenon
  <2>3. ExecBlock(k) \in Decided /\ ExecBlock(k).number = ExecNumber(k)
    BY <1>c, <2>1, DecidedBlocks, Zenon
  <2> QED  BY <2>1, <2>2, <2>3
<1>6. k + 1 = h + 2 /\ ExecNumber(k) = h /\ k - 1 = h
  BY <1>2, <1>3 DEF ExecNumber
<1>7. ASSUME chain[k].msg # None
      PROVE  LET b == chain[k].msg.payload
             IN  /\ b \in Decided /\ b.number = h /\ b.parent = app[n].head.hash
                 /\ b.number = b.parent.number + 1
  <2>1. k # 1 /\ k \in 2 .. Len(chain)
    BY <1>2, <1>4, <1>7
  <2>2. chain[k].msg.payload = ExecBlock(k)
    BY <1>c, <2>1, DecidedBlocks, ZenonT(30)
  <2>3. /\ chain[k].msg.payload.parent = ledger[k].head.hash
        /\ chain[k].msg.payload.number = chain[k].msg.payload.parent.number + 1
    BY <1>4, <2>1, Zenon DEF Passed, parseAndVerify, ValidChild
  <2> QED  BY <1>2, <1>3, <1>5, <1>6, <2>2, <2>3, Zenon
<1>8. Passed(app[n], h + 1, NextBlock(n).msg, NextBlock(n).time) /\ NextBlock(n).time \in Nat
      /\ (NextBlock(n).msg = None <=> h = 0)
  BY <1>2, <1>3, <1>4
<1>9. /\ ledger[h + 2] = Finalized(app[n], NextBlock(n), TRUE) /\ ledger[h + 2].height = h + 1
      /\ ledger[h + 2].head.hash \in Decided /\ ledger[h + 2].head.hash.number <= h
  <2>1. ledger[h + 2] = ledger[k + 1]
    BY <1>6
  <2>2. app[n] = ledger[k] /\ NextBlock(n) = chain[k]
    BY <1>2, <1>3
  <2>3. ledger[h + 2] = Finalized(app[n], NextBlock(n), TRUE)
    BY <1>4, <2>1, <2>2, Zenon
  <2>4. ledger[k + 1].head.hash.number = h
    BY <1>5, <1>6
  <2>5. ledger[h + 2].height = h + 1
    BY <1>3, <1>5, <2>1
  <2>6. ledger[h + 2].head.hash \in Decided
    BY <1>5, <2>1
  <2>7. ledger[h + 2].head.hash.number <= h
    BY <2>1, <2>4
  <2> QED  BY <2>3, <2>5, <2>6, <2>7, Zenon
<1>10. NextBlock(n).msg # None => LET b == NextBlock(n).msg.payload
                                 IN  /\ b \in Decided /\ b.number = h
                                     /\ b.parent = app[n].head.hash
                                     /\ b.number = b.parent.number + 1
  BY <1>2, <1>3, <1>7
<1> QED  BY <1>1, <1>8, <1>9, <1>10, Zenon

\* The time of the last decided block.
LEMMA LastTimeFacts ==
  ASSUME ChainOK
  PROVE  LastTime \in Nat /\ (Height > 1 => LastTime = chain[Height - 1].time)
<1>1. Len(chain) \in Nat /\ Height = Len(chain) + 1
  BY ChainFacts, Zenon
<1>2. CASE chain = << >>
  BY <1>1, <1>2 DEF LastTime
<1>3. CASE chain # << >>
  <2>1. Len(chain) # 0
    BY <1>3, EmptySeq, Zenon DEF ChainOK, IsSequence
  <2>2. Len(chain) \in 1 .. Len(chain)
    BY <1>1, <2>1
  <2>3. LastTime = chain[Len(chain)].time
    BY <1>3 DEF LastTime
  <2>4. chain[Len(chain)].time \in Nat
    BY <2>2, ChainFacts, Zenon
  <2> QED  BY <1>1, <2>3, <2>4
<1> QED  BY <1>2, <1>3

-----------------------------------------------------------------------------
(* The steps of one node keep the invariant.                               *)

\* What PrepareProposal returns is built on the state after the last block.
LEMMA PrepareProposalStep == ASSUME IInv, NEW n \in Nodes, PrepareProposal(n) PROVE IInv'
<1> USE DEF IInv
<1>0. /\ chain' = chain /\ ledger' = ledger /\ accepted' = accepted /\ app' = app
      /\ work' = work /\ opt' = opt /\ syncing' = syncing /\ crashes' = crashes
  BY DEF PrepareProposal
<1>1. ChainOK' /\ VotesOK' /\ OptOK' /\ NodesOK' /\ crashes' \in Nat /\ Height' = Height
  BY <1>0, ChainKept, VotesKept, OptKept, NodesKept, Zenon
<1>2. /\ Len(chain) \in Nat /\ app[n] = ledger[Len(ledger)] /\ app[n].height = Len(chain)
      /\ Height = Len(chain) + 1
  <2>1. AtTip(n)
    BY DEF PrepareProposal
  <2> QED  BY <2>1, TipFacts, ZenonT(30)
<1>3. ElsOK'
  <2>1. CASE el' = el
    BY <1>0, <2>1, ElsKept, Zenon
  <2>2. CASE el' = [el EXCEPT ![n] = WithHead(@, app[n].head.hash)]
    <3>1. el' = [el EXCEPT ![n] = WithHead(el[n], app[n].head.hash)]
      BY <2>2
    <3>2. IsEl(WithHead(el[n], app[n].head.hash), app[n].height)
      <4>1. /\ app[n].height \in Nat /\ app[n].head.hash \in Decided
            /\ app[n].head.hash.number <= app[n].height /\ IsEl(el[n], app[n].height)
        BY NodeFacts, ZenonT(30)
      <4> QED  BY <4>1, WithHeadEl, Zenon
    <3> QED  BY <1>0, <3>1, <3>2, ElKept, Zenon
  <2> QED  BY <2>1, <2>2, Zenon DEF PrepareProposal
<1>4. PICK t \in LastTime .. MaxTime :
        \/ /\ Height = 1
           /\ Propose(n, None, t)
        \/ /\ Height > 1 /\ opt[n].height = Height
           /\ Propose(n, Message(Height, opt[n].payload), t)
        \/ /\ Height > 1
           /\ \E logs \in Logs(app[n].head.number + 1) :
                Propose(n, Message(Height, startBuild(app[n], t, logs)), t)
  BY Zenon DEF PrepareProposal
<1>5. /\ LastTime \in Nat /\ t \in Nat /\ LastTime <= t
      /\ Height > 1 => LastTime = chain[Height - 1].time
  BY LastTimeFacts, EngineConstants
<1>6. ASSUME NEW p, p.time = t, Height > 1 => Honest(p, ledger[Len(ledger)]),
             proposals' = [proposals EXCEPT ![n] = p]
      PROVE  ProposalsOK'
  <2>1. \A m \in Nodes : proposals'[m] = IF m = n THEN p ELSE proposals[m]
    BY <1>6 DEF ProposalsOK
  <2>2. \A m \in Nodes : proposals'[m] # None =>
          /\ proposals'[m].time \in Nat
          /\ Height > 1 => Honest(proposals'[m], ledger[Len(ledger)])
    BY <1>5, <1>6, <2>1 DEF ProposalsOK
  <2>3. proposals' = [m \in Nodes |-> proposals'[m]]
    BY <1>6 DEF ProposalsOK
  <2> QED  BY <1>0, <2>2, <2>3 DEF ProposalsOK, Honest, Height
<1>7. ASSUME NEW s \in 0 .. t, NEW logs \in Logs(app[n].head.number + 1),
             Propose(n, Message(Height, startBuild(app[n], s, logs)), t)
      PROVE  ProposalsOK'
  <2> DEFINE b == startBuild(app[n], s, logs)
             p == [msg |-> Message(Height, b), time |-> t]
  <2>1. p.time = t /\ p.msg = Message(Height, b) /\ p.msg.payload = b
    BY ZenonT(30) DEF Message
  <2>2. Honest(p, ledger[Len(ledger)])
    BY <1>2, <2>1 DEF Honest
  <2>3. proposals' = [proposals EXCEPT ![n] = p]
    BY <1>7, ZenonT(30) DEF Propose
  <2> HIDE DEF p
  <2> QED  BY <1>6, <2>1, <2>2, <2>3, ZenonT(30)
<1>8. ProposalsOK'
  <2>1. CASE Height = 1 /\ Propose(n, None, t)
    <3> DEFINE p == [msg |-> None, time |-> t]
    <3>1. p.time = t /\ proposals' = [proposals EXCEPT ![n] = p]
      BY <2>1 DEF Propose
    <3> HIDE DEF p
    <3>2. Height > 1 => Honest(p, ledger[Len(ledger)])
      BY <2>1
    <3> QED  BY <1>6, <3>1, <3>2, Zenon
  <2>2. CASE Height > 1 /\ opt[n].height = Height /\ Propose(n, Message(Height, opt[n].payload), t)
    <3>1. PICK logs \in Logs(ledger[Height].head.number + 1) :
            opt[n].payload = startBuild(ledger[Height], chain[Height - 1].time, logs)
      BY <1>2, <2>2 DEF OptOK
    <3>2. ledger[Height] = app[n] /\ chain[Height - 1].time \in 0 .. t
      <4>1. LastTime \in Nat /\ t \in Nat /\ LastTime <= t /\ chain[Height - 1].time = LastTime
        BY <1>5, <2>2, Zenon
      <4>2. ledger[Height] = app[n]
        <5>1. app[n] = ledger[app[n].height + 1]
          BY NodeFacts, Zenon
        <5> QED  BY <1>2, <5>1, Zenon
      <4>3. chain[Height - 1].time \in 0 .. t
        BY <4>1
      <4> QED  BY <4>2, <4>3, Zenon
    <3> QED  BY <1>7, <2>2, <3>1, <3>2
  <2>3. CASE /\ Height > 1
             /\ \E logs \in Logs(app[n].head.number + 1) :
                  Propose(n, Message(Height, startBuild(app[n], t, logs)), t)
    <3>1. t \in 0 .. t
      BY <1>5
    <3> QED  BY <1>7, <2>3, <3>1, Zenon
  <2> QED  BY <1>4, <2>1, <2>2, <2>3
<1> QED  BY <1>1, <1>3, <1>8, ZenonT(30)

\* A PrepareProposal that fails on a syncing EL only moves its target.
LEMMA PrepareProposalSyncingStep ==
  ASSUME IInv, NEW n \in Nodes, PrepareProposalSyncing(n) PROVE IInv'
<1> USE DEF IInv
<1>0. /\ chain' = chain /\ ledger' = ledger /\ accepted' = accepted /\ app' = app
      /\ proposals' = proposals /\ work' = work /\ opt' = opt /\ syncing' = syncing
      /\ crashes' = crashes /\ el' = [el EXCEPT ![n] = WithHead(el[n], app[n].head.hash)]
  BY DEF PrepareProposalSyncing
<1>1. ChainOK' /\ VotesOK' /\ ProposalsOK' /\ OptOK' /\ NodesOK' /\ crashes' \in Nat
  BY <1>0, ChainKept, VotesKept, ProposalsKept, OptKept, NodesKept, Zenon
<1>2. /\ app[n].height \in Nat /\ app[n].head.hash \in Decided
      /\ app[n].head.hash.number <= app[n].height /\ IsEl(el[n], app[n].height)
  BY NodeFacts, Zenon
<1>3. IsEl(WithHead(el[n], app[n].head.hash), app[n].height)
  BY <1>2, WithHeadEl, Zenon
<1>4. ElsOK'
  BY <1>0, <1>3, ElKept, Zenon
<1> QED  BY <1>1, <1>4

\* The times of malformed payloads are times all the same.
LEMMA MalformedTimes ==
  ASSUME IInv, NEW n \in Nodes, LastTime \in Nat, NEW p \in Malformed(n)
  PROVE  p.time \in Nat /\ p.msg.payload.time \in Nat
<1> DEFINE a == app[n]
           b == startBuild(a, LastTime, CHOOSE logs \in Logs(a.head.number + 1) : TRUE)
           m == Message(Height, b)
           w == b.wds
           extra == [index |-> a.wq.rear, w |-> None]
           Wrong(q) == [m EXCEPT !.payload = q]
<1>1. a.head.time \in Nat /\ b.time \in Nat
      /\ DOMAIN b = {"number", "parent", "time", "root", "wds", "logs"}
  <2>1. a.head.time \in Nat
    BY NodeFacts, Zenon DEF IsApp
  <2> QED  BY <2>1 DEF startBuild
<1>2. m.payload = b /\ DOMAIN m = {"payload", "events", "ok", "fmt"}
  BY DEF Message
<1>4. PICK x :
        /\ p = [msg |-> x, time |-> LastTime]
        /\ \/ x = [m EXCEPT !.ok = FALSE]
           \/ x = [m EXCEPT !.fmt = IF IsTerence(Height) THEN "json" ELSE "proto"]
           \/ x = [m EXCEPT !.events = << >>]
           \/ x = [m EXCEPT !.events = Append(@, a.head.number)]
           \/ x = Wrong([b EXCEPT !.number = @ + 1])
           \/ x = Wrong([b EXCEPT !.root = @ + 1])
           \/ x = Wrong([b EXCEPT !.time = a.head.time])
           \/ x = Wrong([b EXCEPT !.time = @ + 1])
           \/ x = Wrong([b EXCEPT !.wds = Append(@, extra)])
           \/ x = Wrong([b EXCEPT !.wds = Tail(Append(@, extra))])
           \/ x = Wrong([b EXCEPT !.wds = IF @ = << >> THEN @ ELSE [@ EXCEPT ![1].index = @ + 1]])
           \/ x = Wrong([b EXCEPT !.wds = IF Len(@) < 2 THEN @ ELSE [i \in 1 .. Len(w) |-> w[Len(w) + 1 - i]]])
           \/ x = Wrong([b EXCEPT !.parent = a.head.hash.parent])
  BY ZenonT(30) DEF Malformed
<1>5. x.payload.time \in Nat
  <2> HIDE DEF m, b
  <2>1. CASE \/ x = [m EXCEPT !.ok = FALSE]
             \/ x = [m EXCEPT !.fmt = IF IsTerence(Height) THEN "json" ELSE "proto"]
             \/ x = [m EXCEPT !.events = << >>]
             \/ x = [m EXCEPT !.events = Append(@, a.head.number)]
    BY <1>1, <1>2, <2>1
  <2>2. CASE x = Wrong([b EXCEPT !.number = @ + 1])
    BY <1>1, <1>2, <2>2
  <2>3. CASE x = Wrong([b EXCEPT !.root = @ + 1])
    BY <1>1, <1>2, <2>3
  <2>4. CASE x = Wrong([b EXCEPT !.time = a.head.time])
    BY <1>1, <1>2, <2>4
  <2>5. CASE x = Wrong([b EXCEPT !.time = @ + 1])
    BY <1>1, <1>2, <2>5
  <2>6. CASE x = Wrong([b EXCEPT !.wds = Append(@, extra)])
    BY <1>1, <1>2, <2>6
  <2>7. CASE x = Wrong([b EXCEPT !.wds = Tail(Append(@, extra))])
    BY <1>1, <1>2, <2>7, ZenonT(30)
  <2>8. CASE x = Wrong([b EXCEPT !.wds = IF @ = << >> THEN @ ELSE [@ EXCEPT ![1].index = @ + 1]])
    BY <1>1, <1>2, <2>8
  <2>9. CASE x = Wrong([b EXCEPT !.wds = IF Len(@) < 2 THEN @ ELSE [i \in 1 .. Len(w) |-> w[Len(w) + 1 - i]]])
    BY <1>1, <1>2, <2>9
  <2>10. CASE x = Wrong([b EXCEPT !.parent = a.head.hash.parent])
    BY <1>1, <1>2, <2>10
  <2> QED  BY <1>4, <2>1, <2>2, <2>3, <2>4, <2>5, <2>6, <2>7, <2>8, <2>9, <2>10, Zenon
<1> QED  BY <1>4, <1>5, ZenonT(30)

\* A vote stands for the checks of ProcessProposal on the last state.
LEMMA ProcessProposalStep == ASSUME IInv, NEW n \in Nodes, ProcessProposal(n) PROVE IInv'
<1> USE DEF IInv
<1>0. /\ chain' = chain /\ ledger' = ledger /\ proposals' = proposals /\ app' = app
      /\ work' = work /\ opt' = opt /\ syncing' = syncing /\ crashes' = crashes
  BY Zenon DEF ProcessProposal
<1>1. ChainOK' /\ ProposalsOK' /\ OptOK' /\ NodesOK' /\ crashes' \in Nat
  BY <1>0, ChainKept, ProposalsKept, OptKept, NodesKept, Zenon
<1>2. /\ Len(chain) \in Nat /\ app[n] = ledger[Len(ledger)] /\ app[n].height = Len(chain)
      /\ Height = Len(chain) + 1 /\ IsApp(app[n])
  <2>1. AtTip(n)
    BY DEF ProcessProposal
  <2> QED  BY <2>1, TipFacts, ZenonT(30)
<1>3. PICK p \in {proposals[m] : m \in Nodes} \cup (IF Height = 1 THEN {} ELSE Malformed(n)) :
        /\ p # None
        /\ ProposalPasses(n, p)
        /\ IF Height = 1 THEN Vote(n, p) /\ UNCHANGED el
           ELSE /\ NewPayload(el[n], p.msg.payload, app[n].height) = "VALID"
                /\ el' = [el EXCEPT ![n] = pushPayload(el[n], p.msg.payload)]
                /\ IF evmEventsEqual(p.msg.payload.parent.logs, p.msg.events)
                     THEN Vote(n, p)
                     ELSE UNCHANGED accepted
  BY ZenonT(30) DEF ProcessProposal
<1>4. p.time \in Nat /\ (Height # 1 => p.msg.payload.time \in Nat)
  <2>1. CASE p \in {proposals[m] : m \in Nodes}
    <3>1. /\ p.time \in Nat
          /\ Height > 1 => Honest(p, app[n])
      BY <1>2, <1>3, <2>1, ZenonT(30) DEF ProposalsOK
    <3>2. ASSUME Height # 1 PROVE p.msg.payload.time \in Nat
      <4>1. PICK s \in 0 .. p.time, logs \in Logs(app[n].head.number + 1) :
              p.msg.payload = startBuild(app[n], s, logs)
        BY <1>2, <3>1, <3>2 DEF Honest
      <4>2. app[n].head.time \in Nat
        BY <1>2, Zenon DEF IsApp
      <4> QED  BY <3>1, <4>1, <4>2, SMTT(30) DEF startBuild
    <3> QED  BY <3>1, <3>2
  <2>2. CASE Height # 1 /\ p \in Malformed(n)
    BY <2>2, MalformedTimes, LastTimeFacts, Zenon
  <2> QED  BY <1>3, <2>1, <2>2, Zenon
<1>5. ASSUME Vote(n, p), Passed(app[n], Height, p.msg, p.time) PROVE VotesOK'
  <2>1. \A m \in Nodes : accepted'[m] = IF m = n THEN accepted[m] \cup {p} ELSE accepted[m]
    BY <1>5, Zenon DEF Vote, VotesOK
  <2>2. accepted' = [m \in Nodes |-> accepted'[m]]
    BY <1>5, Zenon DEF Vote, VotesOK
  <2>3. \A m \in Nodes : \A x \in accepted'[m] :
          x.time \in Nat /\ Passed(ledger[Len(ledger)], Height, x.msg, x.time)
    BY <1>2, <1>4, <1>5, <2>1, Zenon DEF VotesOK
  <2> QED  BY <1>0, <2>2, <2>3 DEF VotesOK, Height
<1>6. CASE Height = 1
  <2>1. Passed(app[n], Height, p.msg, p.time)
    BY <1>3, <1>6, ZenonT(30) DEF ProposalPasses, Passed
  <2>2. VotesOK'
    BY <1>3, <1>5, <1>6, <2>1
  <2>3. ElsOK'
    BY <1>0, <1>3, <1>6, ElsKept, Zenon
  <2> QED  BY <1>1, <2>2, <2>3
<1>7. CASE Height # 1
  <2> DEFINE b == p.msg.payload
  <2>1. /\ p.msg # None /\ parseAndVerify(app[n], Height, p.time, p.msg)
        /\ compareWithdrawals(app[n], b.wds)
    BY <1>3, <1>7, ZenonT(30) DEF ProposalPasses
  <2>2. b.parent \in el[n].known /\ ValidChild(b, app[n].height)
    BY <1>3, <1>7 DEF NewPayload
  <2>3. VotesOK'
    <3>1. CASE evmEventsEqual(b.parent.logs, p.msg.events)
      <4>1. Passed(app[n], Height, p.msg, p.time)
        BY <1>4, <1>7, <2>1, <2>2, <3>1 DEF Passed, evmEventsEqual
      <4> QED  BY <1>3, <1>5, <1>7, <3>1, <4>1, ZenonT(30)
    <3>2. CASE ~evmEventsEqual(b.parent.logs, p.msg.events)
      BY <1>0, <1>3, <1>7, <3>2, VotesKept, Zenon
    <3> QED  BY <3>1, <3>2, Zenon
  <2>4. ElsOK'
    <3>1. b.number = app[n].head.number + 1 /\ b.parent = app[n].head.hash
      BY <2>1 DEF parseAndVerify
    <3>2. /\ b.parent \in Decided /\ b.parent.number = app[n].head.number
          /\ app[n].head.number = ExecNumber(app[n].height) /\ IsEl(el[n], app[n].height)
      BY <3>1, NodeFacts, Zenon
    <3>3. b.number \in 0 .. Len(chain) /\ b.number = b.parent.number + 1
      BY <1>2, <1>7, <3>1, <3>2 DEF ExecNumber
    <3> HIDE DEF b
    <3>4. IsEl(pushPayload(el[n], b), app[n].height)
      BY <1>2, <2>2, <3>2, <3>3, PushEl, Zenon
    <3> QED  BY <1>0, <1>3, <1>7, <3>4, ElKept, ZenonT(30) DEF b
  <2> QED  BY <1>1, <2>3, <2>4
<1> QED  BY <1>6, <1>7

\* A node that goes on to another step of its block.
LEMMA WorkOn ==
  ASSUME NodesOK, chain' = chain, ledger' = ledger, app' = app,
         NEW n \in Nodes, NEW pc, NEW a, work' = [work EXCEPT ![n] = [pc |-> pc, ok |-> TRUE, app |-> a]],
         syncing' = [m \in Nodes |-> syncing'[m]],
         pc # "idle" => Behind(n), pc = "pushed" => NextBlock(n).msg # None,
         pc = "finalized" => a = ledger[app[n].height + 2]
  PROVE  NodesOK'
<1> DEFINE w == [pc |-> pc, ok |-> TRUE, app |-> a]
<1>1. w.pc = pc /\ w.ok = TRUE /\ w.app = a /\ w = [pc |-> w.pc, ok |-> TRUE, app |-> w.app]
  OBVIOUS
<1> HIDE DEF w
<1>2. work' = [m \in Nodes |-> IF m = n THEN w ELSE work[m]]
  BY Zenon DEF NodesOK, w
<1>3. ASSUME NEW m \in Nodes PROVE NodeOK(m)'
  <2>1. CASE m = n
    <3>1. work'[m] = w
      BY <1>2, <2>1
    <3>2. app[m].height \in 0 .. Len(chain) /\ app[m] = ledger[app[m].height + 1]
      BY DEF NodesOK, NodeOK
    <3> QED  BY <1>1, <2>1, <3>1, <3>2, Zenon DEF NodeOK, Behind, NextBlock
  <2>2. CASE m # n
    <3>1. work'[m] = work[m] /\ app'[m] = app[m] /\ NodeOK(m)
      BY <1>2, <2>2 DEF NodesOK
    <3> QED  BY <3>1, NodeKept, Zenon
  <2> QED  BY <2>1, <2>2
<1> QED  BY <1>2, <1>3, Zenon DEF NodesOK

\* Pushing the payload of a decided block cannot be answered with INVALID.
LEMMA FinalizePushStep == ASSUME IInv, NEW n \in Nodes, FinalizePush(n) PROVE IInv'
<1> USE DEF IInv
<1>0. /\ chain' = chain /\ ledger' = ledger /\ proposals' = proposals /\ accepted' = accepted
      /\ app' = app /\ opt' = opt /\ crashes' = crashes /\ Behind(n)
  BY DEF FinalizePush
<1>1. ChainOK' /\ VotesOK' /\ ProposalsOK' /\ OptOK' /\ crashes' \in Nat
  BY <1>0, ChainKept, VotesKept, ProposalsKept, OptKept, Zenon
<1>2. CASE NextBlock(n).msg = None
  <2>1. Working(n, "executed", TRUE) /\ syncing' = syncing /\ el' = el
    BY <1>2, Zenon DEF FinalizePush
  <2>2. NodesOK'
    <3>1. work' = [work EXCEPT ![n] = [pc |-> "executed", ok |-> TRUE, app |-> None]]
          /\ syncing' = [m \in Nodes |-> syncing'[m]]
      BY <2>1 DEF Working, NodesOK
    <3>2. "executed" # "idle" /\ "executed" # "pushed" /\ "executed" # "finalized"
      OBVIOUS
    <3> QED  BY <1>0, <3>1, <3>2, WorkOn, Zenon
  <2>3. ElsOK'
    BY <1>0, <2>1, ElsKept, Zenon
  <2> QED  BY <1>1, <2>2, <2>3
<1>3. CASE NextBlock(n).msg # None
  <2> DEFINE a == app[n]
             block == NextBlock(n)
             b == block.msg.payload
             passes == parseAndVerify(a, a.height + 1, block.time, block.msg) /\ DequeueMatches(a, b)
             status == IF passes THEN NewPayload(el[n], b, a.height) ELSE "INVALID"
  <2>1. /\ IF isInvalid(status) THEN Working(n, "executed", FALSE) ELSE Working(n, "pushed", TRUE)
        /\ syncing' = [syncing EXCEPT ![n] = IF isInvalid(status) THEN @ ELSE status = "SYNCING"]
        /\ el' = [el EXCEPT ![n] = IF status = "VALID" THEN pushPayload(el[n], b) ELSE el[n]]
    BY <1>3, ZenonT(30) DEF FinalizePush
  <2>2. /\ Passed(a, a.height + 1, block.msg, block.time) /\ a.height # 0 /\ IsApp(a)
        /\ b \in Decided /\ b.number = a.height /\ b.parent = a.head.hash
        /\ b.number = b.parent.number + 1 /\ a.height \in Nat
    <3>1. IsApp(a) /\ a.height \in Nat
      BY NodeFacts, Zenon
    <3>2. Passed(a, a.height + 1, block.msg, block.time) /\ a.height # 0
      BY <1>0, <1>3, NextFacts, Zenon
    <3>3. /\ b \in Decided /\ b.number = a.height /\ b.parent = a.head.hash
          /\ b.number = b.parent.number + 1
      BY <1>0, <1>3, NextFacts, ZenonT(30)
    <3> QED  BY <3>1, <3>2, <3>3
  <2>3. /\ parseAndVerify(a, a.height + 1, block.time, block.msg)
        /\ compareWithdrawals(a, b.wds) /\ ValidChild(b, a.height)
    BY <2>2, SMTT(30) DEF Passed
  <2>4. DequeueMatches(a, b)
    BY <2>2, <2>3, ComparedWithdrawals, ZenonT(30) DEF DequeueMatches
  <2>5. ~isInvalid(status) /\ (status = "VALID" => b.parent \in el[n].known)
    BY <2>3, <2>4, Zenon DEF NewPayload, isInvalid
  <2> HIDE DEF status
  <2>6. NodesOK'
    <3>1. work' = [work EXCEPT ![n] = [pc |-> "pushed", ok |-> TRUE, app |-> None]]
          /\ syncing' = [m \in Nodes |-> syncing'[m]]
      BY <2>1, <2>5 DEF Working, NodesOK
    <3> QED  BY <1>0, <1>3, <3>1, WorkOn, Zenon
  <2>7. ElsOK'
    <3>1. CASE status = "VALID"
      <4>1. b.number \in 0 .. Len(chain) /\ b.parent \in Decided /\ IsEl(el[n], a.height)
        BY <2>2, NodeFacts, Zenon
      <4> HIDE DEF b, a
      <4>2. IsEl(pushPayload(el[n], b), a.height)
        BY <2>2, <2>5, <3>1, <4>1, PushEl, Zenon
      <4> QED  BY <1>0, <2>1, <3>1, <4>2, ElKept, Zenon DEF a
    <3>2. CASE status # "VALID"
      <4>1. el' = [el EXCEPT ![n] = el[n]] /\ IsEl(el[n], app[n].height)
        BY <2>1, <3>2, NodeFacts, Zenon
      <4> QED  BY <1>0, <4>1, ElKept, Zenon
    <3> QED  BY <3>1, <3>2
  <2> QED  BY <1>1, <2>6, <2>7
<1> QED  BY <1>2, <1>3

\* Making the payload the EL's head.
LEMMA FinalizeForkchoiceStep == ASSUME IInv, NEW n \in Nodes, FinalizeForkchoice(n) PROVE IInv'
<1> USE DEF IInv
<1>0. /\ chain' = chain /\ ledger' = ledger /\ proposals' = proposals /\ accepted' = accepted
      /\ app' = app /\ opt' = opt /\ syncing' = syncing /\ crashes' = crashes
      /\ el' = [el EXCEPT ![n] = WithHead(el[n], NextBlock(n).msg.payload)]
      /\ work' = [work EXCEPT ![n] = [pc |-> "executed", ok |-> TRUE, app |-> None]]
      /\ work[n].pc = "pushed"
  BY DEF FinalizeForkchoice, Working
<1>1. ChainOK' /\ VotesOK' /\ ProposalsOK' /\ OptOK' /\ crashes' \in Nat
  BY <1>0, ChainKept, VotesKept, ProposalsKept, OptKept, Zenon
<1>2. Behind(n) /\ NextBlock(n).msg # None
  BY <1>0 DEF NodesOK, NodeOK
<1>3. NodesOK'
  <2>1. syncing' = [m \in Nodes |-> syncing'[m]]
    BY <1>0 DEF NodesOK
  <2> QED  BY <1>0, <1>2, <2>1, WorkOn, Zenon
<1>4. ElsOK'
  <2> DEFINE b == NextBlock(n).msg.payload
  <2>1. b \in Decided /\ b.number <= app[n].height /\ app[n].height \in Nat /\ IsEl(el[n], app[n].height)
    <3>1. app[n].height \in Nat /\ IsEl(el[n], app[n].height)
      BY NodeFacts, Zenon
    <3>2. b \in Decided /\ b.number = app[n].height
      BY <1>2, NextFacts, Zenon
    <3> QED  BY <3>1, <3>2
  <2> HIDE DEF b
  <2>2. IsEl(WithHead(el[n], b), app[n].height)
    BY <2>1, WithHeadEl, Zenon
  <2> QED  BY <1>0, <2>2, ElKept, ZenonT(30) DEF b
<1> QED  BY <1>1, <1>3, <1>4

\* The state that FinalizeBlock leaves is the next one of the ledger, and a
\* build that it starts is built on it.
LEMMA FinalizeEndStep == ASSUME IInv, NEW n \in Nodes, FinalizeEnd(n) PROVE IInv'
<1> USE DEF IInv
<1> DEFINE h == app[n].height
           block == NextBlock(n)
           a == Finalized(app[n], block, work[n].ok)
<1>0. /\ chain' = chain /\ ledger' = ledger /\ proposals' = proposals /\ accepted' = accepted
      /\ app' = app /\ syncing' = syncing /\ crashes' = crashes
      /\ work[n].pc = "executed"
      /\ work' = [work EXCEPT ![n] = [pc |-> "finalized", ok |-> work[n].ok, app |-> a]]
      /\ \/ opt' = opt /\ el' = el
         \/ opt' = opt /\ el' = [el EXCEPT ![n] = WithHead(el[n], a.head.hash)]
         \/ \E logs \in Logs(a.head.number + 1) :
              LET p == startBuild(a, block.time, logs)
              IN  /\ opt' = [opt EXCEPT ![n] = [height |-> NextHeight(a), payload |-> p]]
                  /\ el' = [el EXCEPT ![n] = [WithHead(el[n], a.head.hash) EXCEPT !.builds = {p}]]
  BY Zenon DEF FinalizeEnd
<1>1. ChainOK' /\ VotesOK' /\ ProposalsOK' /\ crashes' \in Nat /\ Height' = Height
  BY <1>0, ChainKept, VotesKept, ProposalsKept, Zenon
<1>2. Behind(n) /\ work[n].ok = TRUE
  BY <1>0 DEF NodesOK, NodeOK
<1>3. /\ a = ledger[h + 2] /\ a.height = h + 1
      /\ a.head.hash \in Decided /\ a.head.hash.number <= h
  <2>1. /\ ledger[h + 2] = Finalized(app[n], block, TRUE) /\ ledger[h + 2].height = h + 1
        /\ ledger[h + 2].head.hash \in Decided /\ ledger[h + 2].head.hash.number <= h
    BY <1>2, NextFacts, Zenon
  <2> QED  BY <1>2, <2>1, Zenon
<1>4. /\ h \in Nat /\ Len(chain) \in Nat /\ h < Len(chain) /\ IsEl(el[n], h)
      /\ Height = Len(chain) + 1 /\ NextBlock(n) = chain[h + 1]
  <2>1. Len(chain) \in Nat /\ h \in 0 .. Len(chain) /\ IsEl(el[n], h)
    BY NodeFacts, Zenon
  <2>2. Height = Len(chain) + 1
    BY ChainFacts, Zenon
  <2> QED  BY <1>2, <2>1, <2>2 DEF Behind, NextBlock
<1>5. NodesOK'
  <2>1. syncing' = [m \in Nodes |-> syncing'[m]]
    BY <1>0 DEF NodesOK
  <2>2. "finalized" # "pushed"
    OBVIOUS
  <2>3. work' = [work EXCEPT ![n] = [pc |-> "finalized", ok |-> TRUE, app |-> a]]
    BY <1>0, <1>2, Zenon
  <2> QED  BY <1>0, <1>2, <1>3, <2>1, <2>2, <2>3, WorkOn, ZenonT(30)
<1> HIDE DEF a
<1>6. IsEl(WithHead(el[n], a.head.hash), h)
  BY <1>3, <1>4, WithHeadEl, Zenon
<1>7. CASE opt' = opt /\ el' = el
  BY <1>0, <1>1, <1>5, <1>7, OptKept, ElsKept, Zenon
<1>8. CASE opt' = opt /\ el' = [el EXCEPT ![n] = WithHead(el[n], a.head.hash)]
  <2>1. ElsOK'
    BY <1>0, <1>6, <1>8, ElKept, Zenon
  <2> QED  BY <1>0, <1>1, <1>5, <1>8, <2>1, OptKept, Zenon
<1>9. CASE \E logs \in Logs(a.head.number + 1) :
             LET p == startBuild(a, block.time, logs)
             IN  /\ opt' = [opt EXCEPT ![n] = [height |-> NextHeight(a), payload |-> p]]
                 /\ el' = [el EXCEPT ![n] = [WithHead(el[n], a.head.hash) EXCEPT !.builds = {p}]]
  <2>a. PICK logs \in Logs(a.head.number + 1) :
          LET p == startBuild(a, block.time, logs)
          IN  /\ opt' = [opt EXCEPT ![n] = [height |-> NextHeight(a), payload |-> p]]
              /\ el' = [el EXCEPT ![n] = [WithHead(el[n], a.head.hash) EXCEPT !.builds = {p}]]
    BY <1>9, Zenon
  <2>b. PICK p : p = startBuild(a, block.time, logs)
    OBVIOUS
  <2>1. /\ p = startBuild(a, block.time, logs)
        /\ opt' = [opt EXCEPT ![n] = [height |-> NextHeight(a), payload |-> p]]
        /\ el' = [el EXCEPT ![n] = [WithHead(el[n], a.head.hash) EXCEPT !.builds = {p}]]
    BY <2>a, <2>b
  <2>2. OptOK'
    <3> DEFINE o == [height |-> h + 2, payload |-> p]
    <3>1. NextHeight(a) = h + 2
      BY <1>3, <1>4 DEF NextHeight
    <3>2. opt' = [m \in Nodes |-> IF m = n THEN o ELSE opt[m]]
      BY <2>1, <3>1, Zenon DEF OptOK
    <3>3. o.height = h + 2 /\ o.payload = p
      BY ZenonT(30)
    <3> HIDE DEF o
    <3>4. ASSUME NEW m \in Nodes, opt'[m].height # 0
          PROVE  /\ opt'[m].height \in 2 .. Height
                 /\ \E l \in Logs(ledger[opt'[m].height].head.number + 1) :
                      opt'[m].payload = startBuild(ledger[opt'[m].height], chain[opt'[m].height - 1].time, l)
      <4>1. CASE m = n
        <5>1. opt'[m].height = h + 2 /\ opt'[m].payload = p
          BY <3>2, <3>3, <4>1, Zenon
        <5>2. (h + 2) - 1 = h + 1 /\ h + 2 \in 2 .. Height
          BY <1>4
        <5> QED  BY <1>3, <1>4, <2>1, <5>1, <5>2, ZenonT(30)
      <4>2. CASE m # n
        <5>1. opt'[m] = opt[m]
          BY <3>2, <4>2
        <5> QED  BY <3>4, <5>1 DEF OptOK
      <4> QED  BY <4>1, <4>2
    <3> QED  BY <1>0, <1>1, <3>2, <3>4 DEF OptOK
  <2>3. ElsOK'
    <3> DEFINE f == WithHead(el[n], a.head.hash)
               g == [f EXCEPT !.builds = {p}]
    <3>1. IsEl(f, h)
      BY <1>6
    <3> HIDE DEF f
    <3>2. DOMAIN g = DOMAIN f /\ g.known = f.known /\ g.head = f.head /\ g.target = f.target
      BY <3>1 DEF IsEl
    <3> HIDE DEF g
    <3>3. IsEl(g, h)
      BY <3>1, <3>2 DEF IsEl
    <3>4. el' = [el EXCEPT ![n] = g]
      BY <2>1 DEF f, g
    <3> QED  BY <1>0, <3>3, <3>4, ElKept, ZenonT(30)
  <2> QED  BY <1>1, <1>5, <2>2, <2>3
<1> QED  BY <1>0, <1>7, <1>8, <1>9, Zenon DEF a

\* Commit moves a node to the next state of the ledger.
LEMMA CommitStep == ASSUME IInv, NEW n \in Nodes, Commit(n) PROVE IInv'
<1> USE DEF IInv
<1>0. /\ chain' = chain /\ ledger' = ledger /\ proposals' = proposals /\ accepted' = accepted
      /\ opt' = opt /\ syncing' = syncing /\ crashes' = crashes /\ el' = el
      /\ work[n].pc = "finalized" /\ app' = [app EXCEPT ![n] = work[n].app]
      /\ work' = [work EXCEPT ![n] = Idle]
  BY DEF Commit
<1>1. ChainOK' /\ VotesOK' /\ ProposalsOK' /\ OptOK' /\ crashes' \in Nat
  BY <1>0, ChainKept, VotesKept, ProposalsKept, OptKept, Zenon
<1>a. app[n].height \in Nat
  BY NodeFacts, Zenon
<1>2. PICK h \in Nat : h = app[n].height
  BY <1>a
<1>3. Behind(n) /\ work[n].app = ledger[h + 2]
  BY <1>0, <1>2 DEF NodesOK, NodeOK
<1>4. ledger[h + 2].height = h + 1
  BY <1>2, <1>3, NextFacts, ZenonT(30)
<1>5. h + 1 \in 0 .. Len(chain)
  BY <1>2, <1>3, NodeFacts DEF Behind
<1>6. app'[n] = ledger[h + 2] /\ app'[n].height = h + 1
      /\ work'[n] = [pc |-> "idle", ok |-> TRUE, app |-> None]
  BY <1>0, <1>3, <1>4 DEF NodesOK, Idle
<1>7. \A m \in Nodes : m # n => app'[m] = app[m] /\ work'[m] = work[m]
  BY <1>0, Zenon DEF NodesOK
<1>8. NodesOK'
  <2>1. ASSUME NEW m \in Nodes PROVE NodeOK(m)'
    <3>1. CASE m = n
      <4>1. app'[m].height \in 0 .. Len(chain) /\ app'[m] = ledger[app'[m].height + 1]
        <5>1. (h + 1) + 1 = h + 2
          OBVIOUS
        <5> QED  BY <1>5, <1>6, <3>1, <5>1
      <4>2. work'[m] = [pc |-> work'[m].pc, ok |-> TRUE, app |-> work'[m].app] /\ work'[m].pc = "idle"
        <5> DEFINE w == [pc |-> "idle", ok |-> TRUE, app |-> None]
        <5>1. w.pc = "idle" /\ w = [pc |-> w.pc, ok |-> TRUE, app |-> w.app]
          OBVIOUS
        <5>2. work'[m] = w
          BY <1>6, <3>1
        <5> HIDE DEF w
        <5> QED  BY <5>1, <5>2
      <4> QED  BY <1>0, <4>1, <4>2, Zenon DEF NodeOK
    <3>2. CASE m # n
      <4>1. NodeOK(m) /\ app'[m] = app[m] /\ work'[m] = work[m]
        BY <1>7, <3>2 DEF NodesOK
      <4> QED  BY <1>0, <4>1, NodeKept, Zenon
    <3> QED  BY <3>1, <3>2
  <2>2. app' = [m \in Nodes |-> app'[m]] /\ work' = [m \in Nodes |-> work'[m]]
        /\ syncing' = [m \in Nodes |-> syncing'[m]]
    BY <1>0, ZenonT(30) DEF NodesOK
  <2> QED  BY <2>1, <2>2 DEF NodesOK
<1>9. ElsOK'
  <2>1. ASSUME NEW m \in Nodes PROVE IsEl(el[m], app'[m].height)
    <3>1. CASE m = n
      <4>1. IsEl(el[m], h) /\ el[m].head \in Decided /\ el[m].target \in Decided
        BY <1>2, <3>1 DEF ElsOK, IsEl
      <4>2. el[m].head.number \in Nat /\ el[m].target.number \in Nat
        BY <4>1, DecidedUnique, Zenon
      <4>3. el[m].head.number <= h + 1 /\ el[m].target.number <= h + 1
        BY <4>1, <4>2 DEF IsEl
      <4> QED  BY <1>6, <3>1, <4>1, <4>3 DEF IsEl
    <3>2. CASE m # n
      BY <1>7, <3>2 DEF ElsOK
    <3> QED  BY <3>1, <3>2
  <2> QED  BY <1>0, <2>1, SMTT(30) DEF ElsOK, IsEl, Decided
<1> QED  BY <1>1, <1>8, <1>9

\* A crash loses what is not committed, and no block.
LEMMA CrashStep == ASSUME IInv, NEW n \in Nodes, Crash(n) PROVE IInv'
<1> USE DEF IInv
<1>0. /\ chain' = chain /\ ledger' = ledger /\ proposals' = proposals /\ accepted' = accepted
      /\ app' = app /\ el' = el /\ crashes' = crashes + 1
      /\ work' = [work EXCEPT ![n] = [pc |-> "idle", ok |-> TRUE, app |-> None]]
      /\ opt' = [opt EXCEPT ![n] = [height |-> 0, payload |-> None]]
      /\ syncing' = [syncing EXCEPT ![n] = FALSE]
  BY DEF Crash, Idle
<1>1. ChainOK' /\ VotesOK' /\ ProposalsOK' /\ ElsOK' /\ crashes' \in Nat /\ Height' = Height
  BY <1>0, ChainKept, VotesKept, ProposalsKept, ElsKept
<1>2. NodesOK'
  <2>1. syncing' = [m \in Nodes |-> syncing'[m]]
    BY <1>0, Zenon DEF NodesOK
  <2>2. "idle" # "pushed" /\ "idle" # "finalized"
    OBVIOUS
  <2> QED  BY <1>0, <2>1, <2>2, WorkOn, Zenon
<1>3. OptOK'
  <2>1. opt' = [m \in Nodes |-> opt'[m]] /\ opt'[n].height = 0
        /\ \A m \in Nodes : m # n => opt'[m] = opt[m]
    BY <1>0 DEF OptOK
  <2>2. \A m \in Nodes : opt'[m].height # 0 => opt'[m] = opt[m]
    BY <2>1
  <2> QED  BY <1>0, <1>1, <2>1, <2>2, ZenonT(30) DEF OptOK
<1> QED  BY <1>1, <1>2, <1>3

\* Whatever an EL loses, a decided block is left for each number up to the
\* last one it kept.
LEMMA RestartedEl ==
  ASSUME IInv, NEW n \in Nodes, NEW number \in 0 .. el[n].head.number
  PROVE  LET kept == {b \in el[n].known : b.number <= number}
             old  == CHOOSE b \in kept : b.number = number /\ b \in Decided
         IN  old \in kept /\ old.number = number /\ old \in Decided
<1> DEFINE kept == {b \in el[n].known : b.number <= number}
<1>1. /\ el[n].head \in el[n].known /\ el[n].head \in Decided
      /\ \A d \in Decided : d.number < el[n].head.number => d \in el[n].known
  BY NodeFacts, ZenonT(30) DEF IsEl
<1>2. el[n].head.number \in Nat /\ el[n].head.number <= ExecNumber(Len(chain))
      /\ ExecNumber(Len(chain)) \in Nat
  <2>1. ChainOK /\ Len(chain) \in Nat
    BY NodeFacts, Zenon DEF IInv
  <2>2. ExecNumber(Len(chain)) \in Nat
    BY <2>1 DEF ExecNumber
  <2> QED  BY <1>1, <2>1, <2>2, DecidedUnique, Zenon
<1>3. number \in 0 .. ExecNumber(Len(chain))
  BY <1>2
<1>4. PICK d \in Decided : d.number = number
  BY <1>3, DecidedUnique, Zenon DEF IInv
<1>5. d \in el[n].known
  <2>1. CASE number = el[n].head.number
    BY <1>1, <1>4, <2>1, DecidedUnique, ZenonT(30) DEF IInv
  <2>2. CASE number # el[n].head.number
    BY <1>1, <1>2, <1>4, <2>2
  <2> QED  BY <2>1, <2>2
<1>6. d \in kept /\ d.number = number /\ d \in Decided
  BY <1>2, <1>4, <1>5
<1> HIDE DEF kept
<1>7. \E b \in kept : b.number = number /\ b \in Decided
  BY <1>6
<1>8. LET old == CHOOSE b \in kept : b.number = number /\ b \in Decided
      IN  old \in kept /\ old.number = number /\ old \in Decided
  BY <1>7
<1> QED  BY <1>8 DEF kept

\* An EL that restarts behind follows a prefix of the decided chain.
LEMMA ElRestartStep == ASSUME IInv, NEW n \in Nodes, ElRestart(n) PROVE IInv'
<1> USE DEF IInv
<1>0. /\ chain' = chain /\ ledger' = ledger /\ proposals' = proposals /\ accepted' = accepted
      /\ app' = app /\ work' = work /\ opt' = opt /\ syncing' = syncing /\ crashes' = crashes
  BY DEF ElRestart
<1>1. ChainOK' /\ VotesOK' /\ ProposalsOK' /\ OptOK' /\ NodesOK' /\ crashes' \in Nat
  BY <1>0, ChainKept, VotesKept, ProposalsKept, OptKept, NodesKept, Zenon
<1>2. PICK number \in 0 .. el[n].head.number :
        LET kept == {b \in el[n].known : b.number <= number}
            old  == CHOOSE b \in kept : b.number = number /\ b \in Decided
        IN  el' = [el EXCEPT ![n] = [known |-> kept, head |-> old, target |-> old, builds |-> {}]]
  BY Zenon DEF ElRestart
<1> DEFINE kept == {b \in el[n].known : b.number <= number}
           old  == CHOOSE b \in kept : b.number = number /\ b \in Decided
           e    == [known |-> kept, head |-> old, target |-> old, builds |-> {}]
<1>3. old \in kept /\ old.number = number /\ old \in Decided
  BY RestartedEl, ZenonT(30)
<1>4. el' = [el EXCEPT ![n] = e]
  BY <1>2
<1>5. DOMAIN e = {"known", "head", "target", "builds"} /\ e.known = kept /\ e.head = old /\ e.target = old
  OBVIOUS
<1>6. \A b \in kept : b \in el[n].known /\ b.number <= number
  OBVIOUS
<1>7. \A b \in el[n].known : b.number <= number => b \in kept
  OBVIOUS
<1> HIDE DEF e, kept, old
<1>8. /\ \A b \in el[n].known : b.number \in 0 .. Len(chain)
      /\ \A b \in el[n].known, d \in Decided : d.number < b.number => d \in el[n].known
      /\ el[n].head.number <= app[n].height /\ el[n].head.number \in Nat
      /\ app[n].height \in Nat /\ Len(chain) \in Nat
  <2>1. IsEl(el[n], app[n].height) /\ app[n].height \in 0 .. Len(chain) /\ Len(chain) \in Nat
    BY NodeFacts, Zenon
  <2>2. el[n].head.number \in Nat
    <3>1. el[n].head \in Decided
      BY <2>1 DEF IsEl
    <3> QED  BY <3>1, DecidedUnique, Zenon
  <2> QED  BY <2>1, <2>2 DEF IsEl
<1>9. ASSUME NEW b \in kept, NEW d \in Decided, d.number < b.number PROVE d \in kept
  <2>1. d \in el[n].known /\ d.number \in Nat /\ b.number \in Nat
    BY <1>6, <1>8, <1>9, DecidedUnique
  <2>2. d.number <= number
    BY <1>6, <1>8, <1>9, <2>1
  <2> QED  BY <1>7, <2>1, <2>2
<1>10. old.number <= app[n].height
  BY <1>3, <1>8
<1>11. IsEl(e, app[n].height)
  BY <1>3, <1>5, <1>6, <1>8, <1>9, <1>10 DEF IsEl
<1>12. ElsOK'
  BY <1>0, <1>4, <1>11, ElKept, Zenon
<1> QED  BY <1>1, <1>12

\* A sync brings every decided block up to the target.
LEMMA ElSyncStep == ASSUME IInv, NEW n \in Nodes, ElSync(n) PROVE IInv'
<1> USE DEF IInv
<1> DEFINE t == el[n].target
           e == [el[n] EXCEPT !.known = @ \cup {t} \cup {b \in Decided : b.number < t.number},
                              !.head = t]
<1>0. /\ chain' = chain /\ ledger' = ledger /\ proposals' = proposals /\ accepted' = accepted
      /\ app' = app /\ work' = work /\ opt' = opt /\ syncing' = syncing /\ crashes' = crashes
      /\ el' = [el EXCEPT ![n] = e]
  BY DEF ElSync
<1>1. ChainOK' /\ VotesOK' /\ ProposalsOK' /\ OptOK' /\ NodesOK' /\ crashes' \in Nat
  BY <1>0, ChainKept, VotesKept, ProposalsKept, OptKept, NodesKept, Zenon
<1>2. IsEl(el[n], app[n].height) /\ Len(chain) \in Nat
  BY NodeFacts, Zenon
<1>3. /\ DOMAIN e = DOMAIN el[n] /\ e.head = t /\ e.target = t
      /\ e.known = el[n].known \cup {t} \cup {b \in Decided : b.number < t.number}
  BY <1>2 DEF IsEl
<1> HIDE DEF e
<1>4. t \in Decided /\ t.number <= app[n].height
  BY <1>2 DEF IsEl
<1> HIDE DEF t
<1>5. \A d \in Decided : d.number \in 0 .. Len(chain)
  BY <1>2, DecidedUnique DEF ExecNumber
<1>6. \A b \in e.known : b.number \in 0 .. Len(chain)
  BY <1>2, <1>3, <1>4, <1>5 DEF IsEl
<1>7. ASSUME NEW b \in e.known, NEW d \in Decided, d.number < b.number PROVE d \in e.known
  <2>1. CASE b \in el[n].known
    BY <1>2, <1>3, <1>7, <2>1 DEF IsEl
  <2>2. CASE b = t \/ (b \in Decided /\ b.number < t.number)
    <3>1. d.number < t.number
      BY <1>4, <1>5, <1>7, <2>2
    <3> QED  BY <1>3, <3>1
  <2> QED  BY <1>3, <2>1, <2>2
<1>8. IsEl(e, app[n].height)
  BY <1>2, <1>3, <1>4, <1>6, <1>7 DEF IsEl
<1>9. ElsOK'
  BY <1>0, <1>8, ElKept, Zenon
<1> QED  BY <1>1, <1>9

\* A step that changes nothing.
LEMMA StutterIInv == ASSUME IInv, UNCHANGED vars PROVE IInv'
<1> USE DEF IInv
<1>0. /\ chain' = chain /\ ledger' = ledger /\ proposals' = proposals /\ accepted' = accepted
      /\ app' = app /\ work' = work /\ opt' = opt /\ syncing' = syncing /\ el' = el
      /\ crashes' = crashes
  BY DEF vars
<1> QED  BY <1>0, ChainKept, VotesKept, ProposalsKept, OptKept, NodesKept, ElsKept, Zenon
-----------------------------------------------------------------------------
(* The theorems.                                                           *)

\* Every state the engine reaches satisfies the inductive invariant.
THEOREM Invariance == Spec => []IInv
<1>1. IInv /\ [Next]_vars => IInv'
  <2> SUFFICES ASSUME IInv, [Next]_vars PROVE IInv'  OBVIOUS
  <2>1. CASE Decide
    BY <2>1, DecideStep, Zenon
  <2>2. ASSUME NEW n \in Nodes,
               \/ PrepareProposal(n) \/ PrepareProposalSyncing(n) \/ ProcessProposal(n)
               \/ FinalizePush(n) \/ FinalizeForkchoice(n) \/ FinalizeEnd(n) \/ Commit(n)
               \/ Crash(n) \/ ElRestart(n) \/ ElSync(n)
        PROVE  IInv'
    BY <2>2, PrepareProposalStep, PrepareProposalSyncingStep, ProcessProposalStep,
       FinalizePushStep, FinalizeForkchoiceStep, FinalizeEndStep, CommitStep, CrashStep,
       ElRestartStep, ElSyncStep
  <2>3. CASE UNCHANGED vars
    BY <2>3, StutterIInv, Zenon
  <2> QED  BY <2>1, <2>2, <2>3 DEF Next
<1> QED  BY InitIInv, <1>1, PTL DEF Spec

\* A block that a quorum accepted passes every check of its finalisation on
\* every node ("FinalizeBlock contains unexpected failed transaction [BUG]"
\* is never logged), for any number of validators, heights and restarts.
THEOREM FinalizationNeverFails == Spec => []NoFailedTransaction
<1>1. IInv => NoFailedTransaction
  <2> SUFFICES ASSUME IInv, NEW n \in Nodes PROVE work[n].ok
    BY DEF NoFailedTransaction
  <2>1. work[n] = [pc |-> work[n].pc, ok |-> TRUE, app |-> work[n].app]
    BY DEF IInv, NodesOK, NodeOK
  <2> QED  BY <2>1
<1> QED  BY <1>1, Invariance, PTL

\* Every node that committed height h has the state a fault-free execution of
\* h blocks leaves: FinalizeBlock and Commit are replayed without a trace.
THEOREM NodesAgree == Spec => []LedgerAgreement
<1>1. IInv => LedgerAgreement
  BY NodeFacts, ZenonT(30) DEF LedgerAgreement
<1> QED  BY <1>1, Invariance, PTL

\* What the decided payloads pay, followed by the queues, is what EndBlock
\* enqueued: no withdrawal is lost, paid twice or paid out of order.
THEOREM WithdrawalsPaidOnce == Spec => []PaidExactlyOnce
<1>1. IInv => PaidExactlyOnce
  <2> SUFFICES ASSUME IInv, NEW a \in AppStates
               PROVE  /\ QueueHistory(a.wq, a.dueStake, a.paidStake)
                      /\ QueueHistory(a.rq, a.dueReward, a.paidReward)
    BY DEF PaidExactlyOnce
  <2>1. IsApp(a)
    <3>1. CASE \E n \in Nodes : a = app[n]
      BY <3>1, NodeFacts, Zenon
    <3>2. CASE \E n \in Nodes : work[n].pc = "finalized" /\ a = work[n].app
      <4>1. PICK n \in Nodes : work[n].pc = "finalized" /\ a = work[n].app
        BY <3>2
      <4>2. Behind(n) /\ a = ledger[app[n].height + 2]
        BY <4>1 DEF IInv, NodesOK, NodeOK
      <4>3. PICK h \in 0 .. Len(chain) : h = app[n].height + 1
        BY <4>2, NodeFacts DEF Behind
      <4>4. app[n].height + 2 = h + 1
        BY <4>3, NodeFacts
      <4> QED  BY <4>2, <4>3, <4>4, ChainFacts, Zenon DEF IInv
    <3> QED  BY <3>1, <3>2 DEF AppStates
  <2> QED  BY <2>1, Zenon DEF IsApp
<1> QED  BY <1>1, Invariance, PTL

\* The logs of every execution block below the head are processed once, in
\* block order.
THEOREM EventsOnce == Spec => []EventsDeliveredOnce
<1>1. IInv => EventsDeliveredOnce
  <2> SUFFICES ASSUME IInv, NEW n \in Nodes PROVE app[n].delivered = LogsBelow(app[n])
    BY DEF EventsDeliveredOnce
  <2>a. app[n].height \in 0 .. Len(chain)
    BY NodeFacts, ZenonT(30)
  <2>1. PICK h \in 0 .. Len(chain) : h = app[n].height
    BY <2>a
  <2>2. app[n] = ledger[h + 1]
    BY <2>1, NodeFacts, Zenon
  <2>3. ledger[h + 1].delivered = LogsBelow(ledger[h + 1])
    BY ChainFacts, Zenon DEF IInv
  <2> QED  BY <2>2, <2>3
<1> QED  BY <1>1, Invariance, PTL

\* The EL's head is a decided block, at most one ahead of the committed head
\* and only while a decided block waits to be committed.
THEOREM ElFollows == Spec => []ElFollowsDecided
<1>1. IInv => ElFollowsDecided
  <2> SUFFICES ASSUME IInv, NEW n \in Nodes
               PROVE  /\ el[n].head \in Decided
                      /\ el[n].head.number <= app[n].head.number + 1
                      /\ el[n].head.number > app[n].head.number => Behind(n)
    BY DEF ElFollowsDecided
  <2>1. /\ app[n].height \in 0 .. Len(chain) /\ Len(chain) \in Nat
        /\ app[n].head.number = ExecNumber(app[n].height)
        /\ el[n].head \in Decided /\ el[n].head.number <= app[n].height
    BY NodeFacts, Zenon DEF IsEl
  <2>2. el[n].head.number \in Nat /\ el[n].head.number <= ExecNumber(Len(chain))
    BY <2>1, DecidedUnique, ZenonT(30) DEF IInv
  <2> QED  BY <2>1, <2>2 DEF ExecNumber, Behind
<1> QED  BY <1>1, Invariance, PTL

\* What a node that runs this code proposes passes the checks of every node
\* at its height.
THEOREM HonestProposalsPass == Spec => []HonestProposalPasses
<1>1. IInv => HonestProposalPasses
  <2> SUFFICES ASSUME IInv, NEW m \in Nodes, NEW n \in Nodes, Height > 1, proposals[m] # None, AtTip(n)
               PROVE  LET p == proposals[m]
                          b == p.msg.payload
                      IN  /\ parseAndVerify(app[n], Height, p.time, p.msg)
                          /\ compareWithdrawals(app[n], b.wds)
                          /\ NewPayload(el[n], b, app[n].height) # "INVALID"
                          /\ p.msg.events = b.parent.logs
    BY DEF HonestProposalPasses
  <2> DEFINE p == proposals[m]
             a == app[n]
  <2>1. a = ledger[Len(ledger)] /\ IsApp(a) /\ Height \in Nat
    BY TipFacts
  <2>2. p.time \in Nat /\ Honest(p, a)
    BY <2>1 DEF IInv, ProposalsOK
  <2>3. PICK s \in 0 .. p.time, logs \in Logs(a.head.number + 1) :
          p.msg.payload = startBuild(a, s, logs)
    BY <2>2, Zenon DEF Honest
  <2>4. p.msg = Message(Height, startBuild(a, s, logs))
    BY <2>2, <2>3 DEF Honest
  <2> DEFINE b == startBuild(a, s, logs)
  <2> HIDE DEF p, a
  <2>5. /\ parseAndVerify(a, Height, p.time, Message(Height, b))
        /\ compareWithdrawals(a, b.wds) /\ ValidChild(b, a.height)
        /\ b.parent.logs = Message(Height, b).events
    <3>1. s \in Nat /\ s <= p.time
      BY <2>2, <2>3
    <3>2. PICK t \in Nat, h \in Nat : t = p.time /\ h = Height
      BY <2>1, <2>2, Zenon
    <3>3. IsApp(a) /\ s \in Nat /\ s <= t
      BY <2>1, <3>1, <3>2
    <3>4. /\ parseAndVerify(a, h, t, Message(h, startBuild(a, s, logs)))
          /\ compareWithdrawals(a, startBuild(a, s, logs).wds)
      BY <3>3, BuiltPasses, Zenon
    <3>5. ValidChild(startBuild(a, s, logs), a.height)
      BY <3>3, BuiltPasses, Zenon
    <3>6. startBuild(a, s, logs).parent.logs = Message(h, startBuild(a, s, logs)).events
      BY DEF Message
    <3> QED  BY <3>2, <3>4, <3>5, <3>6, ZenonT(30)
  <2> HIDE DEF b
  <2>6. p.msg.payload = b /\ p.msg = Message(Height, b)
    BY <2>3, <2>4, Zenon DEF b
  <2>7. NewPayload(el[n], b, a.height) # "INVALID"
    BY <2>5 DEF NewPayload
  <2> QED  BY <2>5, <2>6, <2>7, ZenonT(30) DEF p, a
<1> QED  BY <1>1, Invariance, PTL
-----------------------------------------------------------------------------
(* The trap.                                                               *)

\* What keeps a deaf node deaf.
StaysDeaf(n) ==
  /\ chain' = chain
  /\ app'[n] = app[n] /\ work'[n] = work[n] /\ opt'[n] = opt[n]
  /\ accepted'[n] = accepted[n] /\ syncing'[n] = syncing[n]
  /\ ~syncing[n] => app[n].head.hash \notin el'[n].known \cup {el'[n].target}

\* No step of another node reaches it.
LEMMA OthersLeaveDeaf ==
  ASSUME IInv, NEW n \in Nodes, Deaf(n), NEW m \in Nodes, m # n,
         \/ PrepareProposal(m) \/ PrepareProposalSyncing(m) \/ ProcessProposal(m)
         \/ FinalizePush(m) \/ FinalizeForkchoice(m) \/ FinalizeEnd(m) \/ Commit(m)
         \/ ElRestart(m) \/ ElSync(m)
  PROVE  StaysDeaf(n)
<1>1. /\ accepted = [i \in Nodes |-> accepted[i]] /\ opt = [i \in Nodes |-> opt[i]]
      /\ app = [i \in Nodes |-> app[i]] /\ work = [i \in Nodes |-> work[i]]
      /\ syncing = [i \in Nodes |-> syncing[i]] /\ el = [i \in Nodes |-> el[i]]
  BY DEF IInv, VotesOK, OptOK, NodesOK, ElsOK
<1>2. SUFFICES /\ chain' = chain /\ app'[n] = app[n] /\ work'[n] = work[n] /\ opt'[n] = opt[n]
               /\ accepted'[n] = accepted[n] /\ syncing'[n] = syncing[n] /\ el'[n] = el[n]
  BY ZenonT(30) DEF StaysDeaf, Deaf
<1>3. CASE PrepareProposal(m)
  BY <1>1, <1>3 DEF PrepareProposal
<1>4. CASE PrepareProposalSyncing(m)
  BY <1>1, <1>4 DEF PrepareProposalSyncing
<1>5. CASE ProcessProposal(m)
  BY <1>1, <1>5, ZenonT(30) DEF ProcessProposal, Vote
<1>6. CASE FinalizePush(m)
  BY <1>1, <1>6, ZenonT(30) DEF FinalizePush, Working
<1>7. CASE FinalizeForkchoice(m)
  BY <1>1, <1>7 DEF FinalizeForkchoice, Working
<1>8. CASE FinalizeEnd(m)
  BY <1>1, <1>8, Zenon DEF FinalizeEnd
<1>9. CASE Commit(m)
  BY <1>1, <1>9, ZenonT(30) DEF Commit
<1>10. CASE ElRestart(m)
  BY <1>1, <1>10 DEF ElRestart
<1>11. CASE ElSync(m)
  BY <1>1, <1>11 DEF ElSync
<1> QED  BY <1>3, <1>4, <1>5, <1>6, <1>7, <1>8, <1>9, <1>10, <1>11, ZenonT(30)

\* Its own steps neither vote, nor move its EL to the head it lacks.
LEMMA DeafLeavesItself ==
  ASSUME IInv, NEW n \in Nodes, Deaf(n),
         \/ PrepareProposal(n) \/ PrepareProposalSyncing(n) \/ ProcessProposal(n)
         \/ FinalizePush(n) \/ FinalizeForkchoice(n) \/ FinalizeEnd(n) \/ Commit(n)
         \/ ElRestart(n) \/ ElSync(n)
  PROVE  StaysDeaf(n)
<1>1. /\ app[n].height = Len(chain) /\ work[n].pc = "idle" /\ Height > 1
      /\ syncing[n] \/ (opt[n].height = Height
                        /\ app[n].head.hash \notin el[n].known \cup {el[n].target})
  BY Zenon DEF Deaf, AtTip
<1>2. Height \in Nat /\ Len(chain) \in Nat
  <2>1. ChainOK
    BY DEF IInv
  <2>2. Len(chain) \in Nat /\ Height = Len(chain) + 1
    BY <2>1, ChainFacts, Zenon
  <2> QED  BY <2>2
<1>3. CASE PrepareProposal(n)
  <2>1. el' = el
    BY <1>1, <1>2, <1>3, Zenon DEF PrepareProposal
  <2> QED  BY <1>1, <1>3, <2>1, Zenon DEF PrepareProposal, StaysDeaf
<1>4. ~PrepareProposalSyncing(n)
  BY <1>1, Zenon DEF PrepareProposalSyncing
<1>5. ~ProcessProposal(n)
  <2> SUFFICES ASSUME ProcessProposal(n) PROVE FALSE  OBVIOUS
  <2>1. Height # 1
    BY <1>1, <1>2
  <2>2. PICK p : /\ ProposalPasses(n, p)
                 /\ NewPayload(el[n], p.msg.payload, app[n].height) = "VALID"
    BY <2>1, Zenon DEF ProcessProposal
  <2>3. ~syncing[n] /\ p.msg.payload.parent = app[n].head.hash
    BY <2>1, <2>2, ZenonT(30) DEF ProposalPasses, parseAndVerify
  <2>4. app[n].head.hash \in el[n].known
    BY <2>2, <2>3, Zenon DEF NewPayload
  <2> QED  BY <1>1, <2>3, <2>4, Zenon
<1>6. ~FinalizePush(n)
  <2>1. ~Behind(n)
    <3>1. app[n].height = Len(chain) /\ Len(chain) \in Nat
      BY <1>1, <1>2, Zenon
    <3> QED  BY <3>1 DEF Behind
  <2> QED  BY <2>1, ZenonT(30) DEF FinalizePush
<1>7. ~FinalizeForkchoice(n) /\ ~FinalizeEnd(n) /\ ~Commit(n)
  BY <1>1 DEF FinalizeForkchoice, FinalizeEnd, Commit
<1>8. CASE ElRestart(n)
  <2>1. PICK number \in 0 .. el[n].head.number :
          LET kept == {b \in el[n].known : b.number <= number}
              old  == CHOOSE b \in kept : b.number = number /\ b \in Decided
          IN  el' = [el EXCEPT ![n] = [known |-> kept, head |-> old, target |-> old, builds |-> {}]]
    BY <1>8, Zenon DEF ElRestart
  <2> DEFINE kept == {b \in el[n].known : b.number <= number}
             old  == CHOOSE b \in kept : b.number = number /\ b \in Decided
  <2>2. old \in kept
    BY RestartedEl, ZenonT(30)
  <2>3. \A b \in kept : b \in el[n].known
    OBVIOUS
  <2>4. el'[n].known = kept /\ el'[n].target = old
    BY <2>1 DEF IInv, ElsOK
  <2> HIDE DEF kept, old
  <2>5. ~syncing[n] => app[n].head.hash \notin el'[n].known \cup {el'[n].target}
    BY <1>1, <2>2, <2>3, <2>4, Zenon
  <2> QED  BY <1>8, <2>5, Zenon DEF ElRestart, StaysDeaf
<1>9. CASE ElSync(n)
  <2> DEFINE t == el[n].target
             e == [el[n] EXCEPT !.known = @ \cup {t} \cup {b \in Decided : b.number < t.number},
                                !.head = t]
  <2>1. el' = [el EXCEPT ![n] = e]
    BY <1>9 DEF ElSync
  <2>2. IsEl(el[n], app[n].height)
    BY NodeFacts, Zenon
  <2>3. e.known = el[n].known \cup {t} \cup {b \in Decided : b.number < t.number} /\ e.target = t
    BY <2>2 DEF IsEl
  <2>4. el'[n] = e
    BY <2>1 DEF IInv, ElsOK
  <2> HIDE DEF e
  <2>5. t \in Decided /\ t.number \in Nat /\ t.number <= ExecNumber(Len(chain))
    BY <2>2, DecidedUnique, Zenon DEF IsEl, IInv
  <2>6. app[n].head.hash.number = ExecNumber(Len(chain))
    BY <1>1, NodeFacts, ZenonT(30)
  <2>7. ~(app[n].head.hash.number < t.number)
    BY <1>2, <2>5, <2>6 DEF ExecNumber
  <2>8. ~syncing[n] => app[n].head.hash \notin el'[n].known \cup {el'[n].target}
    BY <1>1, <2>3, <2>4, <2>7, Zenon
  <2> QED  BY <1>9, <2>8 DEF ElSync, StaysDeaf
<1> QED  BY <1>3, <1>4, <1>5, <1>6, <1>7, <1>8, <1>9

\* Once every quorum has a deaf member, nothing is decided until a consensus
\* client restarts: for any set of quorums, and whatever the ELs do.
THEOREM TrapHolds == Spec => TrapNeedsRestart
<1>1. IInv /\ [Next]_vars => (Trapped /\ crashes' = crashes => Trapped' /\ chain' = chain)
  <2> SUFFICES ASSUME IInv, [Next]_vars, Trapped, crashes' = crashes
               PROVE  Trapped' /\ chain' = chain
    OBVIOUS
  <2>1. ~Decide
    <3> SUFFICES ASSUME Decide PROVE FALSE  BY ZenonT(30)
    <3>1. PICK p \in UNION {accepted[n] : n \in Nodes}, Q \in Quorums : \A n \in Q : p \in accepted[n]
      BY DEF Decide
    <3>2. PICK n \in Q : accepted[n] = {}
      BY DEF Trapped, Deaf
    <3> QED  BY <3>1, <3>2
  <2>2. \A n \in Nodes : ~Crash(n)
    BY DEF Crash, IInv
  <2>3. ASSUME NEW n \in Nodes, Deaf(n) PROVE StaysDeaf(n)
    <3>1. CASE UNCHANGED vars
      <4>1. syncing[n] \/ app[n].head.hash \notin el[n].known \cup {el[n].target}
        BY <2>3 DEF Deaf
      <4> QED  BY <3>1, <4>1, Zenon DEF vars, StaysDeaf
    <3>2. CASE \E m \in Nodes :
                 \/ PrepareProposal(m) \/ PrepareProposalSyncing(m) \/ ProcessProposal(m)
                 \/ FinalizePush(m) \/ FinalizeForkchoice(m) \/ FinalizeEnd(m) \/ Commit(m)
                 \/ ElRestart(m) \/ ElSync(m)
      BY <2>3, <3>2, OthersLeaveDeaf, DeafLeavesItself, Zenon
    <3> QED  BY <2>1, <2>2, <3>1, <3>2, Zenon DEF Next
  <2>4. chain' = chain
    <3>1. CASE UNCHANGED vars
      BY <3>1 DEF vars
    <3>2. CASE Next
      BY <2>1, <2>2, <3>2, ZenonT(30) DEF Next, PrepareProposal, PrepareProposalSyncing, ProcessProposal,
         FinalizePush, FinalizeForkchoice, FinalizeEnd, Commit, ElRestart, ElSync
    <3> QED  BY <3>1, <3>2
  <2>5. ASSUME NEW n \in Nodes, Deaf(n) PROVE Deaf(n)'
    <3>1. StaysDeaf(n)
      BY <2>3, <2>5
    <3> QED  BY <2>5, <3>1 DEF StaysDeaf, Deaf, AtTip, Height
  <2>6. Trapped'
    BY <2>5, QuorumAssumption, Zenon DEF Trapped
  <2> QED  BY <2>4, <2>6
<1> QED  BY <1>1, Invariance, PTL DEF Spec, TrapNeedsRestart
=============================================================================
