--------------------------- MODULE EndBlockLemmas ---------------------------
(***************************************************************************)
(* What EndBlock of x/evmstaking does to the coins, loop by loop: it does  *)
(* not fail while every staker has its addresses, burns and enqueues what  *)
(* matured, and moves rewards without creating or losing any.              *)
(***************************************************************************)
EXTENDS EvmStaking, OperatorLemmas

Has(withdraw, reward, d) == withdraw[d] # NoAddress /\ reward[d] # NoAddress

\* What the comment at withdraw.go:52 relies on ("all delegations are done
\* via the evmstaking module"): the handlers that mint fill both maps before
\* they delegate, and nothing empties them.
StakersHaveAddresses ==
  /\ \A d \in Addresses, v \in Validators : delegation[d][v] # 0 => Has(withdrawAddr, rewardAddr, d)
  /\ \A i \in 1 .. Len(unbonding) : Has(withdrawAddr, rewardAddr, unbonding[i].del)

UnbondingEntry == [del : Addresses, val : Validators, amount : Nat]
Payee == Addresses \cup {NoAddress, UbiAddress}
QueueEntry(kinds) == [to : Payee, amount : Nat, kind : kinds, val : Payee, owner : Payee]
StakeKinds == {"unstake", "ubi"}
RewardKinds == {"reward"}

\* The state of EndBlock between two of its steps.
BlockState ==
  [balance : [Addresses -> Nat], rewards : [Addresses -> [Validators -> Nat]],
   commission : [Addresses -> Nat], ubi : Nat,
   wq : Seq(QueueEntry(StakeKinds)), rq : Seq(QueueEntry(RewardKinds)), ok : BOOLEAN]

Maps == [Addresses -> Addresses \cup {NoAddress}]
MapsTyped == withdrawAddr \in Maps /\ rewardAddr \in Maps

\* The maps and the stakes have their types.
Typed ==
  /\ delegation \in [Addresses -> [Validators -> Nat]]
  /\ unbonding \in Seq(UnbondingEntry)
  /\ MapsTyped
-----------------------------------------------------------------------------
\* Single steps of EndBlock.

\* An error changes nothing but ok.
LEMMA FailType ==
  ASSUME NEW s \in BlockState
  PROVE  Fail(s) \in BlockState
BY Zenon DEF BlockState, Fail

\* The withdrawals that are enqueued are typed.
LEMMA WithdrawalType ==
  ASSUME NEW to \in Payee, NEW n \in Nat, NEW K, NEW kind \in K, NEW v \in Payee, NEW o \in Payee
  PROVE  /\ Withdrawal(to, n, kind, v, o) \in QueueEntry(K)
         /\ Withdrawal(to, n, kind, v, o).to = to
         /\ Withdrawal(to, n, kind, v, o).amount = n
         /\ Withdrawal(to, n, kind, v, o).kind = kind
         /\ Withdrawal(to, n, kind, v, o).owner = o
BY DEF Withdrawal, QueueEntry

\* The first loop: the entry is taken out of the account and enqueued.
LEMMA UnstakeEntryIs ==
  ASSUME MapsTyped, NEW s \in BlockState, NEW e \in UnbondingEntry,
         withdrawAddr[e.del] # NoAddress, s.balance[e.del] >= e.amount
  PROVE  LET t == UnstakeEntry(s, e) IN
         /\ t \in BlockState
         /\ t.balance = [s.balance EXCEPT ![e.del] = @ - e.amount]
         /\ t.wq = Append(s.wq, Withdrawal(withdrawAddr[e.del], e.amount, "unstake", e.val, e.del))
         /\ t.rewards = s.rewards /\ t.commission = s.commission
         /\ t.ubi = s.ubi /\ t.rq = s.rq /\ t.ok = s.ok
<1> DEFINE w == Withdrawal(withdrawAddr[e.del], e.amount, "unstake", e.val, e.del)
           b == s.balance[e.del] - e.amount
           q == Append(s.wq, w)
<1>1. ~(withdrawAddr[e.del] = NoAddress \/ s.balance[e.del] < e.amount) /\ b \in Nat
  BY DEF BlockState, UnbondingEntry
<1>2. UnstakeEntry(s, e) = [s EXCEPT !.balance[e.del] = b, !.wq = q]
  BY <1>1 DEF UnstakeEntry
<1>3. e.del \in Addresses /\ e.val \in Addresses /\ e.amount \in Nat
  BY StakingAssumption, Zenon DEF UnbondingEntry
<1>4. w \in QueueEntry(StakeKinds)
  <2>1. withdrawAddr[e.del] \in Payee /\ e.val \in Payee /\ e.del \in Payee /\ "unstake" \in StakeKinds
    BY <1>3 DEF Payee, MapsTyped, Maps, StakeKinds
  <2> QED  BY <1>3, <2>1, WithdrawalType, Zenon
<1>5. q \in Seq(QueueEntry(StakeKinds))
  <2>1. s.wq \in Seq(QueueEntry(StakeKinds))
    BY DEF BlockState
  <2> HIDE DEF w
  <2> QED  BY <1>4, <2>1
<1> DEFINE t == [s EXCEPT !.balance[e.del] = b, !.wq = q]
<1> HIDE DEF q, b
<1>6. [s.balance EXCEPT ![e.del] = b] \in [Addresses -> Nat]
  BY <1>1, Zenon DEF BlockState
<1>7. t = [s EXCEPT !.balance = [s.balance EXCEPT ![e.del] = b], !.wq = q]
  BY <1>3 DEF BlockState
<1>8. t \in BlockState
  BY <1>5, <1>6, <1>7, Zenon DEF BlockState
<1>9. /\ t.balance = [s.balance EXCEPT ![e.del] = b] /\ t.wq = q
      /\ t.rewards = s.rewards /\ t.commission = s.commission
      /\ t.ubi = s.ubi /\ t.rq = s.rq /\ t.ok = s.ok
  BY <1>3 DEF BlockState
<1> QED  BY <1>2, <1>8, <1>9 DEF b, q

\* Whatever the first loop meets, its state is typed.
LEMMA UnstakeEntryType ==
  ASSUME MapsTyped, NEW s \in BlockState, NEW e \in UnbondingEntry
  PROVE  UnstakeEntry(s, e) \in BlockState
<1>1. CASE withdrawAddr[e.del] = NoAddress \/ s.balance[e.del] < e.amount
  <2>1. UnstakeEntry(s, e) = Fail(s)
    BY <1>1 DEF UnstakeEntry
  <2> QED  BY <2>1, FailType
<1>2. CASE ~(withdrawAddr[e.del] = NoAddress \/ s.balance[e.del] < e.amount)
  <2>1. s.balance[e.del] >= e.amount
    BY <1>2 DEF BlockState, UnbondingEntry
  <2> QED  BY <1>2, <2>1, UnstakeEntryIs, Zenon
<1> QED  BY <1>1, <1>2

\* A validator's commission goes into its account.
LEMMA WithdrawCommissionIs ==
  ASSUME NEW s \in BlockState, NEW v \in Addresses
  PROVE  LET t == WithdrawCommission(s, v) IN
         /\ t \in BlockState
         /\ t.balance = [s.balance EXCEPT ![v] = @ + s.commission[v]]
         /\ t.commission = [s.commission EXCEPT ![v] = 0]
         /\ t.rewards = s.rewards
         /\ t.ubi = s.ubi /\ t.wq = s.wq /\ t.rq = s.rq /\ t.ok = s.ok
<1> DEFINE b == s.balance[v] + s.commission[v]
           t == [s EXCEPT !.balance[v] = b, !.commission[v] = 0]
<1>1. WithdrawCommission(s, v) = t
  BY DEF WithdrawCommission
<1>2. b \in Nat
  BY DEF BlockState
<1> HIDE DEF b
<1>3. /\ [s.balance EXCEPT ![v] = b] \in [Addresses -> Nat]
      /\ [s.commission EXCEPT ![v] = 0] \in [Addresses -> Nat]
  BY <1>2 DEF BlockState
<1>4. t = [s EXCEPT !.balance = [s.balance EXCEPT ![v] = b],
                    !.commission = [s.commission EXCEPT ![v] = 0]]
  BY DEF BlockState
<1>5. t \in BlockState
  BY <1>3, <1>4, Zenon DEF BlockState
<1>6. /\ t.balance = [s.balance EXCEPT ![v] = b]
      /\ t.commission = [s.commission EXCEPT ![v] = 0]
      /\ t.rewards = s.rewards
      /\ t.ubi = s.ubi /\ t.wq = s.wq /\ t.rq = s.rq /\ t.ok = s.ok
  BY DEF BlockState
<1> QED  BY <1>1, <1>5, <1>6 DEF b

\* All an account holds is enqueued to its reward address.
LEMMA EnqueueAccountIs ==
  ASSUME MapsTyped, NEW s \in BlockState, NEW d \in Addresses, NEW v \in Addresses,
         rewardAddr[d] # NoAddress
  PROVE  LET t == EnqueueAccount(s, d, v) IN
         /\ t \in BlockState
         /\ t.balance = [s.balance EXCEPT ![d] = 0]
         /\ t.rq = Append(s.rq, Withdrawal(rewardAddr[d], s.balance[d], "reward", v, d))
         /\ t.rewards = s.rewards /\ t.commission = s.commission
         /\ t.ubi = s.ubi /\ t.wq = s.wq /\ t.ok = s.ok
<1> DEFINE w == Withdrawal(rewardAddr[d], s.balance[d], "reward", v, d)
           q == Append(s.rq, w)
           t == [s EXCEPT !.balance[d] = 0, !.rq = q]
<1>1. EnqueueAccount(s, d, v) = t
  BY DEF EnqueueAccount
<1>2. w \in QueueEntry(RewardKinds)
  <2>1. /\ rewardAddr[d] \in Payee /\ v \in Payee /\ d \in Payee /\ "reward" \in RewardKinds
        /\ s.balance[d] \in Nat
    BY DEF Payee, MapsTyped, Maps, RewardKinds, BlockState
  <2> QED  BY <2>1, WithdrawalType, Zenon
<1>3. q \in Seq(QueueEntry(RewardKinds))
  <2>1. s.rq \in Seq(QueueEntry(RewardKinds))
    BY DEF BlockState
  <2> HIDE DEF w
  <2> QED  BY <1>2, <2>1
<1> HIDE DEF q
<1>4. [s.balance EXCEPT ![d] = 0] \in [Addresses -> Nat]
  BY DEF BlockState
<1>5. t = [s EXCEPT !.balance = [s.balance EXCEPT ![d] = 0], !.rq = q]
  BY DEF BlockState
<1>6. t \in BlockState
  BY <1>3, <1>4, <1>5, Zenon DEF BlockState
<1>7. /\ t.balance = [s.balance EXCEPT ![d] = 0] /\ t.rq = q
      /\ t.rewards = s.rewards /\ t.commission = s.commission
      /\ t.ubi = s.ubi /\ t.wq = s.wq /\ t.ok = s.ok
  BY DEF BlockState
<1> QED  BY <1>1, <1>6, <1>7 DEF q

\* Whatever EnqueueAccount meets, its state is typed.
LEMMA EnqueueAccountType ==
  ASSUME MapsTyped, NEW s \in BlockState, NEW d \in Addresses, NEW v \in Addresses
  PROVE  EnqueueAccount(s, d, v) \in BlockState
<1>1. CASE rewardAddr[d] = NoAddress
  <2>1. EnqueueAccount(s, d, v) = Fail(s)
    BY <1>1 DEF EnqueueAccount
  <2> QED  BY <2>1, FailType
<1>2. CASE rewardAddr[d] # NoAddress
  BY <1>2, EnqueueAccountIs, Zenon
<1> QED  BY <1>1, <1>2

\* The rewards of a delegation go into the delegator's account.
Claim(s, d, v) == [s EXCEPT !.balance[d] = @ + s.rewards[d][v], !.rewards[d][v] = 0]

\* What a claim changes.
LEMMA ClaimIs ==
  ASSUME NEW s \in BlockState, NEW d \in Addresses, NEW v \in Validators
  PROVE  LET t == Claim(s, d, v) IN
         /\ t \in BlockState
         /\ t.balance = [s.balance EXCEPT ![d] = @ + s.rewards[d][v]]
         /\ t.rewards = [s.rewards EXCEPT ![d] = [@ EXCEPT ![v] = 0]]
         /\ t.commission = s.commission
         /\ t.ubi = s.ubi /\ t.wq = s.wq /\ t.rq = s.rq /\ t.ok = s.ok
<1> DEFINE b == s.balance[d] + s.rewards[d][v]
           r == [s.rewards EXCEPT ![d] = [@ EXCEPT ![v] = 0]]
           t == [s EXCEPT !.balance[d] = b, !.rewards[d][v] = 0]
<1>1. Claim(s, d, v) = t
  BY DEF Claim
<1>2. b \in Nat
  BY DEF BlockState
<1> HIDE DEF b
<1>3. [s.balance EXCEPT ![d] = b] \in [Addresses -> Nat]
  BY <1>2 DEF BlockState
<1>4. r \in [Addresses -> [Validators -> Nat]] /\ r = [s.rewards EXCEPT ![d][v] = 0]
  BY DEF BlockState
<1>5. t = [s EXCEPT !.balance = [s.balance EXCEPT ![d] = b], !.rewards = r]
  BY <1>4 DEF BlockState
<1> HIDE DEF r
<1>6. t \in BlockState
  BY <1>3, <1>4, <1>5, Zenon DEF BlockState
<1>7. /\ t.balance = [s.balance EXCEPT ![d] = b] /\ t.rewards = r
      /\ t.commission = s.commission
      /\ t.ubi = s.ubi /\ t.wq = s.wq /\ t.rq = s.rq /\ t.ok = s.ok
  BY <1>5, Zenon DEF BlockState
<1> QED  BY <1>1, <1>6, <1>7 DEF b, r
-----------------------------------------------------------------------------
\* Sums over entries and over queues.

\* The amounts that AmountOf adds up.
AmountsOf(entries, a) ==
  [i \in 1 .. Len(entries) |-> IF entries[i].del = a THEN entries[i].amount ELSE 0]

\* They are amounts, and so is their sum.
LEMMA AmountOfType ==
  ASSUME NEW s \in Seq(UnbondingEntry), NEW a
  PROVE  /\ AmountsOf(s, a) \in [1 .. Len(s) -> Nat]
         /\ AmountOf(s, a) = Sum(AmountsOf(s, a))
         /\ AmountOf(s, a) \in Nat
<1>1. \A i \in 1 .. Len(s) : s[i] \in UnbondingEntry
  OBVIOUS
<1>2. AmountsOf(s, a) \in [1 .. Len(s) -> Nat]
  BY <1>1 DEF AmountsOf, UnbondingEntry
<1>3. AmountOf(s, a) = Sum(AmountsOf(s, a))
  BY DEF AmountOf, AmountsOf
<1>4. IsFiniteSet(1 .. Len(s))
  BY FS_Interval
<1> QED  BY <1>2, <1>3, <1>4, SumType

\* One more entry adds its amount to its delegator's.
LEMMA AmountOfAppend ==
  ASSUME NEW s \in Seq(UnbondingEntry), NEW e \in UnbondingEntry, NEW a
  PROVE  AmountOf(Append(s, e), a) = AmountOf(s, a) + (IF e.del = a THEN e.amount ELSE 0)
<1> DEFINE n == Len(s)
           t == Append(s, e)
           f == AmountsOf(s, a)
           h == AmountsOf(t, a)
<1>1. /\ n \in Nat /\ t \in Seq(UnbondingEntry) /\ Len(t) = n + 1
      /\ t[n + 1] = e /\ \A i \in 1 .. n : t[i] = s[i]
  OBVIOUS
<1>2. f \in [1 .. n -> Nat] /\ AmountOf(s, a) = Sum(f)
  BY AmountOfType
<1>3. h \in [1 .. Len(t) -> Nat] /\ AmountOf(t, a) = Sum(h)
  BY <1>1, AmountOfType, Zenon
<1>4. h \in [1 .. (n + 1) -> Nat]
  BY <1>1, <1>3
<1>5. \A i \in 1 .. n : h[i] = f[i]
  BY <1>1 DEF AmountsOf
<1>6. h[n + 1] = IF e.del = a THEN e.amount ELSE 0
  BY <1>1 DEF AmountsOf
<1> HIDE DEF n, t, f, h
<1>7. Sum(h) = Sum(f) + h[n + 1]
  BY <1>1, <1>2, <1>4, <1>5, SumSnoc, Zenon
<1> QED  BY <1>2, <1>3, <1>6, <1>7 DEF t

\* The entries that mature and those that do not are all of them.
LEMMA AmountOfSplit ==
  ASSUME NEW s \in Seq(UnbondingEntry), NEW k \in 0 .. Len(s), NEW a
  PROVE  AmountOf(s, a) = AmountOf(SubSeq(s, 1, k), a) + AmountOf(SubSeq(s, k + 1, Len(s)), a)
<1> DEFINE n == Len(s)
           m == n - k
           p == SubSeq(s, 1, k)
           r == SubSeq(s, k + 1, n)
           f == AmountsOf(p, a)
           g == AmountsOf(r, a)
           h == AmountsOf(s, a)
<1>1. n \in Nat /\ k \in Nat /\ m \in Nat /\ k + m = n
  OBVIOUS
<1>2. /\ p \in Seq(UnbondingEntry) /\ Len(p) = k /\ \A i \in 1 .. k : p[i] = s[i]
  OBVIOUS
<1>3. /\ r \in Seq(UnbondingEntry) /\ Len(r) = m /\ \A i \in 1 .. m : r[i] = s[k + i]
  OBVIOUS
<1>4. f \in [1 .. k -> Nat] /\ AmountOf(p, a) = Sum(f)
  BY <1>2, AmountOfType, Zenon
<1>5. g \in [1 .. m -> Nat] /\ AmountOf(r, a) = Sum(g)
  BY <1>3, AmountOfType, Zenon
<1>6. h \in [1 .. n -> Nat] /\ AmountOf(s, a) = Sum(h)
  BY AmountOfType
<1>7. \A i \in 1 .. k : h[i] = f[i]
  BY <1>1, <1>2 DEF AmountsOf
<1>8. \A i \in 1 .. m : h[k + i] = g[i]
  <2> TAKE i \in 1 .. m
  <2>1. k + i \in 1 .. n
    BY <1>1
  <2>2. h[k + i] = IF s[k + i].del = a THEN s[k + i].amount ELSE 0
    BY <2>1 DEF AmountsOf
  <2>3. g[i] = IF r[i].del = a THEN r[i].amount ELSE 0
    BY <1>3 DEF AmountsOf
  <2> QED  BY <1>3, <2>2, <2>3
<1> HIDE DEF n, m, p, r, f, g, h
<1>9. h \in [1 .. (k + m) -> Nat]
  BY <1>1, <1>6
<1>10. Sum(h) = Sum(f) + Sum(g)
  BY <1>1, <1>4, <1>5, <1>7, <1>8, <1>9, SumConcat, ZenonT(30)
<1> QED  BY <1>4, <1>5, <1>6, <1>10 DEF p, r, n

\* The entries up to the i-th are those before it and it; they are no more
\* than all.
LEMMA AmountOfPrefix ==
  ASSUME NEW s \in Seq(UnbondingEntry), NEW i \in 1 .. Len(s), NEW a
  PROVE  /\ AmountOf(SubSeq(s, 1, i), a)
              = AmountOf(SubSeq(s, 1, i - 1), a) + (IF s[i].del = a THEN s[i].amount ELSE 0)
         /\ AmountOf(SubSeq(s, 1, i), a) <= AmountOf(s, a)
<1>1. /\ SubSeq(s, 1, i - 1) \in Seq(UnbondingEntry) /\ s[i] \in UnbondingEntry
      /\ SubSeq(s, 1, i) = Append(SubSeq(s, 1, i - 1), s[i])
  OBVIOUS
<1>2. /\ i \in 0 .. Len(s)
      /\ SubSeq(s, 1, i) \in Seq(UnbondingEntry) /\ SubSeq(s, i + 1, Len(s)) \in Seq(UnbondingEntry)
  OBVIOUS
<1>3. AmountOf(s, a) = AmountOf(SubSeq(s, 1, i), a) + AmountOf(SubSeq(s, i + 1, Len(s)), a)
  BY <1>2, AmountOfSplit
<1>4. AmountOf(SubSeq(s, 1, i), a) \in Nat /\ AmountOf(SubSeq(s, i + 1, Len(s)), a) \in Nat
  BY <1>2, AmountOfType, Zenon
<1>5. AmountOf(SubSeq(s, 1, i), a)
        = AmountOf(SubSeq(s, 1, i - 1), a) + (IF s[i].del = a THEN s[i].amount ELSE 0)
  <2> DEFINE p == SubSeq(s, 1, i - 1)
             e == s[i]
  <2>1. p \in Seq(UnbondingEntry) /\ e \in UnbondingEntry /\ SubSeq(s, 1, i) = Append(p, e)
    BY <1>1
  <2> HIDE DEF p, e
  <2>2. AmountOf(Append(p, e), a) = AmountOf(p, a) + (IF e.del = a THEN e.amount ELSE 0)
    BY <2>1, AmountOfAppend
  <2> QED  BY <2>1, <2>2, Zenon DEF p, e
<1> QED  BY <1>3, <1>4, <1>5

\* Nor is there anything of an account that no entry names.
LEMMA AmountOfAbsent ==
  ASSUME NEW s \in Seq(UnbondingEntry), NEW a, \A i \in 1 .. Len(s) : s[i].del # a
  PROVE  AmountOf(s, a) = 0
<1>1. AmountsOf(s, a) \in [1 .. Len(s) -> Nat] /\ AmountOf(s, a) = Sum(AmountsOf(s, a))
  BY AmountOfType
<1>2. \A i \in 1 .. Len(s) : AmountsOf(s, a)[i] = 0
  BY DEF AmountsOf
<1> QED  BY <1>1, <1>2, SumZero

\* No entries hold nothing.
LEMMA AmountOfNone ==
  ASSUME NEW a
  PROVE  AmountOf(<< >>, a) = 0
<1>1. << >> \in Seq(UnbondingEntry) /\ Len(<< >>) = 0
  OBVIOUS
<1>2. AmountsOf(<< >>, a) \in [1 .. 0 -> Nat] /\ AmountOf(<< >>, a) = Sum(AmountsOf(<< >>, a))
  BY <1>1, AmountOfType, Zenon
<1>3. \A i \in 1 .. 0 : AmountsOf(<< >>, a)[i] = 0
  OBVIOUS
<1> QED  BY <1>2, <1>3, SumZero

\* The amounts that Enqueued adds up.
EnqueuedAmounts(q, kind, a) ==
  [i \in 1 .. Len(q) |-> IF q[i].kind = kind /\ q[i].owner = a THEN q[i].amount ELSE 0]

\* They are amounts, and so is their sum.
LEMMA EnqueuedType ==
  ASSUME NEW K, NEW q \in Seq(QueueEntry(K)), NEW kind, NEW a
  PROVE  /\ EnqueuedAmounts(q, kind, a) \in [1 .. Len(q) -> Nat]
         /\ Enqueued(q, kind, a) = Sum(EnqueuedAmounts(q, kind, a))
         /\ Enqueued(q, kind, a) \in Nat
<1>1. \A i \in 1 .. Len(q) : q[i] \in QueueEntry(K)
  OBVIOUS
<1>2. EnqueuedAmounts(q, kind, a) \in [1 .. Len(q) -> Nat]
  BY <1>1 DEF EnqueuedAmounts, QueueEntry
<1>3. Enqueued(q, kind, a) = Sum(EnqueuedAmounts(q, kind, a))
  BY DEF Enqueued, EnqueuedAmounts
<1>4. IsFiniteSet(1 .. Len(q))
  BY FS_Interval
<1> QED  BY <1>2, <1>3, <1>4, SumType

\* One more withdrawal adds its amount to its owner's of its kind.
LEMMA EnqueuedAppend ==
  ASSUME NEW K, NEW q \in Seq(QueueEntry(K)), NEW w \in QueueEntry(K), NEW kind, NEW a
  PROVE  Enqueued(Append(q, w), kind, a)
           = Enqueued(q, kind, a) + (IF w.kind = kind /\ w.owner = a THEN w.amount ELSE 0)
<1> DEFINE n == Len(q)
           t == Append(q, w)
           f == EnqueuedAmounts(q, kind, a)
           h == EnqueuedAmounts(t, kind, a)
<1>1. /\ n \in Nat /\ t \in Seq(QueueEntry(K)) /\ Len(t) = n + 1
      /\ t[n + 1] = w /\ \A i \in 1 .. n : t[i] = q[i]
  OBVIOUS
<1>2. f \in [1 .. n -> Nat] /\ Enqueued(q, kind, a) = Sum(f)
  BY EnqueuedType
<1>3. h \in [1 .. Len(t) -> Nat] /\ Enqueued(t, kind, a) = Sum(h)
  BY <1>1, EnqueuedType, Zenon
<1>4. h \in [1 .. (n + 1) -> Nat]
  BY <1>1, <1>3
<1>5. \A i \in 1 .. n : h[i] = f[i]
  BY <1>1 DEF EnqueuedAmounts
<1>6. h[n + 1] = IF w.kind = kind /\ w.owner = a THEN w.amount ELSE 0
  BY <1>1 DEF EnqueuedAmounts
<1> HIDE DEF n, t, f, h
<1>7. Sum(h) = Sum(f) + h[n + 1]
  BY <1>1, <1>2, <1>4, <1>5, SumSnoc, Zenon
<1> QED  BY <1>2, <1>3, <1>6, <1>7 DEF t

\* An empty queue holds nothing.
LEMMA EnqueuedNone ==
  ASSUME NEW kind, NEW a
  PROVE  Enqueued(<< >>, kind, a) = 0
<1>1. << >> \in Seq(QueueEntry(StakeKinds)) /\ Len(<< >>) = 0
  OBVIOUS
<1>2. /\ EnqueuedAmounts(<< >>, kind, a) \in [1 .. 0 -> Nat]
      /\ Enqueued(<< >>, kind, a) = Sum(EnqueuedAmounts(<< >>, kind, a))
  BY <1>1, EnqueuedType, Zenon
<1>3. \A i \in 1 .. 0 : EnqueuedAmounts(<< >>, kind, a)[i] = 0
  OBVIOUS
<1> QED  BY <1>2, <1>3, SumZero
-----------------------------------------------------------------------------
\* What the steps of EndBlock keep.

\* r goes on where q ends, with withdrawals to the addresses that were chosen.
Grown(q, r, map) ==
  /\ Len(q) <= Len(r)
  /\ \A i \in 1 .. Len(q) : r[i] = q[i]
  /\ \A i \in Len(q) + 1 .. Len(r) :
       r[i].to = IF r[i].kind = "ubi" THEN UbiAddress ELSE map[r[i].owner]

\* A queue that is left alone has grown by nothing.
LEMMA GrownSame ==
  ASSUME NEW T, NEW q \in Seq(T), NEW map
  PROVE  Grown(q, q, map)
BY DEF Grown

\* Growing goes on.
LEMMA GrownTrans ==
  ASSUME NEW T, NEW q \in Seq(T), NEW r \in Seq(T), NEW u \in Seq(T), NEW map,
         Grown(q, r, map), Grown(r, u, map)
  PROVE  Grown(q, u, map)
<1>1. Len(q) \in Nat /\ Len(r) \in Nat /\ Len(u) \in Nat
  OBVIOUS
<1>2. Len(q) <= Len(r) /\ Len(r) <= Len(u)
  BY DEF Grown
<1>3. ASSUME NEW i \in 1 .. Len(q) PROVE u[i] = q[i]
  <2>1. i \in 1 .. Len(r)
    BY <1>1, <1>2
  <2> QED  BY <2>1 DEF Grown
<1>4. ASSUME NEW i \in Len(q) + 1 .. Len(u)
      PROVE  u[i].to = IF u[i].kind = "ubi" THEN UbiAddress ELSE map[u[i].owner]
  <2>1. CASE i <= Len(r)
    <3>1. i \in 1 .. Len(r) /\ i \in Len(q) + 1 .. Len(r)
      BY <1>1, <2>1
    <3>2. u[i] = r[i]
      BY <3>1 DEF Grown
    <3>3. r[i].to = IF r[i].kind = "ubi" THEN UbiAddress ELSE map[r[i].owner]
      BY <3>1 DEF Grown
    <3> QED  BY <3>2, <3>3
  <2>2. CASE ~(i <= Len(r))
    <3>1. i \in Len(r) + 1 .. Len(u)
      BY <1>1, <2>2
    <3> QED  BY <3>1 DEF Grown
  <2> QED  BY <2>1, <2>2
<1> QED  BY <1>1, <1>2, <1>3, <1>4 DEF Grown

\* Enqueuing one withdrawal.
LEMMA GrownAppend ==
  ASSUME NEW T, NEW q \in Seq(T), NEW w \in T, NEW map,
         w.to = IF w.kind = "ubi" THEN UbiAddress ELSE map[w.owner]
  PROVE  Grown(q, Append(q, w), map)
<1> DEFINE n == Len(q)
           r == Append(q, w)
<1>1. n \in Nat /\ Len(r) = n + 1 /\ r[n + 1] = w /\ \A i \in 1 .. n : r[i] = q[i]
  OBVIOUS
<1>2. \A i \in n + 1 .. Len(r) : r[i] = w
  <2> HIDE DEF n, r
  <2>1. \A i \in n + 1 .. Len(r) : i = n + 1
    BY <1>1
  <2> QED  BY <1>1, <2>1
<1> HIDE DEF n, r
<1>3. Len(q) <= Len(r) /\ \A i \in 1 .. Len(q) : r[i] = q[i]
  BY <1>1 DEF n
<1>4. \A i \in Len(q) + 1 .. Len(r) :
        r[i].to = IF r[i].kind = "ubi" THEN UbiAddress ELSE map[r[i].owner]
  BY <1>2 DEF n
<1>5. Grown(q, r, map)
  BY <1>3, <1>4 DEF Grown
<1> QED  BY <1>5 DEF r

\* All that is an account's own, wherever it waits.
Account(s, a) ==
  Sum(s.rewards[a]) + s.commission[a] + s.balance[a] + Enqueued(s.rq, "reward", a)

\* Its parts are amounts.
LEMMA AccountType ==
  ASSUME NEW s \in BlockState, NEW a \in Addresses
  PROVE  /\ s.rewards[a] \in [Validators -> Nat] /\ Sum(s.rewards[a]) \in Nat
         /\ s.commission[a] \in Nat /\ s.balance[a] \in Nat
         /\ Enqueued(s.rq, "reward", a) \in Nat
<1>1. /\ s.rewards[a] \in [Validators -> Nat] /\ s.commission[a] \in Nat /\ s.balance[a] \in Nat
      /\ s.rq \in Seq(QueueEntry(RewardKinds))
  BY DEF BlockState
<1>2. IsFiniteSet(Validators)
  BY StakingAssumption, FS_Subset, Zenon
<1>3. Sum(s.rewards[a]) \in Nat
  BY <1>1, <1>2, SumType
<1>4. Enqueued(s.rq, "reward", a) \in Nat
  BY <1>1, EnqueuedType
<1> QED  BY <1>1, <1>3, <1>4

\* A step that moves coins of accounts and may enqueue rewards.
Keeps(s, t) ==
  /\ \A a \in Addresses : Account(t, a) = Account(s, a)
  /\ \A a \in Addresses : t.commission[a] = s.commission[a] \/ t.commission[a] = 0
  /\ t.wq = s.wq /\ t.ubi = s.ubi /\ t.ok = s.ok
  /\ Grown(s.rq, t.rq, rewardAddr)

\* No step at all.
LEMMA KeepsSame ==
  ASSUME NEW s \in BlockState
  PROVE  Keeps(s, s)
<1>1. s.rq \in Seq(QueueEntry(RewardKinds))
  BY DEF BlockState
<1>2. Grown(s.rq, s.rq, rewardAddr)
  BY <1>1, GrownSame
<1> QED  BY <1>2 DEF Keeps

\* Two steps in a row.
LEMMA KeepsTrans ==
  ASSUME NEW s \in BlockState, NEW t \in BlockState, NEW u \in BlockState,
         Keeps(s, t), Keeps(t, u)
  PROVE  Keeps(s, u)
<1>1. /\ s.rq \in Seq(QueueEntry(RewardKinds)) /\ t.rq \in Seq(QueueEntry(RewardKinds))
      /\ u.rq \in Seq(QueueEntry(RewardKinds))
  BY DEF BlockState
<1>2. Grown(s.rq, t.rq, rewardAddr) /\ Grown(t.rq, u.rq, rewardAddr)
  BY DEF Keeps
<1>3. Grown(s.rq, u.rq, rewardAddr)
  BY <1>1, <1>2, GrownTrans
<1> QED  BY <1>3 DEF Keeps

\* Commission goes into its validator's account.
LEMMA CommissionKeeps ==
  ASSUME NEW s \in BlockState, NEW v \in Addresses
  PROVE  LET t == WithdrawCommission(s, v) IN
         t \in BlockState /\ Keeps(s, t)
<1> DEFINE t == WithdrawCommission(s, v)
<1>1. /\ t \in BlockState
      /\ t.balance = [s.balance EXCEPT ![v] = @ + s.commission[v]]
      /\ t.commission = [s.commission EXCEPT ![v] = 0]
      /\ t.rewards = s.rewards
      /\ t.ubi = s.ubi /\ t.wq = s.wq /\ t.rq = s.rq /\ t.ok = s.ok
  BY WithdrawCommissionIs, Zenon
<1> HIDE DEF t
<1>2. ASSUME NEW a \in Addresses PROVE Account(t, a) = Account(s, a)
  <2>1. /\ Sum(s.rewards[a]) \in Nat /\ s.commission[a] \in Nat /\ s.balance[a] \in Nat
        /\ Enqueued(s.rq, "reward", a) \in Nat
    BY AccountType
  <2>2. s.balance \in [Addresses -> Nat] /\ s.commission \in [Addresses -> Nat]
    BY DEF BlockState
  <2>3. t.balance[a] + t.commission[a] = s.balance[a] + s.commission[a]
        /\ t.balance[a] \in Nat /\ t.commission[a] \in Nat
    BY <1>1, <2>1, <2>2
  <2> QED  BY <1>1, <2>1, <2>3 DEF Account
<1>3. \A a \in Addresses : t.commission[a] = s.commission[a] \/ t.commission[a] = 0
  BY <1>1 DEF BlockState
<1>4. Grown(s.rq, t.rq, rewardAddr)
  BY <1>1, KeepsSame DEF Keeps
<1> QED  BY <1>1, <1>2, <1>3, <1>4 DEF Keeps, t

\* Rewards go into their delegator's account.
LEMMA ClaimKeeps ==
  ASSUME NEW s \in BlockState, NEW d \in Addresses, NEW v \in Validators
  PROVE  LET t == Claim(s, d, v) IN
         t \in BlockState /\ Keeps(s, t)
<1> DEFINE t == Claim(s, d, v)
<1>1. /\ t \in BlockState
      /\ t.balance = [s.balance EXCEPT ![d] = @ + s.rewards[d][v]]
      /\ t.rewards = [s.rewards EXCEPT ![d] = [@ EXCEPT ![v] = 0]]
      /\ t.commission = s.commission
      /\ t.ubi = s.ubi /\ t.wq = s.wq /\ t.rq = s.rq /\ t.ok = s.ok
  BY ClaimIs
<1> HIDE DEF t
<1>2. ASSUME NEW a \in Addresses PROVE Account(t, a) = Account(s, a)
  <2>1. /\ Sum(s.rewards[a]) \in Nat /\ s.commission[a] \in Nat /\ s.balance[a] \in Nat
        /\ Enqueued(s.rq, "reward", a) \in Nat /\ s.rewards[a] \in [Validators -> Nat]
    BY AccountType
  <2>2. s.balance \in [Addresses -> Nat] /\ s.rewards \in [Addresses -> [Validators -> Nat]]
    BY DEF BlockState
  <2>3. CASE a = d
    <3>1. t.balance[a] = s.balance[a] + s.rewards[a][v] /\ s.rewards[a][v] \in Nat
      BY <1>1, <2>2, <2>3
    <3>2. t.rewards[a] = [s.rewards[a] EXCEPT ![v] = 0]
      BY <1>1, <2>2, <2>3
    <3>3. IsFiniteSet(Validators)
      BY StakingAssumption, FS_Subset, Zenon
    <3>4. Sum([s.rewards[a] EXCEPT ![v] = 0]) = Sum(s.rewards[a]) - s.rewards[a][v] + 0
      BY <2>1, <3>3, SumExcept
    <3> QED  BY <1>1, <2>1, <3>1, <3>2, <3>4 DEF Account
  <2>4. CASE a # d
    <3>1. t.balance[a] = s.balance[a] /\ t.rewards[a] = s.rewards[a]
      BY <1>1, <2>2, <2>4
    <3> QED  BY <1>1, <3>1 DEF Account
  <2> QED  BY <2>3, <2>4
<1>3. Grown(s.rq, t.rq, rewardAddr)
  BY <1>1, KeepsSame DEF Keeps
<1> QED  BY <1>1, <1>2, <1>3 DEF Keeps, t

\* What an account holds is enqueued for it.
LEMMA EnqueueKeeps ==
  ASSUME MapsTyped, NEW s \in BlockState, NEW d \in Addresses, NEW v \in Addresses,
         rewardAddr[d] # NoAddress
  PROVE  LET t == EnqueueAccount(s, d, v) IN
         t \in BlockState /\ Keeps(s, t)
<1> DEFINE t == EnqueueAccount(s, d, v)
           w == Withdrawal(rewardAddr[d], s.balance[d], "reward", v, d)
<1>1. /\ t \in BlockState
      /\ t.balance = [s.balance EXCEPT ![d] = 0]
      /\ t.rq = Append(s.rq, w)
      /\ t.rewards = s.rewards /\ t.commission = s.commission
      /\ t.ubi = s.ubi /\ t.wq = s.wq /\ t.ok = s.ok
  BY EnqueueAccountIs
<1>2. /\ w \in QueueEntry(RewardKinds) /\ w.to = rewardAddr[d] /\ w.amount = s.balance[d]
      /\ w.kind = "reward" /\ w.owner = d
  <2>1. /\ rewardAddr[d] \in Payee /\ v \in Payee /\ d \in Payee /\ "reward" \in RewardKinds
        /\ s.balance[d] \in Nat
    BY DEF Payee, MapsTyped, Maps, RewardKinds, BlockState
  <2>2. w \in QueueEntry(RewardKinds)
    BY <2>1, WithdrawalType, Zenon
  <2> QED  BY <2>2 DEF Withdrawal
<1> HIDE DEF t, w
<1>3. s.rq \in Seq(QueueEntry(RewardKinds))
  BY DEF BlockState
<1>4. ASSUME NEW a \in Addresses PROVE Account(t, a) = Account(s, a)
  <2>1. /\ Sum(s.rewards[a]) \in Nat /\ s.commission[a] \in Nat /\ s.balance[a] \in Nat
        /\ Enqueued(s.rq, "reward", a) \in Nat
    BY AccountType
  <2>2. Enqueued(t.rq, "reward", a)
          = Enqueued(s.rq, "reward", a) + (IF w.kind = "reward" /\ w.owner = a THEN w.amount ELSE 0)
    BY <1>1, <1>2, <1>3, EnqueuedAppend
  <2>3. t.balance[a] = IF a = d THEN 0 ELSE s.balance[a]
    BY <1>1, Zenon DEF BlockState
  <2>4. Enqueued(t.rq, "reward", a) + t.balance[a] = Enqueued(s.rq, "reward", a) + s.balance[a]
    BY <1>2, <2>1, <2>2, <2>3
  <2>5. Enqueued(t.rq, "reward", a) \in Nat /\ t.balance[a] \in Nat
    BY <1>1, AccountType, Zenon
  <2> QED  BY <1>1, <2>1, <2>4, <2>5 DEF Account
<1>5. Grown(s.rq, t.rq, rewardAddr)
  <2>1. w.to = IF w.kind = "ubi" THEN UbiAddress ELSE rewardAddr[w.owner]
    BY <1>2
  <2> QED  BY <1>1, <1>2, <1>3, <2>1, GrownAppend
<1> QED  BY <1>1, <1>4, <1>5 DEF Keeps, t

\* The second loop: the commission, if any, and then all the account holds.
LEMMA ResidueEntryKeeps ==
  ASSUME MapsTyped, NEW s \in BlockState, NEW e \in UnbondingEntry
  PROVE  LET t == ResidueEntry(s, e) IN
         /\ t \in BlockState
         /\ rewardAddr[e.del] # NoAddress =>
              /\ Keeps(s, t)
              /\ \A a \in Addresses : a # e.del => t.balance[a] = s.balance[a]
              /\ delegation[e.del][e.val] = 0 \/ s.balance[e.del] = 0 => t.balance[e.del] = 0
              /\ delegation[e.del][e.val] = 0 /\ e.del = e.val => t.commission[e.val] = 0
<1> DEFINE totally == delegation[e.del][e.val] = 0
           s1 == IF totally /\ e.del = e.val THEN WithdrawCommission(s, e.val) ELSE s
           stay == (~totally /\ height < V121Height) \/ s1.balance[e.del] = 0
           t == ResidueEntry(s, e)
<1>1. e.del \in Addresses /\ e.val \in Addresses
  BY StakingAssumption, Zenon DEF UnbondingEntry
<1>2. t = IF stay THEN s1 ELSE EnqueueAccount(s1, e.del, e.val)
  BY ZenonT(30) DEF ResidueEntry
<1>3. /\ s1 \in BlockState /\ Keeps(s, s1)
      /\ \A a \in Addresses : a # e.del => s1.balance[a] = s.balance[a]
      /\ totally /\ e.del = e.val => s1.commission[e.val] = 0
      /\ ~totally => s1 = s
  <2>1. CASE totally /\ e.del = e.val
    <3>1. s1 = WithdrawCommission(s, e.val)
      BY <2>1
    <3>2. s1 \in BlockState /\ Keeps(s, s1)
      BY <1>1, <3>1, CommissionKeeps
    <3>3. /\ s1.balance = [s.balance EXCEPT ![e.val] = @ + s.commission[e.val]]
          /\ s1.commission = [s.commission EXCEPT ![e.val] = 0]
      BY <1>1, <3>1, WithdrawCommissionIs
    <3>4. s.balance \in [Addresses -> Nat] /\ s.commission \in [Addresses -> Nat]
      BY DEF BlockState
    <3> HIDE DEF s1
    <3> QED  BY <1>1, <2>1, <3>2, <3>3, <3>4
  <2>2. CASE ~(totally /\ e.del = e.val)
    <3>1. s1 = s
      BY <2>2
    <3> HIDE DEF s1
    <3> QED  BY <2>2, <3>1, KeepsSame
  <2> QED  BY <2>1, <2>2
<1> HIDE DEF s1
<1>4. CASE stay
  <2>1. t = s1
    BY <1>2, <1>4
  <2>2. totally \/ s.balance[e.del] = 0 => s1.balance[e.del] = 0
    BY <1>3, <1>4
  <2> HIDE DEF t, stay
  <2> QED  BY <1>3, <2>1, <2>2 DEF t
<1>5. CASE ~stay
  <2>1. t = EnqueueAccount(s1, e.del, e.val)
    BY <1>2, <1>5
  <2>2. t \in BlockState
    BY <1>1, <1>3, <2>1, EnqueueAccountType
  <2>3. ASSUME rewardAddr[e.del] # NoAddress
        PROVE  /\ Keeps(s, t)
               /\ \A a \in Addresses : a # e.del => t.balance[a] = s.balance[a]
               /\ t.balance[e.del] = 0 /\ t.commission = s1.commission
    <3> HIDE DEF t, stay
    <3>1. t.balance = [s1.balance EXCEPT ![e.del] = 0] /\ t.commission = s1.commission
      BY <1>1, <1>3, <2>1, <2>3, EnqueueAccountIs, Zenon
    <3>2. Keeps(s1, t)
      BY <1>1, <1>3, <2>1, <2>3, EnqueueKeeps
    <3>3. Keeps(s, t)
      BY <1>3, <2>2, <3>2, KeepsTrans
    <3>4. s1.balance \in [Addresses -> Nat]
      BY <1>3 DEF BlockState
    <3> QED  BY <1>1, <1>3, <3>1, <3>3, <3>4
  <2> HIDE DEF t, stay
  <2> QED  BY <1>3, <2>2, <2>3 DEF t
<1> QED  BY <1>4, <1>5

\* A delegation that the sweep visits.
Visit == [val : Validators, del : Addresses]

\* The third loop: rewards and commission into the account, and all it holds
\* into the queue.
LEMMA EligibleKeeps ==
  ASSUME MapsTyped, NEW s \in BlockState, NEW x \in Visit
  PROVE  LET t == ProcessEligibleRewardWithdrawal(s, x) IN
         /\ t \in BlockState
         /\ rewardAddr[x.del] # NoAddress =>
              Keeps(s, t) /\ \A a \in Addresses : a # x.del => t.balance[a] = s.balance[a]
<1> DEFINE own == x.del = x.val
           unclaimed == s.rewards[x.del][x.val] + (IF own THEN s.commission[x.val] ELSE 0)
           small == unclaimed + s.balance[x.del] < MinPartialWithdrawalAmount
           s1 == Claim(s, x.del, x.val)
           s2 == IF own THEN WithdrawCommission(s1, x.val) ELSE s1
           t == ProcessEligibleRewardWithdrawal(s, x)
<1>1. x.del \in Addresses /\ x.val \in Validators /\ x.val \in Addresses
  BY StakingAssumption, Zenon DEF Visit
<1>2. t = IF small THEN s ELSE EnqueueAccount(s2, x.del, x.val)
  BY DEF ProcessEligibleRewardWithdrawal, Claim
<1>3. s1 \in BlockState /\ Keeps(s, s1)
  BY <1>1, ClaimKeeps
<1>4. s1.balance = [s.balance EXCEPT ![x.del] = @ + s.rewards[x.del][x.val]]
  BY <1>1, ClaimIs, ZenonT(30)
<1> HIDE DEF s1
<1>5. s2 \in BlockState /\ Keeps(s1, s2)
  BY <1>1, <1>3, CommissionKeeps, KeepsSame
<1>6. \A a \in Addresses : a # x.del => s2.balance[a] = s.balance[a]
  <2>1. s.balance \in [Addresses -> Nat] /\ s1.balance \in [Addresses -> Nat]
    BY <1>3 DEF BlockState
  <2>2. \A a \in Addresses : a # x.del => s1.balance[a] = s.balance[a]
    BY <1>4, <2>1
  <2>3. CASE own
    <3>1. s2.balance = [s1.balance EXCEPT ![x.val] = @ + s1.commission[x.val]]
      BY <1>1, <1>3, <2>3, WithdrawCommissionIs, ZenonT(30)
    <3> HIDE DEF s2
    <3> QED  BY <2>1, <2>2, <2>3, <3>1
  <2>4. CASE ~own
    BY <2>2, <2>4
  <2> QED  BY <2>3, <2>4
<1> HIDE DEF s2
<1>7. Keeps(s, s2)
  BY <1>3, <1>5, KeepsTrans
<1>8. CASE small
  <2>1. t = s
    BY <1>2, <1>8
  <2> HIDE DEF t, small
  <2> QED  BY <2>1, KeepsSame DEF t
<1>9. CASE ~small
  <2>1. t = EnqueueAccount(s2, x.del, x.val)
    BY <1>2, <1>9
  <2>2. t \in BlockState
    BY <1>1, <1>5, <2>1, EnqueueAccountType
  <2>3. ASSUME rewardAddr[x.del] # NoAddress
        PROVE  Keeps(s, t) /\ \A a \in Addresses : a # x.del => t.balance[a] = s.balance[a]
    <3> HIDE DEF t, small
    <3>1. t.balance = [s2.balance EXCEPT ![x.del] = 0]
      BY <1>1, <1>5, <2>1, <2>3, EnqueueAccountIs, Zenon
    <3>2. Keeps(s2, t)
      BY <1>1, <1>5, <2>1, <2>3, EnqueueKeeps
    <3>3. Keeps(s, t)
      BY <1>5, <1>7, <2>2, <3>2, KeepsTrans
    <3>4. s2.balance \in [Addresses -> Nat]
      BY <1>5 DEF BlockState
    <3> QED  BY <1>1, <1>6, <3>1, <3>3, <3>4
  <2> HIDE DEF t, small
  <2> QED  BY <2>2, <2>3 DEF t
<1> QED  BY <1>8, <1>9
-----------------------------------------------------------------------------
\* The loops of EndBlock.  A loop is its iterations one after the other; what
\* each of them keeps, the loop keeps.

\* The iterations of the first loop over the matured entries.
LEMMA UnstakeRuns ==
  ASSUME MapsTyped, NEW s \in BlockState, NEW entries \in Seq(UnbondingEntry)
  PROVE  \E f \in [0 .. Len(entries) -> BlockState] :
           /\ f[0] = s /\ f[Len(entries)] = UnstakeEntries(s, entries)
           /\ \A i \in 1 .. Len(entries) :
                f[i] = IF f[i - 1].ok THEN UnstakeEntry(f[i - 1], entries[i]) ELSE f[i - 1]
<1> DEFINE n == Len(entries)
           Body(i, t) == IF t.ok THEN UnstakeEntry(t, entries[i]) ELSE t
           Step(f) == [i \in 0 .. n |-> IF i = 0 THEN s ELSE Body(i, f[i - 1])]
           g == CHOOSE f : f = Step(f)
<1>1. n \in Nat /\ \A i \in 1 .. n : entries[i] \in UnbondingEntry
  OBVIOUS
<1>2. UnstakeEntries(s, entries) = g[n]
  BY DEF UnstakeEntries
<1>3. \A i \in 1 .. n, t \in BlockState : Body(i, t) \in BlockState
  BY <1>1, UnstakeEntryType
<1>4. ASSUME NEW f
      PROVE  f = Step(f) => f[0] = s /\ \A i \in 1 .. n : f[i] = Body(i, f[i - 1])
  <2> HIDE DEF Body, n
  <2> QED  BY <1>1
<1>5. ASSUME NEW f \in [0 .. n -> BlockState], f[0] = s,
             \A i \in 1 .. n : f[i] = Body(i, f[i - 1])
      PROVE  f = Step(f)
  <2> HIDE DEF Body, n
  <2>1. \A i \in 0 .. n : i = 0 \/ i \in 1 .. n
    BY <1>1
  <2> QED  BY <1>1, <1>5, <2>1
<1>6. \A t : \A i \in 1 .. n : Body(i, t) = IF t.ok THEN UnstakeEntry(t, entries[i]) ELSE t
  OBVIOUS
<1> HIDE DEF Body, Step, n
<1> DEFINE body == [p \in (1 .. n) \X BlockState |-> Body(p[1], p[2])]
<1>7. body \in [(1 .. n) \X BlockState -> BlockState]
  BY <1>3
<1>8. PICK w \in [0 .. n -> BlockState] : w[0] = s /\ \A i \in 1 .. n : w[i] = body[<<i, w[i - 1]>>]
  <2>1. n \in Nat /\ IsBody(BlockState, n, body)
    BY <1>1, <1>7 DEF IsBody
  <2> HIDE DEF body
  <2>2. PICK w : IsRun(BlockState, n, s, body, w)
    BY <2>1, LoopRuns
  <2> QED  BY <2>2, Zenon DEF IsRun
<1>9. \A i \in 1 .. n : w[i] = Body(i, w[i - 1])
  <2> TAKE i \in 1 .. n
  <2>1. w[i - 1] \in BlockState
    BY <1>1
  <2> QED  BY <1>8, <2>1, Zenon
<1>10. w = Step(w)
  BY <1>5, <1>8, <1>9, Zenon
<1>11. g = Step(g)
  BY <1>10, Zenon
<1> HIDE DEF g
<1>12. g[0] = s /\ \A i \in 1 .. n : g[i] = Body(i, g[i - 1])
  BY <1>4, <1>11
<1> DEFINE I == {i \in 0 .. n : g[i] \in BlockState}
<1>13. \A i \in 0 .. n : i \in I
  <2>1. 0 \in I
    BY <1>1, <1>12
  <2>2. \A i \in 1 .. n : i - 1 \in I => i \in I
    BY <1>1, <1>3, <1>12
  <2> HIDE DEF I
  <2> QED  BY <1>1, <2>1, <2>2, LoopKeeps, Zenon
<1>14. g \in [0 .. n -> BlockState]
  <2>1. \A i \in 0 .. n : g[i] \in BlockState
    BY <1>13
  <2>2. g = [i \in 0 .. n |-> g[i]]
    BY <1>11 DEF Step
  <2> QED  BY <2>1, <2>2
<1>15. \A i \in 1 .. n : g[i] = IF g[i - 1].ok THEN UnstakeEntry(g[i - 1], entries[i]) ELSE g[i - 1]
  BY <1>6, <1>12
<1> QED  BY <1>2, <1>12, <1>14, <1>15 DEF n

\* t is s after the entries p were burned and enqueued.
Burned(s, p, t) ==
  /\ t.rewards = s.rewards /\ t.commission = s.commission
  /\ t.ubi = s.ubi /\ t.rq = s.rq /\ t.ok = s.ok
  /\ \A a \in Addresses :
       /\ t.balance[a] + AmountOf(p, a) = s.balance[a]
       /\ Enqueued(t.wq, "unstake", a) = Enqueued(s.wq, "unstake", a) + AmountOf(p, a)
  /\ Enqueued(t.wq, "ubi", NoAddress) = Enqueued(s.wq, "ubi", NoAddress)
  /\ Grown(s.wq, t.wq, withdrawAddr)

\* Before the loop.
LEMMA BurnedNone ==
  ASSUME NEW s \in BlockState
  PROVE  Burned(s, << >>, s)
<1>1. s.wq \in Seq(QueueEntry(StakeKinds)) /\ s.balance \in [Addresses -> Nat]
  BY DEF BlockState
<1>2. Grown(s.wq, s.wq, withdrawAddr)
  BY <1>1, GrownSame
<1>3. \A a : AmountOf(<< >>, a) = 0
  BY AmountOfNone
<1>4. \A a \in Addresses : Enqueued(s.wq, "unstake", a) \in Nat
  BY <1>1, EnqueuedType
<1> QED  BY <1>1, <1>2, <1>3, <1>4 DEF Burned

\* An iteration burns one more entry.
LEMMA BurnedOne ==
  ASSUME MapsTyped, NEW s \in BlockState, NEW t \in BlockState,
         NEW p \in Seq(UnbondingEntry), NEW e \in UnbondingEntry, Burned(s, p, t),
         withdrawAddr[e.del] # NoAddress, t.balance[e.del] >= e.amount
  PROVE  UnstakeEntry(t, e) \in BlockState /\ Burned(s, Append(p, e), UnstakeEntry(t, e))
<1> DEFINE u == UnstakeEntry(t, e)
           w == Withdrawal(withdrawAddr[e.del], e.amount, "unstake", e.val, e.del)
<1>1. /\ u \in BlockState
      /\ u.balance = [t.balance EXCEPT ![e.del] = @ - e.amount]
      /\ u.wq = Append(t.wq, w)
      /\ u.rewards = t.rewards /\ u.commission = t.commission
      /\ u.ubi = t.ubi /\ u.rq = t.rq /\ u.ok = t.ok
  BY UnstakeEntryIs
<1>2. e.del \in Addresses /\ e.val \in Addresses /\ e.amount \in Nat
  BY StakingAssumption, Zenon DEF UnbondingEntry
<1>3. /\ w \in QueueEntry(StakeKinds) /\ w.to = withdrawAddr[e.del] /\ w.amount = e.amount
      /\ w.kind = "unstake" /\ w.owner = e.del
  <2>1. withdrawAddr[e.del] \in Payee /\ e.val \in Payee /\ e.del \in Payee /\ "unstake" \in StakeKinds
    BY <1>2 DEF Payee, MapsTyped, Maps, StakeKinds
  <2>2. w \in QueueEntry(StakeKinds)
    BY <1>2, <2>1, WithdrawalType, Zenon
  <2> QED  BY <2>2 DEF Withdrawal
<1> HIDE DEF u, w
<1>4. /\ t.wq \in Seq(QueueEntry(StakeKinds)) /\ s.wq \in Seq(QueueEntry(StakeKinds))
      /\ u.wq \in Seq(QueueEntry(StakeKinds)) /\ t.balance \in [Addresses -> Nat]
      /\ s.balance \in [Addresses -> Nat]
  BY <1>1 DEF BlockState
<1>5. ASSUME NEW a \in Addresses
      PROVE  /\ u.balance[a] + AmountOf(Append(p, e), a) = s.balance[a]
             /\ Enqueued(u.wq, "unstake", a) = Enqueued(s.wq, "unstake", a) + AmountOf(Append(p, e), a)
  <2> DEFINE m == IF e.del = a THEN e.amount ELSE 0
  <2>1. AmountOf(Append(p, e), a) = AmountOf(p, a) + m
    BY AmountOfAppend
  <2>2. m \in Nat /\ AmountOf(p, a) \in Nat
    BY <1>2, AmountOfType
  <2>3. u.balance[a] = t.balance[a] - m /\ t.balance[a] \in Nat
    BY <1>1, <1>2, <1>4
  <2>4. Enqueued(u.wq, "unstake", a)
          = Enqueued(t.wq, "unstake", a)
              + (IF w.kind = "unstake" /\ w.owner = a THEN w.amount ELSE 0)
    BY <1>1, <1>3, <1>4, EnqueuedAppend
  <2>5. Enqueued(u.wq, "unstake", a) = Enqueued(t.wq, "unstake", a) + m
    BY <1>3, <2>4
  <2>6. Enqueued(t.wq, "unstake", a) \in Nat /\ Enqueued(s.wq, "unstake", a) \in Nat
    BY <1>4, EnqueuedType
  <2>7. /\ t.balance[a] + AmountOf(p, a) = s.balance[a]
        /\ Enqueued(t.wq, "unstake", a) = Enqueued(s.wq, "unstake", a) + AmountOf(p, a)
    BY DEF Burned
  <2> HIDE DEF m
  <2> QED  BY <2>1, <2>2, <2>3, <2>5, <2>6, <2>7
<1>6. Enqueued(u.wq, "ubi", NoAddress) = Enqueued(s.wq, "ubi", NoAddress)
  <2>1. Enqueued(u.wq, "ubi", NoAddress)
          = Enqueued(t.wq, "ubi", NoAddress)
              + (IF w.kind = "ubi" /\ w.owner = NoAddress THEN w.amount ELSE 0)
    BY <1>1, <1>3, <1>4, EnqueuedAppend
  <2>2. Enqueued(t.wq, "ubi", NoAddress) \in Nat
    BY <1>4, EnqueuedType
  <2>3. Enqueued(u.wq, "ubi", NoAddress) = Enqueued(t.wq, "ubi", NoAddress)
    BY <1>3, <2>1, <2>2
  <2> QED  BY <2>3 DEF Burned
<1>7. Grown(s.wq, u.wq, withdrawAddr)
  <2>1. w.to = IF w.kind = "ubi" THEN UbiAddress ELSE withdrawAddr[w.owner]
    BY <1>3
  <2>2. Grown(t.wq, u.wq, withdrawAddr)
    <3>1. w \in QueueEntry(StakeKinds) /\ t.wq \in Seq(QueueEntry(StakeKinds))
      BY <1>3, <1>4
    <3>2. Grown(t.wq, Append(t.wq, w), withdrawAddr)
      BY <2>1, <3>1, GrownAppend
    <3> QED  BY <1>1, <3>2
  <2>3. Grown(s.wq, t.wq, withdrawAddr)
    BY DEF Burned
  <2> QED  BY <1>4, <2>2, <2>3, GrownTrans
<1>8. /\ u.rewards = s.rewards /\ u.commission = s.commission
      /\ u.ubi = s.ubi /\ u.rq = s.rq /\ u.ok = s.ok
  BY <1>1 DEF Burned
<1>9. Burned(s, Append(p, e), u)
  BY <1>5, <1>6, <1>7, <1>8, ZenonT(30) DEF Burned
<1> QED  BY <1>1, <1>9, Zenon DEF u

\* The first loop: every account holds the coins that are to be burned from
\* it, so no iteration fails, and every entry is enqueued.
LEMMA UnstakeLoop ==
  ASSUME MapsTyped, NEW s \in BlockState, s.ok, NEW entries \in Seq(UnbondingEntry),
         \A i \in 1 .. Len(entries) : withdrawAddr[entries[i].del] # NoAddress,
         \A a \in Addresses : AmountOf(entries, a) <= s.balance[a]
  PROVE  /\ UnstakeEntries(s, entries) \in BlockState
         /\ Burned(s, entries, UnstakeEntries(s, entries))
<1> DEFINE n == Len(entries)
           P(i) == SubSeq(entries, 1, i)
<1>1. PICK f \in [0 .. n -> BlockState] :
        /\ f[0] = s /\ f[n] = UnstakeEntries(s, entries)
        /\ \A i \in 1 .. n : f[i] = IF f[i - 1].ok THEN UnstakeEntry(f[i - 1], entries[i]) ELSE f[i - 1]
  BY UnstakeRuns, Zenon
<1>2. n \in Nat /\ P(0) = << >> /\ P(n) = entries
  OBVIOUS
<1>3. \A i \in 1 .. n :
        P(i - 1) \in Seq(UnbondingEntry) /\ entries[i] \in UnbondingEntry
        /\ P(i) = Append(P(i - 1), entries[i])
  OBVIOUS
<1> DEFINE I == {i \in 0 .. n : Burned(s, P(i), f[i])}
<1>4. 0 \in I
  <2>1. Burned(s, << >>, s) /\ 0 \in 0 .. n
    BY <1>2, BurnedNone
  <2> HIDE DEF P, n
  <2> QED  BY <1>1, <1>2, <2>1
<1>5. ASSUME NEW i \in 1 .. n, i - 1 \in I PROVE i \in I
  <2> DEFINE t == f[i - 1]
             e == entries[i]
             p == P(i - 1)
  <2>1. t \in BlockState /\ Burned(s, p, t)
    BY <1>2, <1>5
  <2>2. p \in Seq(UnbondingEntry) /\ e \in UnbondingEntry /\ P(i) = Append(p, e)
    BY <1>3
  <2>3. AmountOf(P(i), e.del) = AmountOf(p, e.del) + e.amount /\ AmountOf(P(i), e.del) <= AmountOf(entries, e.del)
    BY AmountOfPrefix
  <2>4. /\ AmountOf(p, e.del) \in Nat /\ AmountOf(entries, e.del) \in Nat
        /\ e.del \in Addresses /\ e.amount \in Nat
    BY <2>2, AmountOfType, Zenon DEF UnbondingEntry
  <2>5. withdrawAddr[e.del] # NoAddress
    OBVIOUS
  <2>6. f[i] = IF t.ok THEN UnstakeEntry(t, e) ELSE t
    BY <1>1, Zenon
  <2> HIDE DEF P, t, e, p
  <2>7. t.balance[e.del] + AmountOf(p, e.del) = s.balance[e.del] /\ t.ok
    BY <2>1, <2>4, Zenon DEF Burned
  <2>8. t.balance[e.del] \in Nat /\ s.balance[e.del] \in Nat
    BY <2>1, <2>4 DEF BlockState
  <2>9. AmountOf(entries, e.del) <= s.balance[e.del]
    BY <2>4
  <2>10. t.balance[e.del] >= e.amount
    BY <2>3, <2>4, <2>7, <2>8, <2>9
  <2>11. Burned(s, Append(p, e), UnstakeEntry(t, e))
    BY <2>1, <2>2, <2>5, <2>10, BurnedOne, ZenonT(30)
  <2>12. Burned(s, P(i), f[i])
    BY <2>2, <2>6, <2>7, <2>11
  <2> QED  BY <1>2, <2>12
<1>6. n \in I
  <2> HIDE DEF I, n
  <2>1. \A i \in 0 .. n : i \in I
    BY <1>2, <1>4, <1>5, LoopKeeps, Zenon
  <2> QED  BY <1>2, <2>1
<1> HIDE DEF P, n
<1> QED  BY <1>1, <1>2, <1>6

\* The iterations of the second loop over the matured entries.
LEMMA ResidueRuns ==
  ASSUME MapsTyped, NEW s \in BlockState, NEW entries \in Seq(UnbondingEntry)
  PROVE  \E f \in [0 .. Len(entries) -> BlockState] :
           /\ f[0] = s /\ f[Len(entries)] = ResidueEntries(s, entries)
           /\ \A i \in 1 .. Len(entries) :
                f[i] = IF f[i - 1].ok THEN ResidueEntry(f[i - 1], entries[i]) ELSE f[i - 1]
<1> DEFINE n == Len(entries)
           Body(i, t) == IF t.ok THEN ResidueEntry(t, entries[i]) ELSE t
           Step(f) == [i \in 0 .. n |-> IF i = 0 THEN s ELSE Body(i, f[i - 1])]
           g == CHOOSE f : f = Step(f)
<1>1. n \in Nat /\ \A i \in 1 .. n : entries[i] \in UnbondingEntry
  OBVIOUS
<1>2. ResidueEntries(s, entries) = g[n]
  BY DEF ResidueEntries
<1>3. \A i \in 1 .. n, t \in BlockState : Body(i, t) \in BlockState
  BY <1>1, ResidueEntryKeeps, ZenonT(30)
<1>4. ASSUME NEW f
      PROVE  f = Step(f) => f[0] = s /\ \A i \in 1 .. n : f[i] = Body(i, f[i - 1])
  <2> HIDE DEF Body, n
  <2> QED  BY <1>1
<1>5. ASSUME NEW f \in [0 .. n -> BlockState], f[0] = s,
             \A i \in 1 .. n : f[i] = Body(i, f[i - 1])
      PROVE  f = Step(f)
  <2> HIDE DEF Body, n
  <2>1. \A i \in 0 .. n : i = 0 \/ i \in 1 .. n
    BY <1>1
  <2> QED  BY <1>1, <1>5, <2>1
<1>6. \A t : \A i \in 1 .. n : Body(i, t) = IF t.ok THEN ResidueEntry(t, entries[i]) ELSE t
  OBVIOUS
<1> HIDE DEF Body, Step, n
<1> DEFINE body == [p \in (1 .. n) \X BlockState |-> Body(p[1], p[2])]
<1>7. body \in [(1 .. n) \X BlockState -> BlockState]
  BY <1>3
<1>8. PICK w \in [0 .. n -> BlockState] : w[0] = s /\ \A i \in 1 .. n : w[i] = body[<<i, w[i - 1]>>]
  <2>1. n \in Nat /\ IsBody(BlockState, n, body)
    BY <1>1, <1>7 DEF IsBody
  <2> HIDE DEF body
  <2>2. PICK w : IsRun(BlockState, n, s, body, w)
    BY <2>1, LoopRuns
  <2> QED  BY <2>2, Zenon DEF IsRun
<1>9. \A i \in 1 .. n : w[i] = Body(i, w[i - 1])
  <2> TAKE i \in 1 .. n
  <2>1. w[i - 1] \in BlockState
    BY <1>1
  <2> QED  BY <1>8, <2>1, Zenon
<1>10. w = Step(w)
  BY <1>5, <1>8, <1>9, Zenon
<1>11. g = Step(g)
  BY <1>10, Zenon
<1> HIDE DEF g
<1>12. g[0] = s /\ \A i \in 1 .. n : g[i] = Body(i, g[i - 1])
  BY <1>4, <1>11
<1> DEFINE I == {i \in 0 .. n : g[i] \in BlockState}
<1>13. \A i \in 0 .. n : i \in I
  <2>1. 0 \in I
    BY <1>1, <1>12
  <2>2. \A i \in 1 .. n : i - 1 \in I => i \in I
    BY <1>1, <1>3, <1>12
  <2> HIDE DEF I
  <2> QED  BY <1>1, <2>1, <2>2, LoopKeeps, Zenon
<1>14. g \in [0 .. n -> BlockState]
  <2>1. \A i \in 0 .. n : g[i] \in BlockState
    BY <1>13
  <2>2. g = [i \in 0 .. n |-> g[i]]
    BY <1>11 DEF Step
  <2> QED  BY <2>1, <2>2
<1>15. \A i \in 1 .. n : g[i] = IF g[i - 1].ok THEN ResidueEntry(g[i - 1], entries[i]) ELSE g[i - 1]
  BY <1>6, <1>12
<1> QED  BY <1>2, <1>12, <1>14, <1>15 DEF n

\* The iterations over the delegations that the sweep visits.
LEMMA RewardRuns ==
  ASSUME MapsTyped, NEW s \in BlockState, NEW visited \in Seq(Visit)
  PROVE  \E f \in [0 .. Len(visited) -> BlockState] :
           /\ f[0] = s /\ f[Len(visited)] = ProcessRewardWithdrawals(s, visited)
           /\ \A i \in 1 .. Len(visited) :
                f[i] = IF f[i - 1].ok THEN ProcessEligibleRewardWithdrawal(f[i - 1], visited[i]) ELSE f[i - 1]
<1> DEFINE n == Len(visited)
           Body(i, t) == IF t.ok THEN ProcessEligibleRewardWithdrawal(t, visited[i]) ELSE t
           Step(f) == [i \in 0 .. n |-> IF i = 0 THEN s ELSE Body(i, f[i - 1])]
           g == CHOOSE f : f = Step(f)
<1>1. n \in Nat /\ \A i \in 1 .. n : visited[i] \in Visit
  OBVIOUS
<1>2. ProcessRewardWithdrawals(s, visited) = g[n]
  BY DEF ProcessRewardWithdrawals
<1>3. \A i \in 1 .. n, t \in BlockState : Body(i, t) \in BlockState
  BY <1>1, EligibleKeeps
<1>4. ASSUME NEW f
      PROVE  f = Step(f) => f[0] = s /\ \A i \in 1 .. n : f[i] = Body(i, f[i - 1])
  <2> HIDE DEF Body, n
  <2> QED  BY <1>1
<1>5. ASSUME NEW f \in [0 .. n -> BlockState], f[0] = s,
             \A i \in 1 .. n : f[i] = Body(i, f[i - 1])
      PROVE  f = Step(f)
  <2> HIDE DEF Body, n
  <2>1. \A i \in 0 .. n : i = 0 \/ i \in 1 .. n
    BY <1>1
  <2> QED  BY <1>1, <1>5, <2>1
<1>6. \A t : \A i \in 1 .. n : Body(i, t) = IF t.ok THEN ProcessEligibleRewardWithdrawal(t, visited[i]) ELSE t
  OBVIOUS
<1> HIDE DEF Body, Step, n
<1> DEFINE body == [p \in (1 .. n) \X BlockState |-> Body(p[1], p[2])]
<1>7. body \in [(1 .. n) \X BlockState -> BlockState]
  BY <1>3
<1>8. PICK w \in [0 .. n -> BlockState] : w[0] = s /\ \A i \in 1 .. n : w[i] = body[<<i, w[i - 1]>>]
  <2>1. n \in Nat /\ IsBody(BlockState, n, body)
    BY <1>1, <1>7 DEF IsBody
  <2> HIDE DEF body
  <2>2. PICK w : IsRun(BlockState, n, s, body, w)
    BY <2>1, LoopRuns
  <2> QED  BY <2>2, Zenon DEF IsRun
<1>9. \A i \in 1 .. n : w[i] = Body(i, w[i - 1])
  <2> TAKE i \in 1 .. n
  <2>1. w[i - 1] \in BlockState
    BY <1>1
  <2> QED  BY <1>8, <2>1, Zenon
<1>10. w = Step(w)
  BY <1>5, <1>8, <1>9, Zenon
<1>11. g = Step(g)
  BY <1>10, Zenon
<1> HIDE DEF g
<1>12. g[0] = s /\ \A i \in 1 .. n : g[i] = Body(i, g[i - 1])
  BY <1>4, <1>11
<1> DEFINE I == {i \in 0 .. n : g[i] \in BlockState}
<1>13. \A i \in 0 .. n : i \in I
  <2>1. 0 \in I
    BY <1>1, <1>12
  <2>2. \A i \in 1 .. n : i - 1 \in I => i \in I
    BY <1>1, <1>3, <1>12
  <2> HIDE DEF I
  <2> QED  BY <1>1, <2>1, <2>2, LoopKeeps, Zenon
<1>14. g \in [0 .. n -> BlockState]
  <2>1. \A i \in 0 .. n : g[i] \in BlockState
    BY <1>13
  <2>2. g = [i \in 0 .. n |-> g[i]]
    BY <1>11 DEF Step
  <2> QED  BY <2>1, <2>2
<1>15. \A i \in 1 .. n : g[i] = IF g[i - 1].ok THEN ProcessEligibleRewardWithdrawal(g[i - 1], visited[i]) ELSE g[i - 1]
  BY <1>6, <1>12
<1> QED  BY <1>2, <1>12, <1>14, <1>15 DEF n

\* t is s after the second loop looked at the first n entries: a delegator that
\* is totally unstaked keeps nothing in its account, nor a commission of its own.
Cleared(s, entries, n, t) ==
  /\ Keeps(s, t)
  /\ \A a \in Addresses :
       (\A j \in 1 .. n : entries[j].del # a) => t.balance[a] = s.balance[a]
  /\ \A j \in 1 .. n :
       LET e == entries[j] IN
       delegation[e.del][e.val] = 0 =>
         t.balance[e.del] = 0 /\ (e.del = e.val => t.commission[e.val] = 0)

\* An iteration clears one more entry, and leaves the earlier ones cleared.
LEMMA ClearedOne ==
  ASSUME MapsTyped, NEW s \in BlockState, NEW t \in BlockState,
         NEW entries \in Seq(UnbondingEntry), NEW n \in 1 .. Len(entries),
         Cleared(s, entries, n - 1, t), rewardAddr[entries[n].del] # NoAddress
  PROVE  Cleared(s, entries, n, ResidueEntry(t, entries[n]))
<1> DEFINE e == entries[n]
           u == ResidueEntry(t, e)
<1>1. /\ e \in UnbondingEntry /\ e.del \in Addresses /\ n \in Nat
      /\ \A j \in 1 .. n : entries[j] \in UnbondingEntry
      /\ \A j \in 1 .. n : j = n \/ j \in 1 .. n - 1
      /\ \A j \in 1 .. n - 1 : j \in 1 .. n
      /\ n \in 1 .. n
  <2>1. n \in Nat /\ e \in UnbondingEntry /\ \A j \in 1 .. n : entries[j] \in UnbondingEntry
    OBVIOUS
  <2>2. \A j \in 1 .. n : j = n \/ j \in 1 .. n - 1
    OBVIOUS
  <2>3. \A j \in 1 .. n - 1 : j \in 1 .. n
    OBVIOUS
  <2> QED  BY <2>1, <2>2, <2>3 DEF UnbondingEntry
<1>2. /\ u \in BlockState /\ Keeps(t, u)
      /\ \A a \in Addresses : a # e.del => u.balance[a] = t.balance[a]
      /\ delegation[e.del][e.val] = 0 \/ t.balance[e.del] = 0 => u.balance[e.del] = 0
      /\ delegation[e.del][e.val] = 0 /\ e.del = e.val => u.commission[e.val] = 0
  BY <1>1, ResidueEntryKeeps, ZenonT(30)
<1> HIDE DEF u
<1>3. Keeps(s, u)
  BY <1>2, KeepsTrans, ZenonT(30) DEF Cleared
<1>4. ASSUME NEW a \in Addresses, \A j \in 1 .. n : entries[j].del # a
      PROVE  u.balance[a] = s.balance[a]
  <2>1. t.balance[a] = s.balance[a] /\ a # e.del
    BY <1>1, <1>4 DEF Cleared
  <2> QED  BY <1>2, <2>1
<1>5. ASSUME NEW j \in 1 .. n, delegation[entries[j].del][entries[j].val] = 0
      PROVE  /\ u.balance[entries[j].del] = 0
             /\ entries[j].del = entries[j].val => u.commission[entries[j].val] = 0
  <2>1. CASE j = n
    BY <1>2, <1>5, <2>1, Zenon
  <2>2. CASE j \in 1 .. n - 1
    <3> DEFINE x == entries[j]
    <3>1. t.balance[x.del] = 0 /\ (x.del = x.val => t.commission[x.val] = 0)
      BY <1>5, <2>2 DEF Cleared
    <3>2. x.del \in Addresses /\ x.val \in Addresses
      BY <1>1, StakingAssumption, Zenon DEF UnbondingEntry
    <3> HIDE DEF x, e
    <3>3. u.balance[x.del] = 0
      BY <1>2, <3>1, <3>2, ZenonT(30)
    <3>4. x.del = x.val => u.commission[x.val] = 0
      BY <1>2, <3>1, <3>2 DEF Keeps
    <3> QED  BY <3>3, <3>4 DEF x
  <2> QED  BY <1>1, <2>1, <2>2, Zenon
<1>6. Cleared(s, entries, n, u)
  BY <1>3, <1>4, <1>5, Zenon DEF Cleared
<1> QED  BY <1>6 DEF u

\* The second loop.
LEMMA ResidueLoop ==
  ASSUME MapsTyped, NEW s \in BlockState, s.ok, NEW entries \in Seq(UnbondingEntry),
         \A i \in 1 .. Len(entries) : rewardAddr[entries[i].del] # NoAddress
  PROVE  /\ ResidueEntries(s, entries) \in BlockState
         /\ Cleared(s, entries, Len(entries), ResidueEntries(s, entries))
<1> DEFINE n == Len(entries)
<1>1. PICK f \in [0 .. n -> BlockState] :
        /\ f[0] = s /\ f[n] = ResidueEntries(s, entries)
        /\ \A i \in 1 .. n : f[i] = IF f[i - 1].ok THEN ResidueEntry(f[i - 1], entries[i]) ELSE f[i - 1]
  BY ResidueRuns
<1>2. n \in Nat
  OBVIOUS
<1> DEFINE I == {i \in 0 .. n : Cleared(s, entries, i, f[i])}
<1>3. 0 \in I
  <2>1. Keeps(s, s) /\ 0 \in 0 .. n /\ \A j \in 1 .. 0 : FALSE
    BY <1>2, KeepsSame
  <2>2. Cleared(s, entries, 0, s)
    BY <2>1 DEF Cleared
  <2> HIDE DEF n
  <2> QED  BY <1>1, <2>1, <2>2
<1>4. ASSUME NEW i \in 1 .. n, i - 1 \in I PROVE i \in I
  <2>1. i - 1 \in 0 .. n /\ i \in 0 .. n
    BY <1>2
  <2>2. f[i - 1] \in BlockState /\ Cleared(s, entries, i - 1, f[i - 1])
    BY <1>4, <2>1, ZenonT(30)
  <2>3. f[i - 1].ok
    BY <2>2 DEF Cleared, Keeps
  <2>4. f[i] = ResidueEntry(f[i - 1], entries[i])
    BY <1>1, <2>3
  <2>5. rewardAddr[entries[i].del] # NoAddress
    OBVIOUS
  <2>6. Cleared(s, entries, i, ResidueEntry(f[i - 1], entries[i]))
    BY <2>2, <2>5, ClearedOne
  <2> QED  BY <2>1, <2>4, <2>6
<1>5. n \in I
  <2> HIDE DEF I, n
  <2>1. \A i \in 0 .. n : i \in I
    BY <1>2, <1>3, <1>4, LoopKeeps, ZenonT(30)
  <2> QED  BY <1>2, <2>1
<1>6. n \in 0 .. n /\ f[n] \in BlockState
  BY <1>2
<1> QED  BY <1>1, <1>5, <1>6

\* t is s after the first n visits of the sweep.
Visited(s, visited, n, t) ==
  /\ Keeps(s, t)
  /\ \A a \in Addresses :
       (\A j \in 1 .. n : visited[j].del # a) => t.balance[a] = s.balance[a]

\* One more visit.
LEMMA VisitedOne ==
  ASSUME MapsTyped, NEW s \in BlockState, NEW t \in BlockState,
         NEW visited \in Seq(Visit), NEW n \in 1 .. Len(visited),
         Visited(s, visited, n - 1, t), rewardAddr[visited[n].del] # NoAddress
  PROVE  Visited(s, visited, n, ProcessEligibleRewardWithdrawal(t, visited[n]))
<1> DEFINE x == visited[n]
           u == ProcessEligibleRewardWithdrawal(t, x)
<1>1. /\ x \in Visit /\ n \in Nat /\ n \in 1 .. n
      /\ \A j \in 1 .. n - 1 : j \in 1 .. n
  OBVIOUS
<1>2. /\ u \in BlockState /\ Keeps(t, u)
      /\ \A a \in Addresses : a # x.del => u.balance[a] = t.balance[a]
  BY <1>1, EligibleKeeps
<1> HIDE DEF u
<1>3. Keeps(s, u)
  BY <1>2, KeepsTrans DEF Visited
<1>4. ASSUME NEW a \in Addresses, \A j \in 1 .. n : visited[j].del # a
      PROVE  u.balance[a] = s.balance[a]
  <2>1. t.balance[a] = s.balance[a] /\ a # x.del
    BY <1>1, <1>4 DEF Visited
  <2> QED  BY <1>2, <2>1
<1>5. Visited(s, visited, n, u)
  BY <1>3, <1>4, ZenonT(30) DEF Visited
<1> QED  BY <1>5 DEF u

\* The loop over what the sweep visits.
LEMMA RewardLoop ==
  ASSUME MapsTyped, NEW s \in BlockState, s.ok, NEW visited \in Seq(Visit),
         \A i \in 1 .. Len(visited) : rewardAddr[visited[i].del] # NoAddress
  PROVE  /\ ProcessRewardWithdrawals(s, visited) \in BlockState
         /\ Visited(s, visited, Len(visited), ProcessRewardWithdrawals(s, visited))
<1> DEFINE n == Len(visited)
<1>1. PICK f \in [0 .. n -> BlockState] :
        /\ f[0] = s /\ f[n] = ProcessRewardWithdrawals(s, visited)
        /\ \A i \in 1 .. n :
             f[i] = IF f[i - 1].ok THEN ProcessEligibleRewardWithdrawal(f[i - 1], visited[i])
                    ELSE f[i - 1]
  BY RewardRuns
<1>2. n \in Nat
  OBVIOUS
<1> DEFINE I == {i \in 0 .. n : Visited(s, visited, i, f[i])}
<1>3. 0 \in I
  <2>1. Keeps(s, s) /\ 0 \in 0 .. n
    BY <1>2, KeepsSame
  <2>2. Visited(s, visited, 0, s)
    BY <2>1 DEF Visited
  <2> HIDE DEF n
  <2> QED  BY <1>1, <2>1, <2>2
<1>4. ASSUME NEW i \in 1 .. n, i - 1 \in I PROVE i \in I
  <2>1. i - 1 \in 0 .. n /\ i \in 0 .. n
    BY <1>2
  <2>2. f[i - 1] \in BlockState /\ Visited(s, visited, i - 1, f[i - 1])
    BY <1>4, <2>1
  <2>3. f[i - 1].ok
    BY <2>2 DEF Visited, Keeps
  <2>4. f[i] = ProcessEligibleRewardWithdrawal(f[i - 1], visited[i])
    BY <1>1, <2>3
  <2>5. rewardAddr[visited[i].del] # NoAddress
    OBVIOUS
  <2>6. Visited(s, visited, i, ProcessEligibleRewardWithdrawal(f[i - 1], visited[i]))
    BY <2>2, <2>5, VisitedOne
  <2> QED  BY <2>1, <2>4, <2>6
<1>5. n \in I
  <2> HIDE DEF I, n
  <2>1. \A i \in 0 .. n : i \in I
    BY <1>2, <1>3, <1>4, LoopKeeps, Zenon
  <2> QED  BY <1>2, <2>1
<1>6. n \in 0 .. n /\ f[n] \in BlockState
  BY <1>2
<1> QED  BY <1>1, <1>5, <1>6

-----------------------------------------------------------------------------
\* The sweep.

\* A delegation that there is.
Staked == {x \in Visit : delegation[x.del][x.val] > 0}

\* The sweep of a block visits delegations that there are.
LEMMA SweepVisitsStaked ==
  ASSUME StakingAssumption, NEW left \in SUBSET Validators, NEW jail,
         cursor \in [val : Nat, del : Nat]
  PROVE  LET sweep == SweepLoop(InKeyOrder(left), jail,
                        [v \in Validators |-> InKeyOrder({d \in Addresses : delegation[d][v] > 0})],
                        MaxSweepPerBlock, cursor)
         IN  sweep.visited \in Seq(Staked) /\ sweep.val \in Nat /\ sweep.del \in Nat
<1> DEFINE vs == InKeyOrder(left)
           D(v) == {d \in Addresses : delegation[d][v] > 0}
           dels == [v \in Validators |-> InKeyOrder(D(v))]
           sweep == SweepLoop(vs, jail, dels, MaxSweepPerBlock, cursor)
<1>1. vs \in Seq(left)
  <2>1. left \in SUBSET Addresses /\ left \subseteq Nat /\ IsFiniteSet(Addresses)
    BY DEF StakingAssumption
  <2>2. IsFiniteSet(left)
    BY <2>1, FS_Subset, Zenon
  <2> QED  BY <2>1, <2>2, KeyOrder, Zenon
<1>2. \A v \in Validators : dels[v] \in Seq(D(v))
  <2> TAKE v \in Validators
  <2>1. D(v) \in SUBSET Addresses /\ D(v) \subseteq Nat /\ IsFiniteSet(Addresses)
    BY Zenon DEF StakingAssumption
  <2>2. IsFiniteSet(D(v))
    BY <2>1, FS_Subset
  <2>3. InKeyOrder(D(v)) \in Seq(D(v))
    BY <2>1, <2>2, KeyOrder
  <2> QED  BY <2>3
<1> HIDE DEF vs, dels
<1>3. SweepInput(vs, dels, Staked)
  <2>1. vs = [i \in 1 .. Len(vs) |-> vs[i]] /\ Len(vs) \in Nat /\ \A i \in 1 .. Len(vs) : vs[i] \in left
    BY <1>1
  <2>2. ASSUME NEW i \in 1 .. Len(vs)
        PROVE  LET ds == dels[vs[i]] IN
               /\ Len(ds) \in Nat /\ ds = [j \in 1 .. Len(ds) |-> ds[j]]
               /\ \A j \in 1 .. Len(ds) : [val |-> vs[i], del |-> ds[j]] \in Staked
    <3> DEFINE v == vs[i]
               ds == dels[v]
    <3>1. v \in Validators
      BY <2>1
    <3> HIDE DEF v
    <3>2. ds \in Seq(D(v))
      BY <1>2, <3>1
    <3> HIDE DEF ds
    <3>3. Len(ds) \in Nat /\ ds = [j \in 1 .. Len(ds) |-> ds[j]] /\ \A j \in 1 .. Len(ds) : ds[j] \in D(v)
      <4> HIDE DEF D
      <4> QED  BY <3>2
    <3>4. \A d \in D(v) : [val |-> v, del |-> d] \in Staked
      BY <3>1 DEF Staked, Visit
    <3>5. \A j \in 1 .. Len(ds) : [val |-> v, del |-> ds[j]] \in Staked
      BY <3>3, <3>4
    <3> QED  BY <3>3, <3>5 DEF v, ds
  <2> QED  BY <2>1, <2>2, Zenon DEF SweepInput
<1>4. MaxSweepPerBlock \in Nat
  BY DEF StakingAssumption
<1>5. sweep \in SweepState(Len(vs), Staked, MaxSweepPerBlock)
  BY <1>3, <1>4, SweepLoopType
<1> HIDE DEF sweep
<1>6. sweep.visited \in Seq(Staked) /\ sweep.val \in Nat /\ sweep.del \in Nat
  BY <1>5 DEF SweepState, ValIndex
<1> QED  BY <1>6 DEF sweep, vs, dels
-----------------------------------------------------------------------------
\* EndBlock as a whole.

\* The state that EndBlock starts from.
CoinsTyped ==
  /\ balance \in [Addresses -> Nat] /\ rewards \in [Addresses -> [Validators -> Nat]]
  /\ commission \in [Addresses -> Nat] /\ ubi \in Nat
  /\ wq \in Seq(QueueEntry(StakeKinds)) /\ rq \in Seq(QueueEntry(RewardKinds))

\* What was allocated to an account, wherever it is.
Holdings(a) == Sum(rewards[a]) + commission[a] + balance[a] + Enqueued(rq, "reward", a)

\* The matured entries are paid to their delegators, so that each account holds
\* at least what is to be burned from it.
LEMMA PayMaturedIs ==
  ASSUME CoinsTyped, NEW entries \in Seq(UnbondingEntry), NEW gone
  PROVE  LET p == PayMatured(entries, gone) IN
         /\ p \in BlockState /\ p.ok
         /\ p.rewards = rewards /\ p.ubi = ubi /\ p.wq = wq /\ p.rq = rq
         /\ \A a \in Addresses :
              /\ p.balance[a] = balance[a] + AmountOf(entries, a)
                                  + (IF a \in gone THEN commission[a] ELSE 0)
              /\ p.commission[a] = IF a \in gone THEN 0 ELSE commission[a]
              /\ AmountOf(entries, a) <= p.balance[a]
<1> DEFINE p == PayMatured(entries, gone)
           B(a) == balance[a] + AmountOf(entries, a) + (IF a \in gone THEN commission[a] ELSE 0)
           C(a) == IF a \in gone THEN 0 ELSE commission[a]
<1>1. /\ p.balance = [a \in Addresses |-> B(a)] /\ p.commission = [a \in Addresses |-> C(a)]
      /\ p.rewards = rewards /\ p.ubi = ubi /\ p.wq = wq /\ p.rq = rq /\ p.ok = TRUE
  BY Zenon DEF PayMatured
<1>2. \A a \in Addresses : B(a) \in Nat /\ C(a) \in Nat /\ AmountOf(entries, a) <= B(a)
  <2> TAKE a \in Addresses
  <2>1. AmountOf(entries, a) \in Nat
    BY AmountOfType
  <2>2. balance[a] \in Nat /\ commission[a] \in Nat
    BY Zenon DEF CoinsTyped
  <2> QED  BY <2>1, <2>2
<1>3. p \in BlockState
  <2>1. p = [balance |-> [a \in Addresses |-> B(a)], rewards |-> rewards,
             commission |-> [a \in Addresses |-> C(a)], ubi |-> ubi, wq |-> wq, rq |-> rq, ok |-> TRUE]
    BY Zenon DEF PayMatured
  <2>2. [a \in Addresses |-> B(a)] \in [Addresses -> Nat] /\ [a \in Addresses |-> C(a)] \in [Addresses -> Nat]
    BY <1>2
  <2> DEFINE b == [a \in Addresses |-> B(a)]
             c == [a \in Addresses |-> C(a)]
  <2> HIDE DEF p, b, c
  <2> QED  BY <2>1, <2>2, Zenon DEF BlockState, CoinsTyped, b, c
<1> HIDE DEF p
<1>4. \A a \in Addresses : p.balance[a] = B(a) /\ p.commission[a] = C(a)
  <2> HIDE DEF B, C
  <2> QED  BY <1>1
<1> QED  BY <1>1, <1>2, <1>3, <1>4, ZenonT(30) DEF p

\* The last step: the UBI pool becomes a withdrawal to the UBI address.
LEMMA UbiKeeps ==
  ASSUME NEW s \in BlockState, s.ok
  PROVE  LET t == ProcessUbiWithdrawal(s) IN
         /\ t \in BlockState /\ t.ok /\ t.balance = s.balance /\ t.rewards = s.rewards
         /\ t.commission = s.commission /\ t.rq = s.rq
         /\ \A a \in Addresses : Enqueued(t.wq, "unstake", a) = Enqueued(s.wq, "unstake", a)
         /\ t.ubi + Enqueued(t.wq, "ubi", NoAddress) = s.ubi + Enqueued(s.wq, "ubi", NoAddress)
         /\ Grown(s.wq, t.wq, withdrawAddr)
<1> DEFINE t == ProcessUbiWithdrawal(s)
           w == Withdrawal(UbiAddress, s.ubi, "ubi", NoAddress, NoAddress)
<1>1. s.ubi \in Nat /\ s.wq \in Seq(QueueEntry(StakeKinds))
  BY DEF BlockState
<1>2. CASE s.ubi < MinPartialWithdrawalAmount
  <2>1. t = s
    BY <1>2 DEF ProcessUbiWithdrawal
  <2>2. Grown(s.wq, s.wq, withdrawAddr)
    BY <1>1, GrownSame
  <2> QED  BY <2>1, <2>2
<1>3. CASE ~(s.ubi < MinPartialWithdrawalAmount)
  <2>1. t = [s EXCEPT !.ubi = 0, !.wq = Append(@, w)]
    BY <1>3 DEF ProcessUbiWithdrawal
  <2>2. /\ w \in QueueEntry(StakeKinds) /\ w.to = UbiAddress /\ w.amount = s.ubi
        /\ w.kind = "ubi" /\ w.owner = NoAddress
    <3>1. UbiAddress \in Payee /\ NoAddress \in Payee /\ "ubi" \in StakeKinds
      BY DEF Payee, StakeKinds
    <3>2. w \in QueueEntry(StakeKinds)
      BY <1>1, <3>1, WithdrawalType
    <3> QED  BY <3>2 DEF Withdrawal
  <2> HIDE DEF w
  <2>3. Append(s.wq, w) \in Seq(QueueEntry(StakeKinds))
    <3>1. w \in QueueEntry(StakeKinds)
      BY <2>2
    <3> QED  BY <1>1, <3>1
  <2>4. /\ t.ubi = 0 /\ t.wq = Append(s.wq, w) /\ t.ok = s.ok /\ t.balance = s.balance
        /\ t.rewards = s.rewards /\ t.commission = s.commission /\ t.rq = s.rq
    BY <2>1, Zenon DEF BlockState
  <2>5. t \in BlockState
    <3> DEFINE q == Append(s.wq, w)
    <3>1. t = [s EXCEPT !.ubi = 0, !.wq = q] /\ q \in Seq(QueueEntry(StakeKinds))
      BY <2>1, <2>3 DEF BlockState
    <3> HIDE DEF q, t
    <3> QED  BY <3>1, ZenonT(30) DEF BlockState
  <2> HIDE DEF t
  <2>6. \A a \in Addresses : Enqueued(t.wq, "unstake", a) = Enqueued(s.wq, "unstake", a)
    <3> TAKE a \in Addresses
    <3>1. Enqueued(Append(s.wq, w), "unstake", a)
            = Enqueued(s.wq, "unstake", a) + (IF w.kind = "unstake" /\ w.owner = a THEN w.amount ELSE 0)
      BY <1>1, <2>2, EnqueuedAppend
    <3>2. Enqueued(s.wq, "unstake", a) \in Nat
      BY <1>1, EnqueuedType
    <3> QED  BY <2>2, <2>4, <3>1, <3>2
  <2>7. Enqueued(t.wq, "ubi", NoAddress) = Enqueued(s.wq, "ubi", NoAddress) + s.ubi
    <3>1. Enqueued(Append(s.wq, w), "ubi", NoAddress)
            = Enqueued(s.wq, "ubi", NoAddress) + (IF w.kind = "ubi" /\ w.owner = NoAddress THEN w.amount ELSE 0)
      BY <1>1, <2>2, EnqueuedAppend
    <3> QED  BY <2>2, <2>4, <3>1
  <2>8. Enqueued(s.wq, "ubi", NoAddress) \in Nat
    BY <1>1, EnqueuedType
  <2>9. Grown(s.wq, t.wq, withdrawAddr)
    <3>1. w.to = IF w.kind = "ubi" THEN UbiAddress ELSE withdrawAddr[w.owner]
      BY <2>2
    <3>2. w \in QueueEntry(StakeKinds)
      BY <2>2
    <3>3. Grown(s.wq, Append(s.wq, w), withdrawAddr)
      BY <1>1, <3>1, <3>2, GrownAppend, Zenon
    <3> QED  BY <2>4, <3>3
  <2>10. t.ubi + Enqueued(t.wq, "ubi", NoAddress) = s.ubi + Enqueued(s.wq, "ubi", NoAddress)
    BY <1>1, <2>4, <2>7, <2>8
  <2> QED  BY <2>4, <2>5, <2>6, <2>9, <2>10 DEF t
<1> QED  BY <1>2, <1>3

\* What EndBlock does to the coins, after k entries matured and the validators
\* in gone were removed.
EndState(k, gone, visited) ==
  ProcessUbiWithdrawal(ProcessRewardWithdrawals(
    ProcessUnstakeWithdrawals(PayMatured(SubSeq(unbonding, 1, k), gone), SubSeq(unbonding, 1, k)),
    visited))

Mature(k) == SubSeq(unbonding, 1, k)

\* No step fails; principal and rewards are enqueued for their owners; accounts
\* without stake are emptied.
EndStateIs(k, gone, s) ==
  /\ s \in BlockState /\ s.ok
  /\ \A a \in Addresses :
       Enqueued(s.wq, "unstake", a) = Enqueued(wq, "unstake", a) + AmountOf(Mature(k), a)
  /\ s.ubi + Enqueued(s.wq, "ubi", NoAddress) = ubi + Enqueued(wq, "ubi", NoAddress)
  /\ \A a \in Addresses : Account(s, a) = Holdings(a)
  /\ \A a \in Addresses :
       s.commission[a] = (IF a \in gone THEN 0 ELSE commission[a]) \/ s.commission[a] = 0
  /\ Grown(wq, s.wq, withdrawAddr) /\ Grown(rq, s.rq, rewardAddr)
  /\ \A a \in Addresses : (\A v \in Validators : delegation[a][v] = 0) =>
       /\ (\E j \in 1 .. k : unbonding[j].del = a) => s.balance[a] = 0
       /\ (\A j \in 1 .. k : unbonding[j].del # a) =>
            s.balance[a] = balance[a] + (IF a \in gone THEN commission[a] ELSE 0)
  /\ \A j \in 1 .. k :
       unbonding[j].del = unbonding[j].val /\ delegation[unbonding[j].del][unbonding[j].val] = 0
         => s.commission[unbonding[j].val] = 0

\* EndBlock: the three loops one after the other, and the UBI step.
LEMMA EndStateHolds ==
  ASSUME StakingAssumption, Typed, CoinsTyped, StakersHaveAddresses,
         NEW k \in 0 .. Len(unbonding), NEW gone, NEW visited \in Seq(Staked)
  PROVE  EndStateIs(k, gone, EndState(k, gone, visited))
<1> DEFINE m == Mature(k)
           p == PayMatured(m, gone)
           b == UnstakeEntries(p, m)
           c == ResidueEntries(b, m)
           r == ProcessRewardWithdrawals(c, visited)
           u == ProcessUbiWithdrawal(r)
<1>1. /\ m \in Seq(UnbondingEntry) /\ Len(m) = k /\ k \in Nat
      /\ \A j \in 1 .. k : m[j] = unbonding[j] /\ j \in 1 .. Len(unbonding)
      /\ \A j \in 1 .. k : unbonding[j] \in UnbondingEntry
  <2>1. unbonding \in Seq(UnbondingEntry)
    BY DEF Typed
  <2> QED  BY <2>1 DEF Mature
<1>2. MapsTyped /\ delegation \in [Addresses -> [Validators -> Nat]]
  BY DEF Typed
<1>3. \A j \in 1 .. k : withdrawAddr[m[j].del] # NoAddress /\ rewardAddr[m[j].del] # NoAddress
  BY <1>1 DEF StakersHaveAddresses, Has
<1>4. EndState(k, gone, visited) = u
  BY ZenonT(30) DEF EndState, ProcessUnstakeWithdrawals, Mature
<1> HIDE DEF m
<1>5. /\ p \in BlockState /\ p.ok
      /\ p.rewards = rewards /\ p.ubi = ubi /\ p.wq = wq /\ p.rq = rq
      /\ \A a \in Addresses :
           /\ p.balance[a] = balance[a] + AmountOf(m, a) + (IF a \in gone THEN commission[a] ELSE 0)
           /\ p.commission[a] = IF a \in gone THEN 0 ELSE commission[a]
           /\ AmountOf(m, a) <= p.balance[a]
  BY <1>1, PayMaturedIs
<1> HIDE DEF p
<1>6. b \in BlockState /\ Burned(p, m, b)
  BY <1>1, <1>2, <1>3, <1>5, UnstakeLoop, ZenonT(30)
<1>7. b.ok
  BY <1>5, <1>6, Zenon DEF Burned
<1> HIDE DEF b
<1>8. c \in BlockState /\ Cleared(b, m, k, c)
  BY <1>1, <1>2, <1>3, <1>6, <1>7, ResidueLoop, ZenonT(30)
<1>9. c.ok
  BY <1>7, <1>8, Zenon DEF Cleared, Keeps
<1> HIDE DEF c
<1>10. /\ visited \in Seq(Visit) /\ Len(visited) \in Nat
       /\ \A i \in 1 .. Len(visited) :
            /\ visited[i].del \in Addresses /\ visited[i].val \in Validators
            /\ delegation[visited[i].del][visited[i].val] > 0
  <2>1. \A i \in 1 .. Len(visited) : visited[i] \in Staked
    OBVIOUS
  <2>2. Staked \subseteq Visit
    BY DEF Staked
  <2>3. visited \in Seq(Visit)
    BY <2>2
  <2> QED  BY <2>1, <2>3 DEF Staked, Visit
<1>11. \A i \in 1 .. Len(visited) : rewardAddr[visited[i].del] # NoAddress
  <2> TAKE i \in 1 .. Len(visited)
  <2> DEFINE d == visited[i].del
             v == visited[i].val
  <2>1. d \in Addresses /\ v \in Validators /\ delegation[d][v] > 0
    BY <1>10
  <2> HIDE DEF d, v
  <2>2. delegation[d][v] # 0
    BY <1>2, <2>1
  <2>3. rewardAddr[d] # NoAddress
    BY <2>1, <2>2, Zenon DEF StakersHaveAddresses, Has
  <2> QED  BY <2>3 DEF d
<1>12. r \in BlockState /\ Visited(c, visited, Len(visited), r)
  BY <1>2, <1>8, <1>9, <1>10, <1>11, RewardLoop, Zenon
<1>13. r.ok
  BY <1>9, <1>12, Zenon DEF Visited, Keeps
<1> HIDE DEF r
<1>14. /\ u \in BlockState /\ u.ok /\ u.balance = r.balance /\ u.rewards = r.rewards
       /\ u.commission = r.commission /\ u.rq = r.rq
       /\ \A a \in Addresses : Enqueued(u.wq, "unstake", a) = Enqueued(r.wq, "unstake", a)
       /\ u.ubi + Enqueued(u.wq, "ubi", NoAddress) = r.ubi + Enqueued(r.wq, "ubi", NoAddress)
       /\ Grown(r.wq, u.wq, withdrawAddr)
  BY <1>12, <1>13, UbiKeeps, ZenonT(30)
<1> HIDE DEF u
<1>15. Keeps(b, r)
  BY <1>6, <1>8, <1>12, KeepsTrans DEF Cleared, Visited
<1>16. r.wq = b.wq /\ r.ubi = b.ubi /\ b.ubi = ubi /\ b.rq = rq
  BY <1>5, <1>6, <1>15, ZenonT(30) DEF Keeps, Burned
<1>17. \A a \in Addresses : Enqueued(u.wq, "unstake", a) = Enqueued(wq, "unstake", a) + AmountOf(m, a)
  BY <1>5, <1>6, <1>14, <1>16, ZenonT(30) DEF Burned
<1>18. u.ubi + Enqueued(u.wq, "ubi", NoAddress) = ubi + Enqueued(wq, "ubi", NoAddress)
  <2>1. Enqueued(b.wq, "ubi", NoAddress) = Enqueued(wq, "ubi", NoAddress)
    BY <1>5, <1>6 DEF Burned
  <2> QED  BY <1>14, <1>16, <2>1, Zenon
<1>19. \A a \in Addresses : Account(u, a) = Holdings(a)
  <2> TAKE a \in Addresses
  <2>1. Account(u, a) = Account(r, a)
    BY <1>14 DEF Account
  <2>2. Account(r, a) = Account(b, a)
    BY <1>15, Zenon DEF Keeps
  <2>3. /\ b.rewards = rewards /\ b.commission[a] = (IF a \in gone THEN 0 ELSE commission[a])
        /\ b.balance[a] + AmountOf(m, a)
             = balance[a] + AmountOf(m, a) + (IF a \in gone THEN commission[a] ELSE 0)
    BY <1>5, <1>6, Zenon DEF Burned
  <2>4. /\ Sum(b.rewards[a]) \in Nat /\ b.commission[a] \in Nat /\ b.balance[a] \in Nat
        /\ Enqueued(b.rq, "reward", a) \in Nat
    BY <1>6, AccountType
  <2>5. balance[a] \in Nat /\ commission[a] \in Nat /\ AmountOf(m, a) \in Nat
    BY <1>1, AmountOfType DEF CoinsTyped
  <2> DEFINE B == b.balance[a]
             C == b.commission[a]
             B0 == balance[a]
             C0 == commission[a]
             A == AmountOf(m, a)
  <2>6. C + B = C0 + B0
    <3>1. CASE a \in gone
      <4>1. C = 0 /\ B + A = B0 + A + C0
        BY <2>3, <3>1
      <4>2. B \in Nat /\ B0 \in Nat /\ C0 \in Nat /\ A \in Nat
        BY <2>4, <2>5
      <4> HIDE DEF B, C, B0, C0, A
      <4> QED  BY <4>1, <4>2
    <3>2. CASE a \notin gone
      <4>1. C = C0 /\ B + A = B0 + A + 0
        BY <2>3, <3>2, Zenon
      <4> QED  BY <2>4, <2>5, <4>1
    <3> QED  BY <3>1, <3>2
  <2>7. Account(b, a) = Holdings(a)
    <3>1. Sum(b.rewards[a]) = Sum(rewards[a]) /\ Enqueued(b.rq, "reward", a) = Enqueued(rq, "reward", a)
      BY <1>16, <2>3, ZenonT(30)
    <3> DEFINE R == Sum(b.rewards[a])
               Q == Enqueued(b.rq, "reward", a)
    <3>2. Account(b, a) = R + C + B + Q
      BY DEF Account
    <3>3. Holdings(a) = R + C0 + B0 + Q
      BY <3>1 DEF Holdings
    <3>4. R \in Nat /\ C \in Nat /\ B \in Nat /\ Q \in Nat /\ C0 \in Nat /\ B0 \in Nat
      BY <2>4, <2>5
    <3> HIDE DEF R, Q, B, C, B0, C0
    <3> QED  BY <2>6, <3>2, <3>3, <3>4
  <2> QED  BY <2>1, <2>2, <2>7
<1>20. \A a \in Addresses :
         u.commission[a] = (IF a \in gone THEN 0 ELSE commission[a]) \/ u.commission[a] = 0
  <2> TAKE a \in Addresses
  <2>1. b.commission[a] = IF a \in gone THEN 0 ELSE commission[a]
    BY <1>5, <1>6, ZenonT(30) DEF Burned
  <2>2. u.commission[a] = b.commission[a] \/ u.commission[a] = 0
    BY <1>14, <1>15, ZenonT(30) DEF Keeps
  <2> QED  BY <2>1, <2>2
<1>21. Grown(wq, u.wq, withdrawAddr) /\ Grown(rq, u.rq, rewardAddr)
  <2>1. Grown(wq, b.wq, withdrawAddr) /\ Grown(b.wq, u.wq, withdrawAddr)
    BY <1>5, <1>6, <1>14, <1>16, ZenonT(30) DEF Burned
  <2>2. /\ wq \in Seq(QueueEntry(StakeKinds)) /\ b.wq \in Seq(QueueEntry(StakeKinds))
        /\ u.wq \in Seq(QueueEntry(StakeKinds))
    BY <1>6, <1>14, Zenon DEF CoinsTyped, BlockState
  <2>3. Grown(wq, u.wq, withdrawAddr)
    BY <2>1, <2>2, GrownTrans
  <2>4. Grown(rq, u.rq, rewardAddr)
    BY <1>14, <1>15, <1>16, ZenonT(30) DEF Keeps
  <2> QED  BY <2>3, <2>4
<1>22. ASSUME NEW a \in Addresses, \A v \in Validators : delegation[a][v] = 0
       PROVE  /\ (\E j \in 1 .. k : unbonding[j].del = a) => u.balance[a] = 0
              /\ (\A j \in 1 .. k : unbonding[j].del # a) =>
                    u.balance[a] = balance[a] + (IF a \in gone THEN commission[a] ELSE 0)
  <2>1. ASSUME NEW i \in 1 .. Len(visited), visited[i].del = a PROVE FALSE
    <3>1. visited[i].val \in Validators /\ delegation[a][visited[i].val] > 0
      BY <1>10, <2>1, Zenon
    <3>2. delegation[a][visited[i].val] = 0
      BY <1>22, <3>1, Zenon
    <3> QED  BY <3>1, <3>2
  <2>2. u.balance[a] = c.balance[a]
    BY <1>12, <1>14, <2>1, Zenon DEF Visited
  <2>3. ASSUME NEW j \in 1 .. k, unbonding[j].del = a PROVE u.balance[a] = 0
    <3>1. m[j].del = a /\ delegation[m[j].del][m[j].val] = 0
      BY <1>1, <1>22, <2>3, ZenonT(30) DEF UnbondingEntry
    <3> QED  BY <1>8, <2>2, <3>1, ZenonT(30) DEF Cleared
  <2>4. ASSUME \A j \in 1 .. k : unbonding[j].del # a
        PROVE  u.balance[a] = balance[a] + (IF a \in gone THEN commission[a] ELSE 0)
    <3>1. \A j \in 1 .. k : m[j].del # a
      BY <1>1, <2>4, Zenon
    <3>2. c.balance[a] = b.balance[a]
      BY <1>8, <3>1, Zenon DEF Cleared
    <3>3. b.balance[a] + AmountOf(m, a) = p.balance[a]
      BY <1>6, Zenon DEF Burned
    <3>4. AmountOf(m, a) = 0
      BY <1>1, <3>1, AmountOfAbsent, Zenon
    <3>5. b.balance[a] \in Nat /\ balance[a] \in Nat /\ commission[a] \in Nat
      BY <1>6 DEF BlockState, CoinsTyped
    <3>6. p.balance[a] = balance[a] + AmountOf(m, a) + (IF a \in gone THEN commission[a] ELSE 0)
      BY <1>5, Zenon
    <3> QED  BY <2>2, <3>2, <3>3, <3>4, <3>5, <3>6
  <2> QED  BY <2>3, <2>4
<1>23. ASSUME NEW j \in 1 .. k, unbonding[j].del = unbonding[j].val,
              delegation[unbonding[j].del][unbonding[j].val] = 0
       PROVE  u.commission[unbonding[j].val] = 0
  <2>1. c.commission[unbonding[j].val] = 0
    BY <1>1, <1>8, <1>23, ZenonT(30) DEF Cleared
  <2>2. unbonding[j].val \in Addresses
    BY <1>1, StakingAssumption, Zenon DEF UnbondingEntry, StakingAssumption
  <2> QED  BY <1>12, <1>14, <2>1, <2>2, ZenonT(30) DEF Visited, Keeps
<1>24. EndStateIs(k, gone, u)
  BY <1>14, <1>17, <1>18, <1>19, <1>20, <1>21, <1>22, <1>23, Zenon DEF EndStateIs, m
<1> QED  BY <1>4, <1>24
=============================================================================
