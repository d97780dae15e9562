-------------------------- MODULE EvmStakingProofs -------------------------
(***************************************************************************)
(* EndBlock never stops the chain, every token is accounted for, nothing   *)
(* stays behind and every payout goes where its owner chose, for any       *)
(* number of accounts and any order of events.                             *)
(***************************************************************************)
EXTENDS EndBlockLemmas

-----------------------------------------------------------------------------
\* Whoever has stake has both addresses.

\* The first half of the inductive invariant.
AInv == Typed /\ StakersHaveAddresses

\* SetIfAbsent leaves an entry for the address it is given, and every entry
\* there was.
LEMMA SetIfAbsentFills ==
  ASSUME NEW map \in Maps,
         NEW a \in Addresses, NEW to \in Addresses
  PROVE  /\ SetIfAbsent(map, a, to) \in Maps
         /\ SetIfAbsent(map, a, to)[a] # NoAddress
         /\ \A b \in Addresses : map[b] # NoAddress => SetIfAbsent(map, a, to)[b] # NoAddress
BY StakingAssumption DEF SetIfAbsent, Maps

\* InitGenesis fills both maps for the genesis validators.
LEMMA InitSetsAddresses == Init => AInv
<1> SUFFICES ASSUME Init PROVE AInv  OBVIOUS
<1>1. Typed
  BY StakingAssumption DEF Init, Typed, MapsTyped, Maps, UnbondingEntry
<1>2. ASSUME NEW d \in Addresses, NEW v \in Validators, delegation[d][v] # 0
      PROVE  Has(withdrawAddr, rewardAddr, d)
  BY <1>2, StakingAssumption DEF Init, Has
<1> QED  BY <1>1, <1>2 DEF AInv, StakersHaveAddresses, Init

\* A step that leaves the maps alone, or only adds entries, and gives stake
\* to nobody but those with entries, preserves the invariant.
LEMMA AddressesKept ==
  ASSUME AInv, Typed',
         \A d \in Addresses : Has(withdrawAddr, rewardAddr, d) => Has(withdrawAddr', rewardAddr', d),
         \A d \in Addresses, v \in Validators :
           delegation'[d][v] # 0 /\ delegation[d][v] = 0 => Has(withdrawAddr', rewardAddr', d),
         \A i \in 1 .. Len(unbonding') :
           \/ \E j \in 1 .. Len(unbonding) : unbonding'[i] = unbonding[j]
           \/ Has(withdrawAddr', rewardAddr', unbonding'[i].del)
  PROVE  AInv'
<1>1. ASSUME NEW d \in Addresses, NEW v \in Validators, delegation'[d][v] # 0
      PROVE  Has(withdrawAddr', rewardAddr', d)
  BY <1>1 DEF AInv, StakersHaveAddresses
<1>2. ASSUME NEW i \in 1 .. Len(unbonding')
      PROVE  Has(withdrawAddr', rewardAddr', unbonding'[i].del)
  <2>1. ASSUME NEW j \in 1 .. Len(unbonding), unbonding'[i] = unbonding[j]
        PROVE  Has(withdrawAddr', rewardAddr', unbonding'[i].del)
    <3>1. Has(withdrawAddr, rewardAddr, unbonding[j].del)
      BY DEF AInv, StakersHaveAddresses
    <3>2. unbonding[j] \in UnbondingEntry
      BY DEF AInv, Typed, MapsTyped, Maps
    <3>3. unbonding[j].del \in Addresses
      BY <3>2 DEF UnbondingEntry
    <3> QED  BY <2>1, <3>1, <3>3
  <2> QED  BY <2>1
<1> QED  BY <1>1, <1>2 DEF AInv, StakersHaveAddresses, Has

\* Every handler and EndBlock preserve the invariant.
LEMMA AddressesStaySet == AInv /\ [Next]_vars => AInv'
<1> SUFFICES ASSUME AInv, [Next]_vars PROVE AInv'  OBVIOUS
<1>a. /\ Addresses \subseteq Nat /\ Validators \subseteq Addresses
      /\ Named \subseteq Addresses /\ Amounts \subseteq Nat /\ NoAddress \notin Addresses
  BY StakingAssumption
<1> DEFINE Same == UNCHANGED <<delegation, unbonding>>
           Kept == UNCHANGED <<withdrawAddr, rewardAddr>>
<1>0. ASSUME Same, Kept PROVE AInv'
  BY <1>0 DEF AInv, Typed, MapsTyped, Maps, StakersHaveAddresses, Has
<1>1. ASSUME NEW v \in Validators, NEW amount \in Amounts, NEW operator \in Named \cup {v},
             NEW commissionRate, ProcessCreateValidator(v, amount, operator, commissionRate)
      PROVE  AInv'
  <2>1. /\ v \in Addresses /\ operator \in Addresses /\ amount \in Nat
        /\ withdrawAddr' = SetIfAbsent(withdrawAddr, v, v)
        /\ rewardAddr' = SetIfAbsent(rewardAddr, v, operator)
        /\ delegation' = [delegation EXCEPT ![v][v] = @ + amount]
        /\ unbonding' = unbonding
    BY <1>1, <1>a DEF ProcessCreateValidator
  <2>2. /\ Typed'
        /\ Has(withdrawAddr', rewardAddr', v)
        /\ \A d \in Addresses : Has(withdrawAddr, rewardAddr, d) => Has(withdrawAddr', rewardAddr', d)
    <3>1. delegation' \in [Addresses -> [Validators -> Nat]]
      BY <2>1 DEF AInv, Typed, MapsTyped, Maps
    <3>2. /\ withdrawAddr' \in Maps
          /\ withdrawAddr'[v] # NoAddress
          /\ \A d \in Addresses : withdrawAddr[d] # NoAddress => withdrawAddr'[d] # NoAddress
      <4>1. withdrawAddr \in Maps
        BY DEF AInv, Typed, MapsTyped, Maps
      <4>2. withdrawAddr' = SetIfAbsent(withdrawAddr, v, v) /\ v \in Addresses
        BY <2>1
      <4> QED  BY <4>1, <4>2, SetIfAbsentFills, Zenon
    <3>3. /\ rewardAddr' \in Maps
          /\ rewardAddr'[v] # NoAddress
          /\ \A d \in Addresses : rewardAddr[d] # NoAddress => rewardAddr'[d] # NoAddress
      <4>1. rewardAddr \in Maps
        BY DEF AInv, Typed, MapsTyped, Maps
      <4>2. rewardAddr' = SetIfAbsent(rewardAddr, v, operator)
        BY <2>1
      <4>3. v \in Addresses /\ operator \in Addresses
        BY <2>1
      <4>4. /\ SetIfAbsent(rewardAddr, v, operator) \in Maps
            /\ SetIfAbsent(rewardAddr, v, operator)[v] # NoAddress
            /\ \A d \in Addresses : rewardAddr[d] # NoAddress
                                     => SetIfAbsent(rewardAddr, v, operator)[d] # NoAddress
        BY <4>1, <4>3, SetIfAbsentFills, Zenon
      <4> QED  BY <4>2, <4>4
    <3>4. Typed'
      BY <2>1, <3>1, <3>2, <3>3 DEF AInv, Typed, MapsTyped, Maps
    <3> QED  BY <3>2, <3>3, <3>4, Zenon DEF Has
  <2>3. \A d \in Addresses, w \in Validators :
          delegation'[d][w] # 0 /\ delegation[d][w] = 0 => d = v
    BY <2>1 DEF AInv, Typed, MapsTyped, Maps
  <2> QED  BY <2>1, <2>2, <2>3, AddressesKept
<1>2. ASSUME NEW d \in Addresses, NEW v \in Validators, NEW amount \in Amounts,
             ProcessDeposit(d, v, amount)
      PROVE  AInv'
  <2>1. /\ amount \in Nat
        /\ withdrawAddr' = SetIfAbsent(withdrawAddr, d, d)
        /\ rewardAddr' = SetIfAbsent(rewardAddr, d, d)
        /\ delegation' = [delegation EXCEPT ![d][v] = @ + amount]
        /\ unbonding' = unbonding
    BY <1>2, <1>a DEF ProcessDeposit
  <2>2. /\ Typed'
        /\ Has(withdrawAddr', rewardAddr', d)
        /\ \A e \in Addresses : Has(withdrawAddr, rewardAddr, e) => Has(withdrawAddr', rewardAddr', e)
    <3>1. delegation' \in [Addresses -> [Validators -> Nat]]
      BY <2>1 DEF AInv, Typed, MapsTyped, Maps
    <3>2. /\ withdrawAddr' \in Maps
          /\ withdrawAddr'[d] # NoAddress
          /\ \A e \in Addresses : withdrawAddr[e] # NoAddress => withdrawAddr'[e] # NoAddress
      <4>1. withdrawAddr \in Maps
        BY DEF AInv, Typed, MapsTyped, Maps
      <4>2. withdrawAddr' = SetIfAbsent(withdrawAddr, d, d) /\ d \in Addresses
        BY <2>1
      <4> QED  BY <4>1, <4>2, SetIfAbsentFills, Zenon
    <3>3. /\ rewardAddr' \in Maps
          /\ rewardAddr'[d] # NoAddress
          /\ \A e \in Addresses : rewardAddr[e] # NoAddress => rewardAddr'[e] # NoAddress
      <4>1. rewardAddr \in Maps
        BY DEF AInv, Typed, MapsTyped, Maps
      <4>2. rewardAddr' = SetIfAbsent(rewardAddr, d, d) /\ d \in Addresses
        BY <2>1
      <4> QED  BY <4>1, <4>2, SetIfAbsentFills, Zenon
    <3>4. Typed'
      BY <2>1, <3>1, <3>2, <3>3 DEF AInv, Typed, MapsTyped, Maps
    <3> QED  BY <3>2, <3>3, <3>4, Zenon DEF Has
  <2>3. \A e \in Addresses, w \in Validators :
          delegation'[e][w] # 0 /\ delegation[e][w] = 0 => e = d
    BY <2>1 DEF AInv, Typed, MapsTyped, Maps
  <2> QED  BY <2>1, <2>2, <2>3, AddressesKept
\* Only a delegator with stake can have it unbond, and that one has addresses.
<1>3. ASSUME NEW d \in Addresses, NEW v \in Validators, NEW sender,
             NEW actual \in 1 .. delegation[d][v], ProcessWithdraw(d, v, sender, actual)
      PROVE  AInv'
  <2> DEFINE e == [del |-> d, val |-> v, amount |-> actual]
  <2>1. /\ actual \in Nat \ {0} /\ actual <= delegation[d][v] /\ delegation[d][v] \in Nat
        /\ delegation' = [delegation EXCEPT ![d][v] = @ - actual]
        /\ unbonding' = Append(unbonding, e)
        /\ withdrawAddr' = withdrawAddr /\ rewardAddr' = rewardAddr
    BY <1>3 DEF ProcessWithdraw, addresses, AInv, Typed, MapsTyped, Maps
  <2>2. Typed'
    <3>1. e \in UnbondingEntry  BY <2>1 DEF UnbondingEntry
    <3>2. unbonding' \in Seq(UnbondingEntry)  BY <2>1, <3>1 DEF AInv, Typed, MapsTyped, Maps
    <3>3. delegation' \in [Addresses -> [Validators -> Nat]]  BY <2>1 DEF AInv, Typed, MapsTyped, Maps
    <3> QED  BY <2>1, <3>2, <3>3 DEF AInv, Typed, MapsTyped, Maps
  <2>3. Has(withdrawAddr', rewardAddr', d)
    <3>1. delegation[d][v] # 0
      BY <2>1
    <3>2. Has(withdrawAddr, rewardAddr, d)
      BY <3>1 DEF AInv, StakersHaveAddresses
    <3> QED  BY <2>1, <3>2
  <2>4. \A b \in Addresses, w \in Validators :
          ~(delegation'[b][w] # 0 /\ delegation[b][w] = 0)
    BY <2>1 DEF AInv, Typed, MapsTyped, Maps
  <2>5. ASSUME NEW i \in 1 .. Len(unbonding')
        PROVE  \/ \E j \in 1 .. Len(unbonding) : unbonding'[i] = unbonding[j]
               \/ unbonding'[i].del = d
    <3>1. Len(unbonding') = Len(unbonding) + 1 /\ Len(unbonding) \in Nat
      BY <2>1 DEF AInv, Typed, MapsTyped, Maps
    <3>2. CASE i = Len(unbonding) + 1
      BY <2>1, <3>2 DEF AInv, Typed, MapsTyped, Maps
    <3>3. CASE i # Len(unbonding) + 1
      BY <2>1, <3>1, <3>3 DEF AInv, Typed, MapsTyped, Maps
    <3> QED  BY <3>2, <3>3
  <2> HIDE DEF e
  <2> QED  BY <2>1, <2>2, <2>3, <2>4, <2>5, AddressesKept
<1>4. ASSUME NEW d \in Addresses, NEW v \in Validators, NEW sender, NEW dst \in Validators,
             NEW actual \in 1 .. delegation[d][v], ProcessRedelegate(d, v, dst, sender, actual)
      PROVE  AInv'
  <2>1. /\ actual \in Nat \ {0} /\ actual <= delegation[d][v] /\ delegation[d][v] \in Nat
        /\ delegation' = [delegation EXCEPT ![d] = BeginRedelegation(delegation[d], v, dst, actual)]
        /\ unbonding' = unbonding /\ dst # v
        /\ withdrawAddr' = withdrawAddr /\ rewardAddr' = rewardAddr
    BY <1>4 DEF ProcessRedelegate, addresses, AInv, Typed, MapsTyped, Maps
  <2>2. Typed'
    <3>1. delegation[d] \in [Validators -> Nat] /\ delegation[d][v] - actual \in Nat
      BY <2>1 DEF AInv, Typed, MapsTyped, Maps
    <3>2. BeginRedelegation(delegation[d], v, dst, actual) \in [Validators -> Nat]
      BY <2>1, <3>1 DEF BeginRedelegation
    <3>3. delegation' \in [Addresses -> [Validators -> Nat]]
      BY <2>1, <3>2 DEF AInv, Typed, MapsTyped, Maps
    <3> QED  BY <2>1, <3>3 DEF AInv, Typed, MapsTyped, Maps
  <2>3. Has(withdrawAddr', rewardAddr', d)
    <3>1. delegation[d][v] # 0
      BY <2>1
    <3>2. Has(withdrawAddr, rewardAddr, d)
      BY <3>1 DEF AInv, StakersHaveAddresses
    <3> QED  BY <2>1, <3>2
  <2>4. \A b \in Addresses, w \in Validators :
          delegation'[b][w] # 0 /\ delegation[b][w] = 0 => b = d
    BY <2>1 DEF AInv, Typed, MapsTyped, Maps
  <2> QED  BY <2>1, <2>2, <2>3, <2>4, AddressesKept
<1>5. ASSUME NEW v \in Validators, NEW sender, ProcessUnjail(v, sender) PROVE AInv'
  BY <1>5, <1>0 DEF ProcessUnjail, addresses
\* An address event writes an address, never NoAddress, over an entry.
<1>6. ASSUME NEW d \in Addresses, NEW to \in Named,
             ProcessSetWithdrawalAddress(d, to) \/ ProcessSetRewardAddress(d, to)
      PROVE  AInv'
  <2>1. /\ to \in Addresses /\ delegation' = delegation /\ unbonding' = unbonding
        /\ \/ withdrawAddr' = [withdrawAddr EXCEPT ![d] = to] /\ rewardAddr' = rewardAddr
           \/ rewardAddr' = [rewardAddr EXCEPT ![d] = to] /\ withdrawAddr' = withdrawAddr
    BY <1>6, <1>a DEF ProcessSetWithdrawalAddress, ProcessSetRewardAddress, AddressEvent, staking
  <2>2. Typed' /\ \A e \in Addresses : Has(withdrawAddr, rewardAddr, e) => Has(withdrawAddr', rewardAddr', e)
    BY <2>1, <1>a DEF AInv, Typed, MapsTyped, Maps, Has
  <2> QED  BY <2>1, <2>2, AddressesKept
<1>7. ASSUME NEW d \in Addresses, NEW to \in Named,
             ProcessSetOperator(d, to) \/ ProcessUnsetOperator(d)
      PROVE  AInv'
  BY <1>7, <1>0 DEF ProcessSetOperator, ProcessUnsetOperator, AddressEvent, staking
<1>8. ASSUME NEW d \in Addresses, ProcessUnsetOperator(d) PROVE AInv'
  BY <1>8, <1>0 DEF ProcessUnsetOperator, AddressEvent, staking
<1>9. ASSUME NEW v \in Validators, Jail(v) PROVE AInv'
  BY <1>9, <1>0 DEF Jail, addresses
<1>10. CASE AllocateTokens
  BY <1>10, <1>0 DEF AllocateTokens, staking, addresses
\* EndBlock takes entries from the front of unbonding.
<1>11. ASSUME NEW k \in 0 .. Len(unbonding), NEW gone, EndBlock(k, gone) PROVE AInv'
  <2>1. /\ delegation' = delegation /\ withdrawAddr' = withdrawAddr /\ rewardAddr' = rewardAddr
        /\ unbonding' = unbonding \/ unbonding' = SubSeq(unbonding, k + 1, Len(unbonding))
    BY <1>11 DEF EndBlock, staking, addresses
  <2>2. CASE unbonding' = unbonding
    BY <2>1, <2>2, <1>0
  <2>3. CASE unbonding' = SubSeq(unbonding, k + 1, Len(unbonding))
    <3>1. /\ unbonding' \in Seq(UnbondingEntry)
          /\ \A i \in 1 .. Len(unbonding') :
               k + i \in 1 .. Len(unbonding) /\ unbonding'[i] = unbonding[k + i]
      BY <2>3 DEF AInv, Typed, MapsTyped, Maps
    <3>2. Typed'  BY <2>1, <3>1 DEF AInv, Typed, MapsTyped, Maps
    <3> QED  BY <2>1, <3>1, <3>2, AddressesKept
  <2> QED  BY <2>1, <2>2, <2>3
<1>12. CASE UNCHANGED vars
  BY <1>12, <1>0 DEF vars, staking, addresses
<1>13. ASSUME NEW v \in Validators, NEW commissionRate,
              ProcessUpdateValidatorCommission(v, commissionRate)
       PROVE  AInv'
  BY <1>13, <1>0 DEF ProcessUpdateValidatorCommission, addresses
<1> QED
  BY <1>1, <1>2, <1>3, <1>4, <1>5, <1>6, <1>7, <1>8, <1>9, <1>10, <1>11, <1>12, <1>13, ZenonT(30) DEF Next

-----------------------------------------------------------------------------
\* The second half of the inductive invariant: coins.

\* A validator's own stake, delegated or unbonding.
OwnStake(a) ==
  /\ a \in Validators
  /\ \/ delegation[a][a] > 0
     \/ \E i \in 1 .. Len(unbonding) : unbonding[i].del = a /\ unbonding[i].val = a

\* Staking jails a validator without stake of its own, so that only the others
\* earn a commission,
SelfStaked == \A v \in vals \ jailed : delegation[v][v] > 0

\* and an entry is still to mature that pays the commission out.
CommissionHasStake ==
  \A a \in Addresses : commission[a] > 0 /\ a \notin moved => OwnStake(a)

Accounts ==
  /\ CoinsTyped /\ cursor \in [val : Nat, del : Nat]
  /\ vals \in SUBSET Validators /\ jailed \in SUBSET vals
  /\ deposited \in [Addresses -> Nat] /\ earned \in [Addresses -> Nat] /\ inflation \in Nat
  /\ halted = FALSE

CInv ==
  /\ Accounts /\ SelfStaked /\ CommissionHasStake
  /\ PrincipalAccounted /\ RewardsAccounted /\ NothingLeftBehind

\* Validators are finitely many.
LEMMA ValidatorsFinite == IsFiniteSet(Validators) /\ Validators \subseteq Addresses
<1>1. Validators \in SUBSET Addresses /\ IsFiniteSet(Addresses)
  BY StakingAssumption
<1> QED  BY <1>1, FS_Subset

\* A table of numbers, one of its numbers assigned, and what that changes.
Table(f) == f \in [Addresses -> [Validators -> Nat]]
Assigned(f, d, v, n, g) == g = [f EXCEPT ![d][v] = n]
RowChanged(f, d, v, n, g) ==
  /\ g \in [Addresses -> [Validators -> Nat]]
  /\ \A a \in Addresses : a # d => g[a] = f[a]
  /\ \A w \in Validators : g[d][w] = IF w = v THEN n ELSE f[d][w]
  /\ Sum(f[d]) \in Nat /\ Sum(g[d]) \in Nat
  /\ Sum(g[d]) + f[d][v] = Sum(f[d]) + n

\* One number of a table changes: its row's sum changes by as much.
LEMMA Nested ==
  ASSUME NEW f, Table(f), NEW d \in Addresses, NEW v \in Validators, NEW n \in Nat,
         NEW g, Assigned(f, d, v, n, g)
  PROVE  RowChanged(f, d, v, n, g)
<1>a. f \in [Addresses -> [Validators -> Nat]] /\ g = [f EXCEPT ![d][v] = n]
  BY DEF Table, Assigned
<1>1. f[d] \in [Validators -> Nat] /\ f[d][v] \in Nat
  BY <1>a
<1>2. g = [f EXCEPT ![d] = [f[d] EXCEPT ![v] = n]]
  BY <1>a
<1> DEFINE r == [f[d] EXCEPT ![v] = n]
<1>3. r \in [Validators -> Nat] /\ \A w \in Validators : r[w] = IF w = v THEN n ELSE f[d][w]
  BY <1>1
<1>4. /\ Sum(r) = Sum(f[d]) - f[d][v] + n
      /\ f[d][v] <= Sum(f[d])
  BY <1>1, ValidatorsFinite, SumExcept
<1>5. Sum(f[d]) \in Nat /\ Sum(r) \in Nat
  BY <1>1, <1>3, ValidatorsFinite, SumType
<1> HIDE DEF r
<1>6. g[d] = r /\ g \in [Addresses -> [Validators -> Nat]] /\ \A a \in Addresses : a # d => g[a] = f[a]
  BY <1>a, <1>2, <1>3 DEF r
<1>7. Sum(r) + f[d][v] = Sum(f[d]) + n
  BY <1>1, <1>4, <1>5
<1> QED  BY <1>3, <1>5, <1>6, <1>7 DEF RowChanged

\* An owner's stake is stake.
LEMMA OwnStakeIsStake ==
  \A a : OwnStake(a) => HasStake(a)
BY DEF OwnStake, HasStake

\* The same in the next state.
LEMMA OwnStakeIsStakeNext ==
  \A a : OwnStake(a)' => HasStake(a)'
BY DEF OwnStake, HasStake

\* A step that keeps every commission, moves coins only into accounts with
\* stake, and takes the last stake of nobody, leaves nothing behind.
LEMMA BehindKept ==
  ASSUME CommissionHasStake, NothingLeftBehind, commission' = commission,
         \A a \in Addresses :
           /\ HasStake(a) => HasStake(a)'
           /\ OwnStake(a) => OwnStake(a)' \/ a \in moved'
           /\ a \in moved => OwnStake(a)' \/ a \in moved'
           /\ balance'[a] = balance[a] \/ HasStake(a)'
  PROVE  CommissionHasStake' /\ NothingLeftBehind'
<1>1. ASSUME NEW a \in Addresses, commission'[a] > 0, a \notin moved'
      PROVE  OwnStake(a)'
  <2>1. CASE a \in moved
    BY <1>1, <2>1
  <2>2. CASE a \notin moved
    <3>1. OwnStake(a)
      BY <1>1, <2>2 DEF CommissionHasStake
    <3> QED  BY <1>1, <3>1
  <2> QED  BY <2>1, <2>2
<1>2. ASSUME NEW a \in Addresses, ~HasStake(a)', a \notin moved'
      PROVE  balance'[a] = 0 /\ commission'[a] = 0
  <2>1. ~OwnStake(a)'
    BY <1>2, OwnStakeIsStakeNext
  <2>2. a \notin moved
    BY <1>2, <2>1
  <2>3. ~HasStake(a)
    BY <1>2
  <2>4. balance[a] = 0 /\ commission[a] = 0
    BY <2>2, <2>3 DEF NothingLeftBehind
  <2> QED  BY <1>2, <2>4
<1> QED  BY <1>1, <1>2 DEF CommissionHasStake, NothingLeftBehind

\* Stake that is added is stake that was deposited.
LEMMA PrincipalAdded ==
  ASSUME Typed, Accounts, PrincipalAccounted, NEW d \in Addresses, NEW v \in Validators,
         NEW amount \in Nat,
         delegation' = [delegation EXCEPT ![d][v] = @ + amount],
         deposited' = [deposited EXCEPT ![d] = @ + amount],
         unbonding' = unbonding, wq' = wq
  PROVE  PrincipalAccounted' /\ deposited' \in [Addresses -> Nat]
<1>1. /\ delegation \in [Addresses -> [Validators -> Nat]] /\ unbonding \in Seq(UnbondingEntry)
      /\ deposited \in [Addresses -> Nat] /\ wq \in Seq(QueueEntry(StakeKinds))
  BY DEF Typed, Accounts, CoinsTyped
<1>2. delegation[d][v] \in Nat /\ delegation[d][v] + amount \in Nat
  BY <1>1
<1>3. delegation' = [delegation EXCEPT ![d][v] = delegation[d][v] + amount]
  BY <1>1
<1>4. /\ \A a \in Addresses : a # d => delegation'[a] = delegation[a]
      /\ Sum(delegation[d]) \in Nat /\ Sum(delegation'[d]) \in Nat
      /\ Sum(delegation'[d]) + delegation[d][v] = Sum(delegation[d]) + (delegation[d][v] + amount)
  <2>1. /\ Table(delegation)
        /\ Assigned(delegation, d, v, delegation[d][v] + amount, delegation')
    BY <1>1, <1>3 DEF Table, Assigned
  <2>2. RowChanged(delegation, d, v, delegation[d][v] + amount, delegation')
    BY <1>2, <2>1, Nested
  <2> QED  BY <2>2 DEF RowChanged
<1>5. Sum(delegation'[d]) = Sum(delegation[d]) + amount
  BY <1>2, <1>4
<1>6. ASSUME NEW a \in Addresses
      PROVE  deposited'[a] = Sum(delegation'[a]) + AmountOf(unbonding', a) + Enqueued(wq', "unstake", a)
  <2> DEFINE U == AmountOf(unbonding, a)
             Q == Enqueued(wq, "unstake", a)
  <2>1. U \in Nat /\ Q \in Nat
    BY <1>1, AmountOfType, EnqueuedType
  <2>2. deposited[a] = Sum(delegation[a]) + U + Q
    BY DEF PrincipalAccounted
  <2>3. AmountOf(unbonding', a) = U /\ Enqueued(wq', "unstake", a) = Q
    OBVIOUS
  <2> HIDE DEF U, Q
  <2>4. CASE a = d
    <3>1. deposited'[d] = deposited[d] + amount
      BY <1>1
    <3> QED  BY <1>4, <1>5, <2>1, <2>2, <2>3, <2>4, <3>1
  <2>5. CASE a # d
    <3>1. deposited'[a] = deposited[a]
      BY <1>1, <2>5
    <3> QED  BY <1>4, <2>2, <2>3, <2>5, <3>1
  <2> QED  BY <2>4, <2>5
<1>7. deposited' \in [Addresses -> Nat]
  BY <1>1
<1> QED  BY <1>6, <1>7 DEF PrincipalAccounted

\* Claimed rewards are in the account.
LEMMA RewardsClaimed ==
  ASSUME Accounts, RewardsAccounted, NEW d \in Addresses, NEW v \in Validators, ClaimRewards(d, v),
         rq' = rq, wq' = wq, earned' = earned, inflation' = inflation
  PROVE  /\ RewardsAccounted' /\ CoinsTyped'
         /\ \A a \in Addresses : a # d => balance'[a] = balance[a]
<1>1. /\ rewards \in [Addresses -> [Validators -> Nat]] /\ balance \in [Addresses -> Nat]
      /\ commission \in [Addresses -> Nat] /\ rq \in Seq(QueueEntry(RewardKinds))
  BY DEF Accounts, CoinsTyped
<1>2. /\ balance' = [balance EXCEPT ![d] = @ + rewards[d][v]]
      /\ rewards' = [rewards EXCEPT ![d][v] = 0] /\ commission' = commission /\ ubi' = ubi
  BY DEF ClaimRewards
<1>3. /\ rewards' \in [Addresses -> [Validators -> Nat]]
      /\ \A a \in Addresses : a # d => rewards'[a] = rewards[a]
      /\ Sum(rewards[d]) \in Nat /\ Sum(rewards'[d]) \in Nat
      /\ Sum(rewards'[d]) + rewards[d][v] = Sum(rewards[d]) + 0
  <2>1. Table(rewards) /\ Assigned(rewards, d, v, 0, rewards')
    BY <1>1, <1>2 DEF Table, Assigned
  <2>2. RowChanged(rewards, d, v, 0, rewards')
    BY <2>1, Nested
  <2> QED  BY <2>2 DEF RowChanged
<1>4. rewards[d][v] \in Nat
  BY <1>1
<1>5. balance' \in [Addresses -> Nat] /\ balance'[d] = balance[d] + rewards[d][v]
  BY <1>1, <1>2, <1>4
<1>6. \A a \in Addresses : a # d => balance'[a] = balance[a]
  BY <1>1, <1>2
<1>7. ASSUME NEW a \in Addresses
      PROVE  earned'[a] = Sum(rewards'[a]) + commission'[a] + balance'[a] + Enqueued(rq', "reward", a)
  <2> DEFINE Q == Enqueued(rq, "reward", a)
  <2>1. Q \in Nat /\ commission[a] \in Nat /\ balance[a] \in Nat
    BY <1>1, EnqueuedType
  <2>2. earned[a] = Sum(rewards[a]) + commission[a] + balance[a] + Q
    BY DEF RewardsAccounted
  <2>3. Enqueued(rq', "reward", a) = Q /\ commission'[a] = commission[a] /\ earned'[a] = earned[a]
    BY <1>2
  <2> HIDE DEF Q
  <2>4. CASE a = d
    <3>1. /\ Sum(rewards[a]) \in Nat /\ Sum(rewards'[a]) \in Nat
          /\ Sum(rewards'[a]) + rewards[d][v] = Sum(rewards[a]) + 0
          /\ balance'[a] = balance[a] + rewards[d][v]
      BY <1>3, <1>5, <2>4, Zenon
    <3> QED  BY <1>4, <2>1, <2>2, <2>3, <3>1
  <2>5. CASE a # d
    BY <1>3, <1>6, <2>2, <2>3, <2>5, Zenon
  <2> QED  BY <2>4, <2>5
<1>8. inflation' = Sum(earned') + ubi' + Enqueued(wq', "ubi", NoAddress)
  BY <1>2 DEF RewardsAccounted
<1>9. CoinsTyped'
  BY <1>1, <1>2, <1>3, <1>5, ZenonT(30) DEF Accounts, CoinsTyped
<1>10. RewardsAccounted'
  BY <1>7, <1>8 DEF RewardsAccounted
<1> QED  BY <1>6, <1>9, <1>10

\* More stake: whoever had some has some, and the delegator does.
LEMMA StakeAdded ==
  ASSUME Typed, NEW d \in Addresses, NEW v \in Validators, NEW amount \in Nat \ {0},
         delegation' = [delegation EXCEPT ![d][v] = @ + amount], unbonding' = unbonding
  PROVE  /\ \A a \in Addresses : HasStake(a) => HasStake(a)'
         /\ \A a \in Addresses : OwnStake(a) => OwnStake(a)'
         /\ HasStake(d)' /\ (d = v => OwnStake(v)')
         /\ \A w \in Validators : delegation[w][w] > 0 => delegation'[w][w] > 0
<1>1. delegation \in [Addresses -> [Validators -> Nat]]
  BY DEF Typed
<1>2. /\ \A a \in Addresses, w \in Validators : delegation[a][w] > 0 => delegation'[a][w] > 0
      /\ delegation'[d][v] > 0
  BY <1>1
<1>3. Validators \subseteq Addresses
  BY ValidatorsFinite
<1>4. \A a \in Addresses : HasStake(a) => HasStake(a)'
  BY <1>2 DEF HasStake
<1>5. \A a \in Addresses : OwnStake(a) => OwnStake(a)'
  BY <1>2 DEF OwnStake
<1>6. HasStake(d)' /\ (d = v => OwnStake(v)')
  BY <1>2 DEF HasStake, OwnStake
<1> QED  BY <1>2, <1>3, <1>4, <1>5, <1>6

\* What makes the constants' members usable.
LEMMA InputsTyped ==
  /\ Validators \subseteq Addresses /\ Named \subseteq Addresses
  /\ \A amount \in Amounts : amount \in Nat \ {0}
BY StakingAssumption

\* A new validator.
LEMMA CreateKeepsBooks ==
  ASSUME AInv, CInv, NEW v \in Validators, NEW amount \in Amounts, NEW operator, NEW r,
         ProcessCreateValidator(v, amount, operator, r)
  PROVE  CInv'
<1>1. v \in Addresses /\ amount \in Nat \ {0} /\ Typed /\ Accounts
  BY InputsTyped DEF AInv, CInv
<1>2. /\ vals' = vals \cup {v} /\ moved' = moved \ {v} /\ jailed' = jailed
      /\ delegation' = [delegation EXCEPT ![v][v] = @ + amount]
      /\ deposited' = [deposited EXCEPT ![v] = @ + amount]
      /\ unbonding' = unbonding /\ balance' = balance
      /\ rewards' = rewards /\ commission' = commission /\ ubi' = ubi
      /\ wq' = wq /\ rq' = rq /\ cursor' = cursor /\ halted' = halted
      /\ inflation' = inflation /\ earned' = earned
  BY DEF ProcessCreateValidator, distribution, queues
<1>3. PrincipalAccounted' /\ deposited' \in [Addresses -> Nat]
  BY <1>1, <1>2, PrincipalAdded, Zenon DEF CInv
<1>4. /\ \A a \in Addresses : HasStake(a) => HasStake(a)'
      /\ \A a \in Addresses : OwnStake(a) => OwnStake(a)'
      /\ OwnStake(v)'
      /\ \A w \in Validators : delegation[w][w] > 0 => delegation'[w][w] > 0
  BY <1>1, <1>2, StakeAdded, Zenon
<1>5. Accounts'
  BY <1>2, <1>3 DEF CInv, Accounts, CoinsTyped
<1>6. SelfStaked'
  <2>1. delegation'[v][v] > 0
    <3>1. delegation[v][v] \in Nat /\ delegation'[v][v] = delegation[v][v] + amount
      BY <1>1, <1>2 DEF Typed
    <3> QED  BY <1>1, <3>1
  <2> QED  BY <1>2, <1>4, <2>1 DEF CInv, Accounts, SelfStaked
<1>7. CommissionHasStake' /\ NothingLeftBehind'
  <2>1. \A a \in Addresses :
           /\ HasStake(a) => HasStake(a)'
           /\ OwnStake(a) => OwnStake(a)' \/ a \in moved'
           /\ a \in moved => OwnStake(a)' \/ a \in moved'
           /\ balance'[a] = balance[a] \/ HasStake(a)'
    BY <1>2, <1>4
  <2> QED  BY <1>2, <2>1, BehindKept DEF CInv
<1>8. RewardsAccounted'
  BY <1>2 DEF CInv, RewardsAccounted
<1> QED  BY <1>3, <1>5, <1>6, <1>7, <1>8 DEF CInv

\* A deposit.
LEMMA DepositKeepsBooks ==
  ASSUME AInv, CInv, NEW d \in Addresses, NEW v \in Validators, NEW amount \in Amounts,
         ProcessDeposit(d, v, amount)
  PROVE  CInv'
<1>1. amount \in Nat \ {0} /\ Typed /\ Accounts
  BY InputsTyped DEF AInv, CInv
<1>2. /\ vals' = vals /\ moved' = (IF d = v THEN moved \ {v} ELSE moved) /\ jailed' = jailed
      /\ delegation' = [delegation EXCEPT ![d][v] = @ + amount]
      /\ deposited' = [deposited EXCEPT ![d] = @ + amount]
      /\ ClaimRewards(d, v) /\ commission' = commission
      /\ unbonding' = unbonding
      /\ wq' = wq /\ rq' = rq /\ cursor' = cursor /\ halted' = halted
      /\ inflation' = inflation /\ earned' = earned
  BY DEF ProcessDeposit, queues, ClaimRewards
<1>3. PrincipalAccounted' /\ deposited' \in [Addresses -> Nat]
  BY <1>1, <1>2, PrincipalAdded, Zenon DEF CInv
<1>4. /\ \A a \in Addresses : HasStake(a) => HasStake(a)'
      /\ \A a \in Addresses : OwnStake(a) => OwnStake(a)'
      /\ HasStake(d)' /\ (d = v => OwnStake(v)')
      /\ \A w \in Validators : delegation[w][w] > 0 => delegation'[w][w] > 0
  BY <1>1, <1>2, StakeAdded, Zenon
<1>5. RewardsAccounted' /\ CoinsTyped' /\ \A a \in Addresses : a # d => balance'[a] = balance[a]
  BY <1>1, <1>2, RewardsClaimed DEF CInv
<1>6. Accounts'
  BY <1>1, <1>2, <1>3, <1>5, Zenon DEF Accounts
<1>7. SelfStaked'
  BY <1>2, <1>4 DEF CInv, Accounts, SelfStaked
<1>8. CommissionHasStake' /\ NothingLeftBehind'
  <2>1. \A a \in Addresses :
           /\ HasStake(a) => HasStake(a)'
           /\ OwnStake(a) => OwnStake(a)' \/ a \in moved'
           /\ a \in moved => OwnStake(a)' \/ a \in moved'
           /\ balance'[a] = balance[a] \/ HasStake(a)'
    BY <1>2, <1>4, <1>5, Zenon
  <2> QED  BY <1>2, <2>1, BehindKept DEF CInv
<1> QED  BY <1>3, <1>5, <1>6, <1>7, <1>8 DEF CInv

\* An undelegation: what leaves the delegation is in the new entry.
LEMMA WithdrawKeepsBooks ==
  ASSUME AInv, AInv', CInv, NEW d \in Addresses, NEW v \in Validators, NEW sender,
         NEW actual \in 1 .. delegation[d][v], ProcessWithdraw(d, v, sender, actual)
  PROVE  CInv'
<1> DEFINE e == [del |-> d, val |-> v, amount |-> actual]
<1>1. /\ Typed /\ Accounts /\ delegation \in [Addresses -> [Validators -> Nat]]
      /\ unbonding \in Seq(UnbondingEntry) /\ delegation' \in [Addresses -> [Validators -> Nat]]
      /\ deposited \in [Addresses -> Nat] /\ wq \in Seq(QueueEntry(StakeKinds))
  BY Zenon DEF AInv, CInv, Typed, Accounts, CoinsTyped
<1>2. /\ vals' = vals /\ moved' = moved
      /\ jailed' = jailed \cup {w \in vals : delegation'[w][w] = 0}
      /\ delegation' = [delegation EXCEPT ![d][v] = @ - actual]
      /\ unbonding' = Append(unbonding, e)
      /\ ClaimRewards(d, v) /\ commission' = commission
      /\ wq' = wq /\ rq' = rq /\ cursor' = cursor /\ halted' = halted
      /\ inflation' = inflation /\ earned' = earned /\ deposited' = deposited
  BY DEF ProcessWithdraw, queues, history, ClaimRewards, JailWithoutSelfStake
<1>3. /\ actual \in Nat /\ delegation[d][v] \in Nat /\ actual <= delegation[d][v]
      /\ delegation[d][v] - actual \in Nat /\ e \in UnbondingEntry
  BY <1>1 DEF UnbondingEntry
<1>4. RowChanged(delegation, d, v, delegation[d][v] - actual, delegation')
  <2>1. Table(delegation) /\ Assigned(delegation, d, v, delegation[d][v] - actual, delegation')
    BY <1>1, <1>2, Zenon DEF Table, Assigned
  <2> QED  BY <1>3, <2>1, Nested, Zenon
<1>5. PrincipalAccounted'
  <2>1. /\ \A a \in Addresses : a # d => delegation'[a] = delegation[a]
        /\ Sum(delegation[d]) \in Nat /\ Sum(delegation'[d]) \in Nat
        /\ Sum(delegation'[d]) + delegation[d][v] = Sum(delegation[d]) + (delegation[d][v] - actual)
    BY <1>4, Zenon DEF RowChanged
  <2>2. Sum(delegation'[d]) + actual = Sum(delegation[d])
    BY <1>3, <2>1
  <2>3. ASSUME NEW a \in Addresses
        PROVE  deposited'[a] = Sum(delegation'[a]) + AmountOf(unbonding', a) + Enqueued(wq', "unstake", a)
    <3> DEFINE U == AmountOf(unbonding, a)
               Q == Enqueued(wq, "unstake", a)
    <3>1. U \in Nat /\ Q \in Nat
      BY <1>1, AmountOfType, EnqueuedType, Zenon
    <3>2. deposited[a] = Sum(delegation[a]) + U + Q
      BY DEF CInv, PrincipalAccounted
    <3>3. AmountOf(Append(unbonding, e), a) = U + (IF e.del = a THEN e.amount ELSE 0)
      BY <1>1, <1>3, AmountOfAppend, Zenon
    <3>4. AmountOf(unbonding', a) = U + (IF d = a THEN actual ELSE 0) /\ Enqueued(wq', "unstake", a) = Q
      BY <1>2, <3>3, ZenonT(30)
    <3> HIDE DEF U, Q
    <3>5. CASE a = d
      <4>1. AmountOf(unbonding', a) = U + actual /\ Enqueued(wq', "unstake", a) = Q
        BY <3>4, <3>5, Zenon
      <4>2. deposited'[a] = deposited[a] /\ actual \in Nat /\ Sum(delegation'[d]) \in Nat
        BY <1>2, <1>3, <2>1, Zenon
      <4> QED  BY <2>2, <3>1, <3>2, <3>5, <4>1, <4>2
    <3>6. CASE a # d
      <4>1. AmountOf(unbonding', a) = U
        BY <3>1, <3>4, <3>6
      <4> QED  BY <1>2, <2>1, <3>2, <3>4, <3>6, <4>1, ZenonT(30)
    <3> QED  BY <3>5, <3>6
  <2> QED  BY <2>3, Zenon DEF PrincipalAccounted
<1>6. RewardsAccounted' /\ CoinsTyped' /\ \A a \in Addresses : a # d => balance'[a] = balance[a]
  BY <1>1, <1>2, RewardsClaimed, ZenonT(30) DEF CInv
<1>7. Accounts'
  BY <1>1, <1>2, <1>6 DEF Accounts
<1>8. SelfStaked'
  <2>1. \A w \in Validators : delegation'[w][w] \in Nat
    BY <1>1, ValidatorsFinite
  <2>2. vals \in SUBSET Validators
    BY <1>1, Zenon DEF Accounts
  <2>3. vals' = vals /\ jailed' = jailed \cup {w \in vals : delegation'[w][w] = 0}
    BY <1>2, Zenon
  <2> QED  BY <2>1, <2>2, <2>3 DEF SelfStaked
<1>9. /\ Len(unbonding') \in 1 .. Len(unbonding') /\ unbonding'[Len(unbonding')] = e
      /\ \A i \in 1 .. Len(unbonding) : i \in 1 .. Len(unbonding') /\ unbonding'[i] = unbonding[i]
  <2> HIDE DEF e
  <2>1. unbonding \in Seq(UnbondingEntry) /\ e \in UnbondingEntry /\ unbonding' = Append(unbonding, e)
    BY <1>1, <1>2, <1>3, Zenon
  <2> QED  BY <2>1, Appended
<1>10. unbonding'[Len(unbonding')].del = d /\ unbonding'[Len(unbonding')].val = v
  BY <1>9
<1>11. HasStake(d)' /\ (d = v => OwnStake(d)')
  BY <1>9, <1>10, Zenon DEF HasStake, OwnStake
<1>12. ASSUME NEW a \in Addresses, a # d
       PROVE  (HasStake(a) => HasStake(a)') /\ (OwnStake(a) => OwnStake(a)')
  <2>1. delegation'[a] = delegation[a]
    BY <1>4, <1>12 DEF RowChanged
  <2> QED  BY <1>9, <2>1, Zenon DEF HasStake, OwnStake
<1>13. OwnStake(d) => OwnStake(d)'
  <2>1. CASE d # v
    <3>1. d \in Validators => delegation'[d][d] = delegation[d][d]
      BY <1>4, <2>1, Zenon DEF RowChanged
    <3> QED  BY <1>9, <3>1, Zenon DEF OwnStake
  <2> QED  BY <1>11, <2>1, Zenon
<1>14. CommissionHasStake' /\ NothingLeftBehind'
  <2>1. \A a \in Addresses :
           /\ HasStake(a) => HasStake(a)'
           /\ OwnStake(a) => OwnStake(a)' \/ a \in moved'
           /\ a \in moved => OwnStake(a)' \/ a \in moved'
           /\ balance'[a] = balance[a] \/ HasStake(a)'
    <3> TAKE a \in Addresses
    <3>1. CASE a = d
      BY <1>2, <1>11, <1>13, <3>1, Zenon
    <3>2. CASE a # d
      BY <1>2, <1>6, <1>12, <3>2, Zenon
    <3> QED  BY <3>1, <3>2, Zenon
  <2> QED  BY <1>2, <2>1, BehindKept, Zenon DEF CInv
<1> QED  BY <1>5, <1>6, <1>7, <1>8, <1>14, Zenon DEF CInv

\* Two numbers of a row change by opposite amounts.
LEMMA RowMoved ==
  ASSUME NEW f \in [Validators -> Nat], NEW src \in Validators, NEW dst \in Validators, src # dst,
         NEW n \in Nat, n <= f[src]
  PROVE  LET g == BeginRedelegation(f, src, dst, n) IN
         /\ g \in [Validators -> Nat] /\ Sum(g) = Sum(f)
         /\ g[src] = f[src] - n /\ g[dst] = f[dst] + n
         /\ \A w \in Validators \ {src, dst} : g[w] = f[w]
<1> DEFINE g == BeginRedelegation(f, src, dst, n)
           h == [f EXCEPT ![src] = f[src] - n]
<1>1. f[src] \in Nat /\ f[dst] \in Nat /\ f[src] - n \in Nat /\ f[dst] + n \in Nat
  OBVIOUS
<1>2. h \in [Validators -> Nat] /\ h[dst] = f[dst] /\ g = [h EXCEPT ![dst] = f[dst] + n]
  BY <1>1 DEF BeginRedelegation
<1>3. /\ g \in [Validators -> Nat] /\ g[src] = f[src] - n /\ g[dst] = f[dst] + n
      /\ \A w \in Validators \ {src, dst} : g[w] = f[w]
  BY <1>1 DEF BeginRedelegation
<1>4. Sum(h) = Sum(f) - f[src] + (f[src] - n)
  BY <1>1, ValidatorsFinite, SumExcept, Zenon
<1> HIDE DEF h
<1>5. Sum(g) = Sum(h) - h[dst] + (f[dst] + n)
  <2> DEFINE m == f[dst] + n
  <2>1. m \in Nat /\ h \in [Validators -> Nat] /\ IsFiniteSet(Validators)
    BY <1>1, <1>2, ValidatorsFinite
  <2>2. g = [h EXCEPT ![dst] = m]
    BY <1>2
  <2> HIDE DEF g, m
  <2>3. Sum([h EXCEPT ![dst] = m]) = Sum(h) - h[dst] + m
    BY <2>1, SumExcept, Zenon
  <2> QED  BY <2>2, <2>3 DEF m
<1>6. Sum(f) \in Nat /\ Sum(h) \in Nat
  BY <1>2, ValidatorsFinite, SumType
<1> HIDE DEF g
<1>7. Sum(g) = Sum(f)
  BY <1>1, <1>2, <1>4, <1>5, <1>6
<1> QED  BY <1>3, <1>7 DEF g

\* Two numbers of a row are set to zero.
LEMMA RowClaimed ==
  ASSUME NEW f \in [Validators -> Nat], NEW src \in Validators, NEW dst \in Validators, src # dst
  PROVE  LET g == [f EXCEPT ![src] = 0, ![dst] = 0] IN
         g \in [Validators -> Nat] /\ Sum(g) + f[src] + f[dst] = Sum(f) /\ Sum(g) \in Nat
<1> DEFINE h == [f EXCEPT ![src] = 0]
           g == [f EXCEPT ![src] = 0, ![dst] = 0]
<1>1. h \in [Validators -> Nat] /\ h[dst] = f[dst] /\ g = [h EXCEPT ![dst] = 0] /\ g \in [Validators -> Nat]
  OBVIOUS
<1>0. IsFiniteSet(Validators) /\ 0 \in Nat
  BY ValidatorsFinite
<1> HIDE DEF g
<1>2. Sum(h) = Sum(f) - f[src] + 0
  <2>1. Sum([f EXCEPT ![src] = 0]) = Sum(f) - f[src] + 0
    BY <1>0, SumExcept, Zenon
  <2> QED  BY <2>1
<1> HIDE DEF h
<1>3. Sum(g) = Sum(h) - h[dst] + 0
  <2>1. h \in [Validators -> Nat]
    BY <1>1
  <2>2. Sum([h EXCEPT ![dst] = 0]) = Sum(h) - h[dst] + 0
    BY <1>0, <2>1, SumExcept, Zenon
  <2> QED  BY <1>1, <2>2
<1>4. Sum(f) \in Nat /\ Sum(h) \in Nat /\ Sum(g) \in Nat /\ f[src] \in Nat /\ f[dst] \in Nat
  BY <1>1, ValidatorsFinite, SumType, ZenonT(30)
<1>5. Sum(g) + f[src] + f[dst] = Sum(f)
  BY <1>1, <1>2, <1>3, <1>4
<1> QED  BY <1>1, <1>4, <1>5 DEF g

\* A redelegation moves stake, and claims the rewards of both delegations.
LEMMA RedelegateKeepsBooks ==
  ASSUME AInv, AInv', CInv, NEW d \in Addresses, NEW src \in Validators, NEW dst \in Validators,
         NEW sender, NEW actual \in 1 .. delegation[d][src],
         ProcessRedelegate(d, src, dst, sender, actual)
  PROVE  CInv'
<1>1. /\ delegation \in [Addresses -> [Validators -> Nat]] /\ Accounts
      /\ delegation' \in [Addresses -> [Validators -> Nat]]
      /\ rewards \in [Addresses -> [Validators -> Nat]] /\ balance \in [Addresses -> Nat]
      /\ commission \in [Addresses -> Nat] /\ rq \in Seq(QueueEntry(RewardKinds))
  BY ZenonT(30) DEF AInv, CInv, Typed, Accounts, CoinsTyped
<1> DEFINE row == BeginRedelegation(delegation[d], src, dst, actual)
           claimed == [rewards[d] EXCEPT ![src] = 0, ![dst] = 0]
<1>2. /\ vals' = vals /\ src # dst
      /\ moved' = (IF d = src /\ delegation'[d][src] = 0 THEN moved \cup {d}
                   ELSE IF d = dst THEN moved \ {d} ELSE moved)
      /\ jailed' = jailed \cup {w \in vals : delegation'[w][w] = 0}
      /\ delegation' = [delegation EXCEPT ![d] = row]
      /\ balance' = [balance EXCEPT ![d] = @ + rewards[d][src] + rewards[d][dst]]
      /\ rewards' = [rewards EXCEPT ![d][src] = 0, ![d][dst] = 0]
      /\ unbonding' = unbonding /\ commission' = commission /\ ubi' = ubi
      /\ wq' = wq /\ rq' = rq /\ cursor' = cursor /\ halted' = halted
      /\ inflation' = inflation /\ earned' = earned /\ deposited' = deposited
  BY DEF ProcessRedelegate, queues, JailWithoutSelfStake
<1>3. actual \in Nat /\ actual > 0 /\ actual <= delegation[d][src]
      /\ delegation[d] \in [Validators -> Nat] /\ delegation[d][dst] \in Nat /\ delegation[d][src] \in Nat
  BY <1>1
<1>4. /\ row \in [Validators -> Nat] /\ Sum(row) = Sum(delegation[d])
      /\ row[src] = delegation[d][src] - actual /\ row[dst] = delegation[d][dst] + actual
      /\ \A w \in Validators \ {src, dst} : row[w] = delegation[d][w]
  BY <1>2, <1>3, RowMoved
<1>5. rewards[d] \in [Validators -> Nat]
  BY <1>1
<1>6. claimed \in [Validators -> Nat] /\ Sum(claimed) \in Nat
      /\ Sum(claimed) + rewards[d][src] + rewards[d][dst] = Sum(rewards[d])
  BY <1>2, <1>5, RowClaimed
<1>7. rewards' = [rewards EXCEPT ![d] = claimed]
  BY <1>1, <1>2, Zenon
<1> HIDE DEF row, claimed
<1>8. delegation'[d] = row /\ \A a \in Addresses : a # d => delegation'[a] = delegation[a]
  BY <1>1, <1>2
<1>9. /\ rewards' \in [Addresses -> [Validators -> Nat]] /\ rewards'[d] = claimed
      /\ \A a \in Addresses : a # d => rewards'[a] = rewards[a]
  BY <1>1, <1>6, <1>7, Zenon
<1>10. rewards[d][src] \in Nat /\ rewards[d][dst] \in Nat
  BY <1>5, Zenon
<1>11. /\ balance' \in [Addresses -> Nat] /\ balance'[d] = balance[d] + rewards[d][src] + rewards[d][dst]
       /\ \A a \in Addresses : a # d => balance'[a] = balance[a]
  BY <1>1, <1>2, <1>10
<1>12. Accounts'
  BY <1>1, <1>2, <1>9, <1>11, ZenonT(30) DEF Accounts, CoinsTyped
<1>13. PrincipalAccounted'
  <2>1. ASSUME NEW a \in Addresses
        PROVE  deposited'[a] = Sum(delegation'[a]) + AmountOf(unbonding', a) + Enqueued(wq', "unstake", a)
    <3>1. Sum(delegation'[a]) = Sum(delegation[a])
      BY <1>4, <1>8, Zenon
    <3>2. deposited[a] = Sum(delegation[a]) + AmountOf(unbonding, a) + Enqueued(wq, "unstake", a)
      BY DEF CInv, PrincipalAccounted
    <3> QED  BY <1>2, <3>1, <3>2, Zenon
  <2> QED  BY <2>1, Zenon DEF PrincipalAccounted
<1>14. RewardsAccounted'
  <2>1. ASSUME NEW a \in Addresses
        PROVE  earned'[a] = Sum(rewards'[a]) + commission'[a] + balance'[a] + Enqueued(rq', "reward", a)
    <3> DEFINE Q == Enqueued(rq, "reward", a)
    <3>1. Q \in Nat /\ commission[a] \in Nat /\ balance[a] \in Nat
      BY <1>1, EnqueuedType, Zenon
    <3>2. earned[a] = Sum(rewards[a]) + commission[a] + balance[a] + Q
      BY DEF CInv, RewardsAccounted
    <3>3. Enqueued(rq', "reward", a) = Q /\ commission'[a] = commission[a] /\ earned'[a] = earned[a]
      BY <1>2, ZenonT(30)
    <3> HIDE DEF Q
    <3>4. CASE a = d
      BY <1>6, <1>9, <1>10, <1>11, <3>1, <3>2, <3>3, <3>4, SMTT(30)
    <3>5. CASE a # d
      BY <1>9, <1>11, <3>2, <3>3, <3>5, ZenonT(30)
    <3> QED  BY <3>4, <3>5, Zenon
  <2>2. inflation' = Sum(earned') + ubi' + Enqueued(wq', "ubi", NoAddress)
    BY <1>2 DEF CInv, RewardsAccounted
  <2> QED  BY <2>1, <2>2, Zenon DEF RewardsAccounted
<1>15. SelfStaked'
  <2>1. \A w \in Validators : delegation'[w][w] \in Nat
    BY <1>1, ValidatorsFinite
  <2>2. vals \subseteq Validators
    BY <1>1 DEF Accounts
  <2>3. vals' = vals /\ jailed' = jailed \cup {w \in vals : delegation'[w][w] = 0}
    BY <1>2
  <2>4. ASSUME NEW w \in vals' \ jailed' PROVE delegation'[w][w] > 0
    <3>1. w \in Validators /\ delegation'[w][w] # 0
      BY <2>2, <2>3
    <3> QED  BY <2>1, <3>1
  <2> QED  BY <2>4 DEF SelfStaked
<1>16. HasStake(d)'
  <2>1. delegation'[d][dst] > 0
    BY <1>3, <1>4, <1>8
  <2> QED  BY <2>1, Zenon DEF HasStake
<1>17. OwnStake(d) => OwnStake(d)' \/ d \in moved'
  <2>1. CASE d = src /\ delegation'[d][src] = 0
    BY <1>2, <2>1, Zenon
  <2>2. CASE d = src /\ delegation'[d][src] # 0
    <3>1. delegation'[d][d] > 0
      BY <1>1, <2>2
    <3> QED  BY <2>2, <3>1 DEF OwnStake
  <2>3. CASE d # src
    <3>1. d \in Validators /\ delegation[d][d] > 0 => delegation'[d][d] > 0
      BY <1>3, <1>4, <1>8, <2>3, SMTT(30)
    <3> QED  BY <1>2, <3>1, Zenon DEF OwnStake
  <2> QED  BY <2>1, <2>2, <2>3
<1>18. d \in moved => OwnStake(d)' \/ d \in moved'
  <2>1. CASE d = dst
    <3>1. delegation'[d][d] > 0
      BY <1>3, <1>4, <1>8, <2>1
    <3> QED  BY <2>1, <3>1, Zenon DEF OwnStake
  <2>2. CASE d # dst
    BY <1>2, <2>2, Zenon
  <2> QED  BY <2>1, <2>2
<1>19. CommissionHasStake' /\ NothingLeftBehind'
  <2>1. \A a \in Addresses :
           /\ HasStake(a) => HasStake(a)'
           /\ OwnStake(a) => OwnStake(a)' \/ a \in moved'
           /\ a \in moved => OwnStake(a)' \/ a \in moved'
           /\ balance'[a] = balance[a] \/ HasStake(a)'
    <3> TAKE a \in Addresses
    <3>1. CASE a = d
      BY <1>16, <1>17, <1>18, <3>1, Zenon
    <3>2. CASE a # d
      <4>1. delegation'[a] = delegation[a] /\ balance'[a] = balance[a] /\ (a \in moved => a \in moved')
        BY <1>2, <1>8, <1>11, <3>2
      <4> QED  BY <1>2, <4>1, Zenon DEF HasStake, OwnStake
    <3> QED  BY <3>1, <3>2, ZenonT(30)
  <2> QED  BY <1>2, <2>1, BehindKept DEF CInv
<1> QED  BY <1>12, <1>13, <1>14, <1>15, <1>19, Zenon DEF CInv

\* Events that touch neither stake nor coins.
LEMMA FrameKeepsBooks ==
  ASSUME AInv, CInv, jailed' \in SUBSET vals, \A w \in jailed \ jailed' : delegation[w][w] > 0,
         vals' = vals, delegation' = delegation, unbonding' = unbonding, balance' = balance,
         rewards' = rewards, commission' = commission, ubi' = ubi, wq' = wq, rq' = rq,
         cursor' = cursor, halted' = halted, inflation' = inflation, deposited' = deposited,
         earned' = earned, moved' = moved
  PROVE  CInv'
<1>1. Accounts'
  BY DEF CInv, Accounts, CoinsTyped
<1>2. SelfStaked'
  BY DEF CInv, SelfStaked
<1>3. PrincipalAccounted' /\ RewardsAccounted'
  BY DEF CInv, PrincipalAccounted, RewardsAccounted
<1>4. CommissionHasStake'
  BY ZenonT(30) DEF CInv, CommissionHasStake, OwnStake
<1>5. NothingLeftBehind'
  BY DEF CInv, NothingLeftBehind, HasStake
<1> QED  BY <1>1, <1>2, <1>3, <1>4, <1>5, ZenonT(30) DEF CInv

\* Inflation: each unit is somebody's, or of the UBI pool.
LEMMA AllocateKeepsBooks ==
  ASSUME AInv, CInv, AllocateTokens
  PROVE  CInv'
<1>1. /\ Accounts /\ Typed
      /\ rewards \in [Addresses -> [Validators -> Nat]] /\ balance \in [Addresses -> Nat]
      /\ commission \in [Addresses -> Nat] /\ rq \in Seq(QueueEntry(RewardKinds))
      /\ wq \in Seq(QueueEntry(StakeKinds)) /\ ubi \in Nat
      /\ earned \in [Addresses -> Nat] /\ inflation \in Nat /\ vals \in SUBSET Validators
  BY DEF AInv, CInv, Accounts, CoinsTyped
<1>2. /\ inflation' = inflation + 1 /\ balance' = balance
      /\ vals' = vals /\ jailed' = jailed /\ delegation' = delegation /\ unbonding' = unbonding
      /\ wq' = wq /\ rq' = rq /\ cursor' = cursor /\ halted' = halted
      /\ deposited' = deposited /\ moved' = moved
  BY DEF AllocateTokens, staking, queues
<1>a. inflation + 1 \in Nat /\ ubi + 1 \in Nat
  BY <1>1
<1>3. PrincipalAccounted' /\ SelfStaked'
  BY <1>2 DEF CInv, PrincipalAccounted, SelfStaked
<1> DEFINE E == Enqueued(wq, "ubi", NoAddress)
<1>4. E \in Nat /\ inflation = Sum(earned) + ubi + E /\ Enqueued(wq', "ubi", NoAddress) = E
  BY <1>1, <1>2, EnqueuedType DEF CInv, RewardsAccounted
<1>5. Sum(earned) \in Nat /\ IsFiniteSet(Addresses)
  BY <1>1, StakingAssumption, SumType, Zenon
<1>6. ASSUME NEW d \in Addresses, earned' = [earned EXCEPT ![d] = @ + 1]
      PROVE  /\ earned' \in [Addresses -> Nat] /\ earned'[d] = earned[d] + 1
             /\ \A a \in Addresses : a # d => earned'[a] = earned[a]
             /\ Sum(earned') = Sum(earned) + 1
  <2> DEFINE n == earned[d] + 1
  <2>1. earned[d] \in Nat /\ n \in Nat /\ earned' = [earned EXCEPT ![d] = n]
    BY <1>1, <1>6
  <2>2. /\ earned' \in [Addresses -> Nat] /\ earned'[d] = n
        /\ \A a \in Addresses : a # d => earned'[a] = earned[a]
    BY <1>1, <2>1
  <2> HIDE DEF n
  <2>3. Sum([earned EXCEPT ![d] = n]) = Sum(earned) - earned[d] + n
    BY <1>1, <1>5, <2>1, SumExcept, ZenonT(30)
  <2> QED  BY <1>5, <2>1, <2>2, <2>3 DEF n
<1> DEFINE Q(a) == Enqueued(rq, "reward", a)
<1>7. \A a \in Addresses :
        /\ Q(a) \in Nat /\ commission[a] \in Nat /\ balance[a] \in Nat /\ Sum(rewards[a]) \in Nat
        /\ earned[a] = Sum(rewards[a]) + commission[a] + balance[a] + Q(a)
        /\ Enqueued(rq', "reward", a) = Q(a)
  <2> TAKE a \in Addresses
  <2>1. rewards[a] \in [Validators -> Nat] /\ commission[a] \in Nat /\ balance[a] \in Nat
    BY <1>1
  <2>2. Sum(rewards[a]) \in Nat
    BY <2>1, ValidatorsFinite, SumType
  <2>3. Q(a) \in Nat
    BY <1>1, EnqueuedType, Zenon
  <2> QED  BY <1>2, <2>1, <2>2, <2>3, Zenon DEF CInv, RewardsAccounted
<1> HIDE DEF E, Q
<1>8. ASSUME NEW v \in vals \ jailed, NEW d \in Addresses,
             rewards' = [rewards EXCEPT ![d][v] = @ + 1],
             earned' = [earned EXCEPT ![d] = @ + 1], commission' = commission, ubi' = ubi
      PROVE  CInv'
  <2>1. v \in Validators /\ rewards[d][v] \in Nat /\ rewards[d][v] + 1 \in Nat
    BY <1>1
  <2>2. RowChanged(rewards, d, v, rewards[d][v] + 1, rewards')
    <3>1. Table(rewards) /\ Assigned(rewards, d, v, rewards[d][v] + 1, rewards')
      BY <1>1, <1>8 DEF Table, Assigned
    <3> QED  BY <2>1, <3>1, Nested
  <2>3. /\ rewards' \in [Addresses -> [Validators -> Nat]]
        /\ \A a \in Addresses : a # d => rewards'[a] = rewards[a]
        /\ Sum(rewards'[d]) = Sum(rewards[d]) + 1
    <3>1. /\ Sum(rewards[d]) \in Nat /\ Sum(rewards'[d]) \in Nat
          /\ Sum(rewards'[d]) + rewards[d][v] = Sum(rewards[d]) + (rewards[d][v] + 1)
      BY <2>2 DEF RowChanged
    <3>2. Sum(rewards'[d]) = Sum(rewards[d]) + 1
      BY <2>1, <3>1
    <3> QED  BY <2>2, <3>2 DEF RowChanged
  <2>4. /\ earned' \in [Addresses -> Nat] /\ earned'[d] = earned[d] + 1
        /\ \A a \in Addresses : a # d => earned'[a] = earned[a]
        /\ Sum(earned') = Sum(earned) + 1
    BY <1>6, <1>8, ZenonT(30)
  <2>5. ASSUME NEW a \in Addresses
        PROVE  earned'[a] = Sum(rewards'[a]) + commission'[a] + balance'[a] + Enqueued(rq', "reward", a)
    <3>1. CASE a = d
      <4>1. /\ earned'[a] = earned[a] + 1 /\ Sum(rewards'[a]) = Sum(rewards[a]) + 1
            /\ commission'[a] = commission[a] /\ balance'[a] = balance[a]
        BY <1>2, <1>8, <2>3, <2>4, <3>1, Zenon
      <4> QED  BY <1>7, <4>1
    <3>2. CASE a # d
      BY <1>2, <1>7, <1>8, <2>3, <2>4, <3>2, ZenonT(30)
    <3> QED  BY <3>1, <3>2, Zenon
  <2>6. inflation' = Sum(earned') + ubi' + Enqueued(wq', "ubi", NoAddress)
    <3>1. inflation' = inflation + 1 /\ ubi' = ubi /\ ubi \in Nat /\ Sum(earned') = Sum(earned) + 1
      BY <1>1, <1>2, <1>8, <2>4, Zenon
    <3> QED  BY <1>4, <1>5, <3>1
  <2>7. Accounts'
    BY <1>1, <1>2, <1>a, <1>8, <2>3, <2>4, ZenonT(30) DEF Accounts, CoinsTyped
  <2>8. CommissionHasStake' /\ NothingLeftBehind'
    BY <1>2, <1>8, ZenonT(30) DEF CInv, CommissionHasStake, NothingLeftBehind, OwnStake, HasStake
  <2> QED  BY <1>3, <2>5, <2>6, <2>7, <2>8, Zenon DEF CInv, RewardsAccounted
<1>9. ASSUME NEW v \in vals \ jailed, commission' = [commission EXCEPT ![v] = @ + 1],
             earned' = [earned EXCEPT ![v] = @ + 1], rewards' = rewards, ubi' = ubi
      PROVE  CInv'
  <2>1. v \in Validators /\ v \in Addresses
    BY <1>1, ValidatorsFinite
  <2>2. /\ earned' \in [Addresses -> Nat] /\ earned'[v] = earned[v] + 1
        /\ \A a \in Addresses : a # v => earned'[a] = earned[a]
        /\ Sum(earned') = Sum(earned) + 1
    BY <1>6, <1>9, <2>1, ZenonT(30)
  <2>3. /\ commission' \in [Addresses -> Nat] /\ commission'[v] = commission[v] + 1
        /\ \A a \in Addresses : a # v => commission'[a] = commission[a]
    BY <1>1, <1>9, <2>1
  <2>4. ASSUME NEW a \in Addresses
        PROVE  earned'[a] = Sum(rewards'[a]) + commission'[a] + balance'[a] + Enqueued(rq', "reward", a)
    <3>1. CASE a = v
      <4>1. /\ earned'[a] = earned[a] + 1 /\ Sum(rewards'[a]) = Sum(rewards[a])
            /\ commission'[a] = commission[a] + 1 /\ balance'[a] = balance[a]
        BY <1>2, <1>9, <2>2, <2>3, <3>1, ZenonT(30)
      <4> QED  BY <1>7, <4>1
    <3>2. CASE a # v
      BY <1>2, <1>7, <1>9, <2>2, <2>3, <3>2, ZenonT(30)
    <3> QED  BY <3>1, <3>2, ZenonT(30)
  <2>5. inflation' = Sum(earned') + ubi' + Enqueued(wq', "ubi", NoAddress)
    <3>1. inflation' = inflation + 1 /\ ubi' = ubi /\ ubi \in Nat /\ Sum(earned') = Sum(earned) + 1
      BY <1>1, <1>2, <1>9, <2>2, Zenon
    <3> QED  BY <1>4, <1>5, <3>1
  <2>6. Accounts'
    BY <1>1, <1>2, <1>a, <1>9, <2>2, <2>3, ZenonT(30) DEF Accounts, CoinsTyped
  <2>7. OwnStake(v)'
    <3>1. delegation[v][v] > 0
      BY <1>9 DEF CInv, SelfStaked
    <3> QED  BY <1>2, <2>1, <3>1, ZenonT(30) DEF OwnStake
  <2>8. HasStake(v)'
    BY <2>7, OwnStakeIsStakeNext
  <2>9. ASSUME NEW a \in Addresses, commission'[a] > 0, a \notin moved' PROVE OwnStake(a)'
    <3>1. CASE a = v
      BY <2>7, <3>1, ZenonT(30)
    <3>2. CASE a # v
      <4>1. OwnStake(a)
        BY <1>2, <2>3, <2>9, <3>2, Zenon DEF CInv, CommissionHasStake
      <4> QED  BY <1>2, <4>1 DEF OwnStake
    <3> QED  BY <3>1, <3>2
  <2>10. ASSUME NEW a \in Addresses, ~HasStake(a)', a \notin moved'
         PROVE  balance'[a] = 0 /\ commission'[a] = 0
    <3>1. a # v
      BY <2>8, <2>10
    <3>2. ~HasStake(a)
      BY <1>2, <2>10 DEF HasStake
    <3> QED  BY <1>2, <2>3, <2>10, <3>1, <3>2, ZenonT(30) DEF CInv, NothingLeftBehind
  <2>11. CommissionHasStake' /\ NothingLeftBehind'
    BY <2>9, <2>10, Zenon DEF CommissionHasStake, NothingLeftBehind
  <2> QED  BY <1>3, <2>4, <2>5, <2>6, <2>11 DEF CInv, RewardsAccounted
<1>10. ASSUME ubi' = ubi + 1, rewards' = rewards, commission' = commission, earned' = earned
       PROVE  CInv'
  <2>1. inflation' = Sum(earned') + ubi' + Enqueued(wq', "ubi", NoAddress)
    <3>1. inflation' = inflation + 1 /\ ubi' = ubi + 1 /\ ubi \in Nat /\ Sum(earned') = Sum(earned)
      BY <1>1, <1>2, <1>10, ZenonT(30)
    <3> QED  BY <1>4, <1>5, <3>1
  <2>2. \A a \in Addresses :
          earned'[a] = Sum(rewards'[a]) + commission'[a] + balance'[a] + Enqueued(rq', "reward", a)
    BY <1>2, <1>7, <1>10
  <2>3. Accounts'
    BY <1>1, <1>2, <1>a, <1>10, ZenonT(30) DEF Accounts, CoinsTyped
  <2>4. CommissionHasStake' /\ NothingLeftBehind'
    BY <1>2, <1>10 DEF CInv, CommissionHasStake, NothingLeftBehind, OwnStake, HasStake
  <2> QED  BY <1>3, <2>1, <2>2, <2>3, <2>4, ZenonT(30) DEF CInv, RewardsAccounted
<1>11. \/ \E v \in vals \ jailed, d \in Addresses :
            /\ rewards' = [rewards EXCEPT ![d][v] = @ + 1]
            /\ earned' = [earned EXCEPT ![d] = @ + 1] /\ commission' = commission /\ ubi' = ubi
       \/ \E v \in vals \ jailed :
            /\ commission' = [commission EXCEPT ![v] = @ + 1]
            /\ earned' = [earned EXCEPT ![v] = @ + 1] /\ rewards' = rewards /\ ubi' = ubi
       \/ ubi' = ubi + 1 /\ rewards' = rewards /\ commission' = commission /\ earned' = earned
  BY DEF AllocateTokens
<1> QED  BY <1>8, <1>9, <1>10, <1>11

\* The state that EndBlock reaches after singularity: that of EndStateHolds.
LEMMA EndBlockIs ==
  ASSUME AInv, CInv, NEW k \in 0 .. Len(unbonding), NEW gone \in SUBSET jailed,
         EndBlock(k, gone), ~IsSingularity
  PROVE  \E s :
           /\ EndStateIs(k, gone, s)
           /\ vals' = vals \ gone /\ jailed' = jailed \ gone
           /\ unbonding' = SubSeq(unbonding, k + 1, Len(unbonding))
           /\ balance' = s.balance /\ rewards' = s.rewards
           /\ commission' = s.commission /\ ubi' = s.ubi
           /\ wq' = s.wq /\ rq' = s.rq /\ halted' = ~s.ok
           /\ cursor' \in [val : Nat, del : Nat]
           /\ delegation' = delegation
<1> DEFINE left == vals \ gone
           dels == [v \in Validators |-> InKeyOrder({d \in Addresses : delegation[d][v] > 0})]
           sweep == SweepLoop(InKeyOrder(left), jailed, dels, MaxSweepPerBlock, cursor)
           s == EndState(k, gone, sweep.visited)
<1>1. left \in SUBSET Validators /\ cursor \in [val : Nat, del : Nat]
  BY DEF CInv, Accounts
<1>2. sweep.visited \in Seq(Staked) /\ sweep.val \in Nat /\ sweep.del \in Nat
  BY <1>1, StakingAssumption, SweepVisitsStaked, ZenonT(30)
<1>3. /\ vals' = left /\ jailed' = jailed \ gone
      /\ unbonding' = SubSeq(unbonding, k + 1, Len(unbonding))
      /\ balance' = s.balance /\ rewards' = s.rewards
      /\ commission' = s.commission /\ ubi' = s.ubi
      /\ wq' = s.wq /\ rq' = s.rq /\ halted' = ~s.ok
      /\ cursor' = [val |-> sweep.val, del |-> sweep.del]
      /\ delegation' = delegation
  BY ZenonT(30) DEF EndBlock, EndState
<1> HIDE DEF sweep, s
<1>4. EndStateIs(k, gone, s)
  BY <1>2, StakingAssumption, EndStateHolds DEF AInv, CInv, Accounts, s
<1>5. cursor' \in [val : Nat, del : Nat]
  BY <1>2, <1>3
<1> QED  BY <1>3, <1>4, <1>5

\* EndBlock.
LEMMA EndBlockKeepsBooks ==
  ASSUME AInv, CInv, NEW k \in 0 .. Len(unbonding), NEW gone \in SUBSET jailed,
         EndBlock(k, gone)
  PROVE  CInv'
<1>1. CASE IsSingularity
  <2>1. /\ vals' = vals /\ jailed' = jailed /\ delegation' = delegation /\ unbonding' = unbonding
        /\ balance' = balance /\ rewards' = rewards /\ commission' = commission /\ ubi' = ubi
        /\ wq' = wq /\ rq' = rq /\ cursor' = cursor /\ halted' = halted
        /\ inflation' = inflation /\ deposited' = deposited /\ earned' = earned /\ moved' = moved
    BY <1>1, ZenonT(30) DEF EndBlock, staking, distribution, queues, history
  <2>2. jailed' \in SUBSET vals /\ \A w \in jailed \ jailed' : delegation[w][w] > 0
    BY <2>1, Zenon DEF CInv, Accounts
  <2> QED  BY <2>1, <2>2, FrameKeepsBooks
<1>2. CASE ~IsSingularity
  <2>1. PICK s :
           /\ EndStateIs(k, gone, s)
           /\ vals' = vals \ gone /\ jailed' = jailed \ gone
           /\ unbonding' = SubSeq(unbonding, k + 1, Len(unbonding))
           /\ balance' = s.balance /\ rewards' = s.rewards
           /\ commission' = s.commission /\ ubi' = s.ubi
           /\ wq' = s.wq /\ rq' = s.rq /\ halted' = ~s.ok
           /\ cursor' \in [val : Nat, del : Nat]
           /\ delegation' = delegation
    BY <1>2, EndBlockIs
  <2>2. inflation' = inflation /\ deposited' = deposited /\ earned' = earned /\ moved' = moved
    BY ZenonT(30) DEF EndBlock, history
  <2>3. /\ Accounts /\ delegation \in [Addresses -> [Validators -> Nat]]
        /\ unbonding \in Seq(UnbondingEntry) /\ wq \in Seq(QueueEntry(StakeKinds))
        /\ s \in BlockState /\ s.ok
    BY <2>1, Zenon DEF AInv, CInv, Typed, Accounts, CoinsTyped, EndStateIs
  <2>4. CoinsTyped'
    BY <2>1, <2>3 DEF BlockState, CoinsTyped
  <2>5. Accounts'
    <3>1. halted' = FALSE
      BY <2>1, <2>3, ZenonT(30)
    <3>2. vals' \in SUBSET Validators /\ jailed' \in SUBSET vals'
      BY <2>1, <2>3 DEF Accounts
    <3> QED  BY <2>1, <2>2, <2>3, <2>4, <3>1, <3>2 DEF Accounts
  <2>6. SelfStaked'
    BY <2>1 DEF CInv, SelfStaked
  <2>7. PrincipalAccounted'
    <3>1. ASSUME NEW a \in Addresses
          PROVE  deposited'[a] = Sum(delegation'[a]) + AmountOf(unbonding', a) + Enqueued(wq', "unstake", a)
      <4> DEFINE M == AmountOf(Mature(k), a)
                 U == AmountOf(unbonding', a)
                 Q == Enqueued(wq, "unstake", a)
                 D == Sum(delegation[a])
      <4>1. AmountOf(unbonding, a) = M + U
        BY <2>1, <2>3, AmountOfSplit DEF Mature
      <4>2. Enqueued(wq', "unstake", a) = Q + M
        BY <2>1, ZenonT(30) DEF EndStateIs
      <4>3. deposited[a] = D + AmountOf(unbonding, a) + Q
        BY DEF CInv, PrincipalAccounted
      <4>4. Mature(k) \in Seq(UnbondingEntry) /\ unbonding' \in Seq(UnbondingEntry)
        BY <2>1, <2>3 DEF Mature
      <4>5. M \in Nat /\ U \in Nat
        BY <4>4, AmountOfType
      <4>6. Q \in Nat
        BY <2>3, EnqueuedType
      <4>7. D \in Nat
        <5>1. delegation[a] \in [Validators -> Nat]
          BY <2>3
        <5> QED  BY <5>1, ValidatorsFinite, SumType
      <4>8. Sum(delegation'[a]) = D
        BY <2>1
      <4> HIDE DEF M, U, Q, D
      <4>9. deposited'[a] = D + U + (Q + M)
        BY <2>2, <4>1, <4>3, <4>5, <4>6, <4>7
      <4> QED  BY <4>2, <4>8, <4>9 DEF U
    <3> QED  BY <3>1 DEF PrincipalAccounted
  <2>8. RewardsAccounted'
    <3>1. ASSUME NEW a \in Addresses
          PROVE  earned'[a] = Sum(rewards'[a]) + commission'[a] + balance'[a] + Enqueued(rq', "reward", a)
      <4>1. Account(s, a) = Holdings(a)
        BY <2>1, ZenonT(30) DEF EndStateIs
      <4>2. earned[a] = Holdings(a)
        BY ZenonT(30) DEF CInv, RewardsAccounted, Holdings
      <4>3. Account(s, a) = Sum(rewards'[a]) + commission'[a] + balance'[a] + Enqueued(rq', "reward", a)
        BY <2>1 DEF Account
      <4> QED  BY <2>2, <4>1, <4>2, <4>3
    <3>2. inflation' = Sum(earned') + ubi' + Enqueued(wq', "ubi", NoAddress)
      <4> DEFINE E == Enqueued(wq, "ubi", NoAddress)
                 F == Enqueued(wq', "ubi", NoAddress)
                 T == Sum(earned)
      <4>1. ubi' + F = ubi + E
        BY <2>1, ZenonT(30) DEF EndStateIs
      <4>2. inflation = T + ubi + E
        BY Zenon DEF CInv, RewardsAccounted
      <4>3. ubi \in Nat /\ ubi' \in Nat
        BY <2>3, <2>4 DEF Accounts, CoinsTyped
      <4>4. E \in Nat
        BY <2>3, EnqueuedType
      <4>5. F \in Nat
        <5>1. wq' \in Seq(QueueEntry(StakeKinds))
          BY <2>4 DEF CoinsTyped
        <5> QED  BY <5>1, EnqueuedType
      <4>6. T \in Nat
        BY <2>3, StakingAssumption, SumType, ZenonT(30) DEF Accounts
      <4>7. Sum(earned') = T /\ inflation' = inflation
        BY <2>2
      <4> HIDE DEF E, F, T
      <4>8. inflation' = T + ubi' + F
        <5>1. inflation' = T + ubi + E
          BY <4>2, <4>7
        <5>2. T + ubi + E = T + (ubi + E)
          BY <4>3, <4>4, <4>6
        <5>3. T + ubi' + F = T + (ubi' + F)
          BY <4>3, <4>5, <4>6
        <5> QED  BY <4>1, <5>1, <5>2, <5>3
      <4> QED  BY <4>7, <4>8 DEF F
    <3> QED  BY <3>1, <3>2, ZenonT(30) DEF RewardsAccounted
  <2>9. /\ Len(unbonding) \in Nat /\ k \in Nat
        /\ \A i \in 1 .. Len(unbonding) :
             \/ i \in 1 .. k
             \/ i - k \in 1 .. Len(unbonding') /\ unbonding'[i - k] = unbonding[i]
        /\ \A i \in 1 .. Len(unbonding) : unbonding[i] \in UnbondingEntry
    <3>1. /\ Len(unbonding) \in Nat /\ k \in Nat /\ k <= Len(unbonding)
          /\ Len(unbonding') = Len(unbonding) - k
          /\ \A i \in 1 .. Len(unbonding) - k : unbonding'[i] = unbonding[k + i]
      <4>1. unbonding \in Seq(UnbondingEntry) /\ unbonding' = SubSeq(unbonding, k + 1, Len(unbonding))
        BY <2>1, <2>3, Zenon
      <4> QED  BY <4>1, Dropped
    <3>2. ASSUME NEW i \in 1 .. Len(unbonding), i \notin 1 .. k
          PROVE  i - k \in 1 .. Len(unbonding') /\ unbonding'[i - k] = unbonding[i]
      <4>1. i - k \in 1 .. Len(unbonding) - k /\ k + (i - k) = i
        BY <3>1, <3>2
      <4> QED  BY <3>1, <4>1
    <3>3. \A i \in 1 .. Len(unbonding) : unbonding[i] \in UnbondingEntry
      BY <2>3
    <3> QED  BY <3>1, <3>2, <3>3, ZenonT(30)
  <2>10. ASSUME NEW a \in Addresses, commission'[a] > 0, a \notin moved'
         PROVE  OwnStake(a)'
    <3>1. commission[a] \in Nat /\ s.commission[a] \in Nat /\ s.commission[a] > 0
      <4>1. commission \in [Addresses -> Nat] /\ s.commission \in [Addresses -> Nat]
        BY <2>3, Zenon DEF BlockState, Accounts, CoinsTyped
      <4>2. commission' = s.commission
        BY <2>1, ZenonT(30)
      <4> QED  BY <2>10, <4>1, <4>2
    <3>2. s.commission[a] = commission[a]
      <4>1. s.commission[a] = (IF a \in gone THEN 0 ELSE commission[a]) \/ s.commission[a] = 0
        BY <2>1, Zenon DEF EndStateIs
      <4> QED  BY <3>1, <4>1
    <3>3. OwnStake(a)
      BY <2>2, <2>10, <3>1, <3>2, Zenon DEF CInv, CommissionHasStake
    <3>4. CASE delegation[a][a] > 0
      <4>1. a \in Validators /\ delegation' = delegation
        BY <2>1, <3>3, Zenon DEF OwnStake
      <4> QED  BY <3>4, <4>1, Zenon DEF OwnStake
    <3>5. CASE ~(delegation[a][a] > 0)
      <4>1. a \in Validators /\ delegation[a][a] = 0
        BY <2>3, <3>3, <3>5 DEF OwnStake
      <4>2. PICK i \in 1 .. Len(unbonding) : unbonding[i].del = a /\ unbonding[i].val = a
        BY <3>3, <3>5 DEF OwnStake
      <4>3. i \notin 1 .. k
        <5>1. SUFFICES ASSUME i \in 1 .. k PROVE FALSE
          OBVIOUS
        <5>2. s.commission[unbonding[i].val] = 0
          BY <2>1, <4>1, <4>2, <5>1, ZenonT(30) DEF EndStateIs
        <5> QED  BY <3>1, <4>2, <5>2
      <4>4. i - k \in 1 .. Len(unbonding') /\ unbonding'[i - k] = unbonding[i]
        BY <2>9, <4>3, ZenonT(30)
      <4> QED  BY <4>1, <4>2, <4>4, ZenonT(30) DEF OwnStake
    <3> QED  BY <3>4, <3>5, Zenon
  <2>11. ASSUME NEW a \in Addresses, ~HasStake(a)', a \notin moved'
         PROVE  balance'[a] = 0 /\ commission'[a] = 0
    <3>1. ~OwnStake(a)'
      BY <2>11, OwnStakeIsStakeNext
    <3>2. commission'[a] \in Nat
      BY <2>4 DEF CoinsTyped
    <3>3. commission'[a] = 0
      BY <2>10, <2>11, <3>1, <3>2
    <3>4. \A v \in Validators : delegation[a][v] = 0
      <4> TAKE v \in Validators
      <4>1. ~(delegation[a][v] > 0) /\ delegation[a][v] \in Nat
        BY <2>1, <2>3, <2>11 DEF HasStake
      <4> QED  BY <4>1
    <3>5. \A i \in 1 .. Len(unbonding) : unbonding[i].del = a => i \in 1 .. k
      BY <2>9, <2>11, ZenonT(30) DEF HasStake
    <3>6. CASE \E j \in 1 .. k : unbonding[j].del = a
      BY <2>1, <3>3, <3>4, <3>6, ZenonT(30) DEF EndStateIs
    <3>7. CASE \A j \in 1 .. k : unbonding[j].del # a
      <4>1. ~HasStake(a)
        <5>1. \A v \in Validators : ~(delegation[a][v] > 0)
          BY <3>4
        <5>2. \A i \in 1 .. Len(unbonding) : unbonding[i].del # a
          BY <3>5, <3>7, ZenonT(30)
        <5> QED  BY <5>1, <5>2, Zenon DEF HasStake
      <4>2. balance[a] = 0 /\ commission[a] = 0
        BY <2>2, <2>11, <4>1 DEF CInv, NothingLeftBehind
      <4>3. s.balance[a] = balance[a] + (IF a \in gone THEN commission[a] ELSE 0)
        BY <2>1, <3>4, <3>7, ZenonT(30) DEF EndStateIs
      <4> QED  BY <2>1, <3>3, <4>2, <4>3
    <3> QED  BY <3>6, <3>7
  <2>12. CommissionHasStake' /\ NothingLeftBehind'
    BY <2>10, <2>11, Zenon DEF CommissionHasStake, NothingLeftBehind
  <2> QED  BY <2>5, <2>6, <2>7, <2>8, <2>12, ZenonT(30) DEF CInv
<1> QED  BY <1>1, <1>2, ZenonT(30)

\* InitGenesis.
LEMMA InitBalancesBooks == Init => CInv
<1> SUFFICES ASSUME Init PROVE CInv  OBVIOUS
<1>1. /\ GenesisValidators \subseteq Validators /\ Validators \subseteq Addresses
      /\ IsFiniteSet(Addresses) /\ IsFiniteSet(Validators)
  BY StakingAssumption, ValidatorsFinite, Zenon
<1>2. /\ vals = GenesisValidators /\ jailed = {} /\ unbonding = << >> /\ wq = << >> /\ rq = << >>
      /\ delegation = [d \in Addresses |->
           [v \in Validators |-> IF d = v /\ d \in GenesisValidators THEN 1 ELSE 0]]
      /\ balance = None /\ commission = None /\ ubi = 0 /\ earned = None /\ inflation = 0
      /\ rewards = [d \in Addresses |-> [v \in Validators |-> 0]]
      /\ deposited = [a \in Addresses |-> IF a \in GenesisValidators THEN 1 ELSE 0]
      /\ cursor = [val |-> 0, del |-> 0] /\ halted = FALSE
  BY DEF Init
<1>3. /\ None \in [Addresses -> Nat] /\ \A a \in Addresses : None[a] = 0
  BY DEF None
<1>4. Accounts
  <2>1. rewards \in [Addresses -> [Validators -> Nat]] /\ deposited \in [Addresses -> Nat]
    BY <1>2
  <2>2. wq \in Seq(QueueEntry(StakeKinds)) /\ rq \in Seq(QueueEntry(RewardKinds))
    BY <1>2
  <2>3. balance \in [Addresses -> Nat] /\ commission \in [Addresses -> Nat] /\ earned \in [Addresses -> Nat]
    BY <1>2, <1>3
  <2>4. ubi \in Nat /\ inflation \in Nat /\ cursor \in [val : Nat, del : Nat] /\ halted = FALSE
    BY <1>2
  <2>5. vals \in SUBSET Validators /\ jailed \in SUBSET vals
    BY <1>1, <1>2
  <2>6. CoinsTyped
    BY <2>1, <2>2, <2>3, <2>4, Zenon DEF CoinsTyped
  <2> QED  BY <2>1, <2>3, <2>4, <2>5, <2>6, Zenon DEF Accounts
<1>5. SelfStaked
  BY <1>1, <1>2 DEF SelfStaked
<1>6. CommissionHasStake /\ NothingLeftBehind
  BY <1>2, <1>3 DEF CommissionHasStake, NothingLeftBehind
<1>7. PrincipalAccounted
  <2>1. ASSUME NEW a \in Addresses
        PROVE  deposited[a] = Sum(delegation[a]) + AmountOf(unbonding, a) + Enqueued(wq, "unstake", a)
    <3>1. AmountOf(unbonding, a) = 0 /\ Enqueued(wq, "unstake", a) = 0
      BY <1>2, AmountOfNone, EnqueuedNone
    <3> DEFINE z == [v \in Validators |-> 0]
    <3>2. z \in [Validators -> Nat] /\ \A v \in Validators : z[v] = 0
      OBVIOUS
    <3>3. Sum(z) = 0
      BY <3>2, SumZero, Zenon
    <3>4. CASE a \in GenesisValidators
      <4>1. a \in Validators /\ delegation[a] = [z EXCEPT ![a] = 1] /\ deposited[a] = 1
        BY <1>1, <1>2, <3>4
      <4>2. z \in [Validators -> Nat] /\ IsFiniteSet(Validators) /\ a \in Validators /\ z[a] = 0 /\ 1 \in Nat
        BY <1>1, <4>1
      <4> HIDE DEF z
      <4>4. Sum([z EXCEPT ![a] = 1]) = Sum(z) - z[a] + 1
        BY <4>2, SumExcept, ZenonT(30)
      <4>3. Sum(delegation[a]) = 1
        <5>1. Sum(delegation[a]) = 0 - 0 + 1
          BY <3>3, <4>1, <4>2, <4>4, Zenon
        <5> QED  BY <5>1
      <4> QED  BY <3>1, <4>1, <4>3
    <3>5. CASE a \notin GenesisValidators
      <4>1. delegation[a] = z /\ deposited[a] = 0
        BY <1>2, <3>5, Zenon
      <4> QED  BY <3>1, <3>3, <4>1
    <3> QED  BY <3>4, <3>5
  <2> QED  BY <2>1, Zenon DEF PrincipalAccounted
<1>8. RewardsAccounted
  <2>1. ASSUME NEW a \in Addresses
        PROVE  earned[a] = Sum(rewards[a]) + commission[a] + balance[a] + Enqueued(rq, "reward", a)
    <3>1. rewards[a] \in [Validators -> Nat] /\ \A v \in Validators : rewards[a][v] = 0
      BY <1>2
    <3>2. Sum(rewards[a]) = 0
      BY <3>1, SumZero
    <3>3. Enqueued(rq, "reward", a) = 0
      BY <1>2, EnqueuedNone, Zenon
    <3>4. earned[a] = 0 /\ commission[a] = 0 /\ balance[a] = 0
      BY <1>2, <1>3
    <3> QED  BY <3>2, <3>3, <3>4
  <2>2. Sum(earned) = 0
    BY <1>2, <1>3, SumZero
  <2>3. Enqueued(wq, "ubi", NoAddress) = 0
    BY <1>2, EnqueuedNone, Zenon
  <2>4. inflation = 0 /\ ubi = 0
    BY <1>2, Zenon
  <2>5. inflation = Sum(earned) + ubi + Enqueued(wq, "ubi", NoAddress)
    BY <2>2, <2>3, <2>4
  <2> QED  BY <2>1, <2>5, Zenon DEF RewardsAccounted
<1> QED  BY <1>4, <1>5, <1>6, <1>7, <1>8, Zenon DEF CInv

\* The inductive invariant.
IInv == AInv /\ CInv

\* Every handler and EndBlock keep the books.
LEMMA NextPreserves == IInv /\ [Next]_vars => IInv'
<1> SUFFICES ASSUME IInv, [Next]_vars PROVE IInv'  OBVIOUS
<1>1. AInv /\ AInv' /\ CInv
  BY AddressesStaySet DEF IInv
<1> DEFINE Frame ==
      /\ vals' = vals /\ delegation' = delegation /\ unbonding' = unbonding
      /\ balance' = balance /\ rewards' = rewards /\ commission' = commission /\ ubi' = ubi
      /\ wq' = wq /\ rq' = rq /\ cursor' = cursor /\ halted' = halted
      /\ inflation' = inflation /\ deposited' = deposited /\ earned' = earned /\ moved' = moved
<1>2. jailed \in SUBSET vals
  BY <1>1 DEF CInv, Accounts
<1>3. ASSUME Frame, jailed' = jailed PROVE CInv'
  BY <1>1, <1>2, <1>3, FrameKeepsBooks, Zenon
<1>4. ASSUME NEW v \in Validators, NEW sender, ProcessUnjail(v, sender) PROVE CInv'
  <2>1. Frame /\ jailed' = jailed \ {v} /\ delegation[v][v] > 0
    BY <1>4 DEF ProcessUnjail, distribution, queues, history
  <2>2. jailed' \in SUBSET vals /\ \A w \in jailed \ jailed' : delegation[w][w] > 0
    BY <1>2, <2>1
  <2> QED  BY <1>1, <2>1, <2>2, FrameKeepsBooks, ZenonT(30)
<1>5. ASSUME NEW v \in Validators, Jail(v) PROVE CInv'
  <2>1. Frame /\ jailed' = jailed \cup {v} /\ v \in vals
    BY <1>5 DEF Jail, distribution, queues, history
  <2>2. jailed' \in SUBSET vals /\ \A w \in jailed \ jailed' : delegation[w][w] > 0
    BY <1>2, <2>1
  <2> QED  BY <1>1, <2>1, <2>2, FrameKeepsBooks, ZenonT(30)
<1>6. ASSUME NEW v \in Validators, NEW r, ProcessUpdateValidatorCommission(v, r) PROVE CInv'
  <2>1. Frame /\ jailed' = jailed
    BY <1>6 DEF ProcessUpdateValidatorCommission, distribution, queues, history
  <2> QED  BY <1>3, <2>1
<1>7. ASSUME AddressEvent PROVE CInv'
  <2>1. Frame /\ jailed' = jailed
    BY <1>7 DEF AddressEvent, staking, distribution, queues, history
  <2> QED  BY <1>3, <2>1
<1>8. ASSUME UNCHANGED vars PROVE CInv'
  <2>1. Frame /\ jailed' = jailed
    BY <1>8 DEF vars, staking, distribution, queues, history
  <2> QED  BY <1>3, <2>1
<1>9. ASSUME AllocateTokens PROVE CInv'
  BY <1>1, <1>9, AllocateKeepsBooks
<1>10. ASSUME NEW v \in Validators, NEW amount \in Amounts, NEW operator, NEW r,
              ProcessCreateValidator(v, amount, operator, r)
       PROVE  CInv'
  BY <1>1, <1>10, CreateKeepsBooks
<1>11. ASSUME NEW d \in Addresses, NEW v \in Validators, NEW amount \in Amounts,
              ProcessDeposit(d, v, amount)
       PROVE  CInv'
  BY <1>1, <1>11, DepositKeepsBooks
<1>12. ASSUME NEW d \in Addresses, NEW v \in Validators, NEW sender,
              NEW actual \in 1 .. delegation[d][v], ProcessWithdraw(d, v, sender, actual)
       PROVE  CInv'
  BY <1>1, <1>12, WithdrawKeepsBooks
<1>13. ASSUME NEW d \in Addresses, NEW v \in Validators, NEW dst \in Validators, NEW sender,
              NEW actual \in 1 .. delegation[d][v], ProcessRedelegate(d, v, dst, sender, actual)
       PROVE  CInv'
  BY <1>1, <1>13, RedelegateKeepsBooks
<1>14. ASSUME NEW k \in 0 .. Len(unbonding), NEW gone \in SUBSET jailed, EndBlock(k, gone)
       PROVE  CInv'
  BY <1>1, <1>14, EndBlockKeepsBooks
<1>15. ASSUME NEW d \in Addresses, NEW to \in Named,
              ProcessSetWithdrawalAddress(d, to) \/ ProcessSetRewardAddress(d, to) \/ ProcessSetOperator(d, to)
       PROVE  CInv'
  BY <1>7, <1>15 DEF ProcessSetWithdrawalAddress, ProcessSetRewardAddress, ProcessSetOperator
<1>16. ASSUME NEW d \in Addresses, ProcessUnsetOperator(d) PROVE CInv'
  BY <1>7, <1>16 DEF ProcessUnsetOperator
<1> HIDE DEF Frame
<1>17. ASSUME Next PROVE CInv'
  BY <1>4, <1>5, <1>6, <1>9, <1>10, <1>11, <1>12, <1>13, <1>14, <1>15, <1>16, <1>17, ZenonT(30) DEF Next
<1> QED  BY <1>1, <1>8, <1>17 DEF IInv

\* The inductive invariant holds.
THEOREM Invariance == Spec => []IInv
<1>1. Init => IInv
  BY InitSetsAddresses, InitBalancesBooks DEF IInv
<1> QED  BY <1>1, NextPreserves, PTL DEF Spec

\* In every reachable state whoever has stake has both addresses, so the two
\* lookups that could stop the chain in EndBlock (withdraw.go:54, and that of
\* EnqueueRewardWithdrawal) succeed, for every set of accounts and events.
THEOREM AddressesAlwaysSet == Spec => []StakersHaveAddresses
<1>1. IInv => StakersHaveAddresses
  BY DEF IInv, AInv
<1> QED  BY <1>1, Invariance, PTL

\* EndBlock never returns an error, whatever matures together and whatever
\* the sweep visits.
THEOREM ChainNeverHalts == Spec => []NeverHalts
<1>1. IInv => NeverHalts
  BY DEF IInv, CInv, Accounts, NeverHalts
<1> QED  BY <1>1, Invariance, PTL

\* What an account staked is delegated, unbonding or enqueued to it.
THEOREM PrincipalIsAccounted == Spec => []PrincipalAccounted
<1>1. IInv => PrincipalAccounted
  BY DEF IInv, CInv
<1> QED  BY <1>1, Invariance, PTL

\* What was allocated to an account or to the UBI pool waits for it, or was
\* enqueued to it.
THEOREM RewardsAreAccounted == Spec => []RewardsAccounted
<1>1. IInv => RewardsAccounted
  BY DEF IInv, CInv
<1> QED  BY <1>1, Invariance, PTL

\* An account that has left staking leaves no coins behind.
THEOREM NothingStays == Spec => []NothingLeftBehind
<1>1. IInv => NothingLeftBehind
  BY DEF IInv, CInv
<1> QED  BY <1>1, Invariance, PTL

\* What a step may do to the queues.
QueuesGrow ==
  /\ Len(wq) <= Len(wq') /\ \A i \in 1 .. Len(wq) : wq'[i] = wq[i]
  /\ Len(rq) <= Len(rq') /\ \A i \in 1 .. Len(rq) : rq'[i] = rq[i]
  /\ \A i \in Len(wq) + 1 .. Len(wq') :
       wq'[i].to = IF wq'[i].kind = "ubi" THEN UbiAddress ELSE withdrawAddr[wq'[i].owner]
  /\ \A i \in Len(rq) + 1 .. Len(rq') : rq'[i].to = rewardAddr[rq'[i].owner]

\* Only EndBlock writes to the queues, at their ends, and to the addresses that
\* the maps hold then.
LEMMA StepsGrowQueues ==
  ASSUME IInv, [Next]_vars
  PROVE  QueuesGrow
<1>1. wq \in Seq(QueueEntry(StakeKinds)) /\ rq \in Seq(QueueEntry(RewardKinds))
  BY DEF IInv, CInv, Accounts, CoinsTyped
<1>2. ASSUME Grown(wq, wq', withdrawAddr), Grown(rq, rq', rewardAddr),
             rq' \in Seq(QueueEntry(RewardKinds))
      PROVE  QueuesGrow
  <2>1. \A i \in Len(rq) + 1 .. Len(rq') : rq'[i].kind = "reward"
    <3> TAKE i \in Len(rq) + 1 .. Len(rq')
    <3>1. i \in 1 .. Len(rq')
      BY <1>1, <1>2
    <3>2. rq'[i] \in QueueEntry(RewardKinds)
      BY <1>2, <3>1
    <3> QED  BY <3>2, Zenon DEF QueueEntry, RewardKinds
  <2>2. \A i \in Len(rq) + 1 .. Len(rq') : rq'[i].to = rewardAddr[rq'[i].owner]
    BY <1>2, <2>1, Zenon DEF Grown
  <2> QED  BY <1>2, <2>2, ZenonT(30) DEF Grown, QueuesGrow
<1>3. ASSUME wq' = wq, rq' = rq PROVE QueuesGrow
  BY <1>1, <1>2, <1>3, GrownSame
<1>4. ASSUME NEW k \in 0 .. Len(unbonding), NEW gone \in SUBSET jailed, EndBlock(k, gone)
      PROVE  QueuesGrow
  <2>1. CASE IsSingularity
    <3>1. wq' = wq /\ rq' = rq
      BY <1>4, <2>1, Zenon DEF EndBlock, queues
    <3> QED  BY <1>3, <3>1
  <2>2. CASE ~IsSingularity
    <3>1. PICK s : EndStateIs(k, gone, s) /\ wq' = s.wq /\ rq' = s.rq
      BY <1>4, <2>2, EndBlockIs DEF IInv
    <3>2. /\ Grown(wq, wq', withdrawAddr) /\ Grown(rq, rq', rewardAddr)
          /\ rq' \in Seq(QueueEntry(RewardKinds))
      BY <3>1, ZenonT(30) DEF EndStateIs, BlockState
    <3> QED  BY <1>2, <3>2
  <2> QED  BY <2>1, <2>2
<1>5. ASSUME NEW v \in Validators, NEW r, NEW amount, NEW operator,
             \/ ProcessCreateValidator(v, amount, operator, r)
             \/ ProcessUpdateValidatorCommission(v, r)
      PROVE  QueuesGrow
  BY <1>3, <1>5, Zenon DEF ProcessCreateValidator, ProcessUpdateValidatorCommission, queues
<1>6. ASSUME NEW d, NEW v, NEW amount, ProcessDeposit(d, v, amount) PROVE QueuesGrow
  BY <1>3, <1>6, ZenonT(30) DEF ProcessDeposit, queues
<1>7. ASSUME NEW d, NEW v, NEW sender, NEW actual, NEW dst,
             ProcessWithdraw(d, v, sender, actual) \/ ProcessRedelegate(d, v, dst, sender, actual)
      PROVE  QueuesGrow
  BY <1>3, <1>7 DEF ProcessWithdraw, ProcessRedelegate, queues
<1>8. ASSUME NEW v, NEW sender, ProcessUnjail(v, sender) \/ Jail(v) PROVE QueuesGrow
  BY <1>3, <1>8, Zenon DEF ProcessUnjail, Jail, queues
<1>9. ASSUME AddressEvent PROVE QueuesGrow
  BY <1>3, <1>9 DEF AddressEvent, queues
<1>10. ASSUME NEW d, NEW to,
              \/ ProcessSetWithdrawalAddress(d, to) \/ ProcessSetRewardAddress(d, to)
              \/ ProcessSetOperator(d, to) \/ ProcessUnsetOperator(d)
       PROVE  QueuesGrow
  BY <1>9, <1>10 DEF ProcessSetWithdrawalAddress, ProcessSetRewardAddress, ProcessSetOperator,
                     ProcessUnsetOperator
<1>11. ASSUME AllocateTokens PROVE QueuesGrow
  BY <1>3, <1>11 DEF AllocateTokens, queues
<1>12. ASSUME UNCHANGED vars PROVE QueuesGrow
  BY <1>3, <1>12 DEF vars, queues
<1>13. ASSUME NEW v, Jail(v) PROVE QueuesGrow
  BY <1>8, <1>13
<1>14. ASSUME NEW d, ProcessUnsetOperator(d) PROVE QueuesGrow
  BY <1>10, <1>14
<1>15. ASSUME Next PROVE QueuesGrow
  BY <1>4, <1>5, <1>6, <1>7, <1>8, <1>10, <1>11, <1>13, <1>14, <1>15, ZenonT(30) DEF Next
<1> QED  BY <1>12, <1>15

\* A withdrawal goes to the address that its owner had chosen when it was
\* enqueued, and no later step alters it.
THEOREM PayoutsFollowChoice == Spec => PayoutsGoWhereChosen
<1>1. IInv /\ [Next]_vars => [QueuesGrow]_vars
  BY StepsGrowQueues
<1>2. [][QueuesGrow]_vars => PayoutsGoWhereChosen
  BY PTL DEF QueuesGrow, PayoutsGoWhereChosen
<1> QED  BY <1>1, <1>2, Invariance, PTL DEF Spec
=============================================================================
