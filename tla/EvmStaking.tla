---------------------------- MODULE EvmStaking -----------------------------
(***************************************************************************)
(* x/evmstaking: the events of the IPTokenStaking contract are turned into *)
(* operations of the staking module, and EndBlock turns matured unbonding  *)
(* entries, delegation rewards and the UBI pool into withdrawals.          *)
(*                                                                         *)
(* A handler works on a cached context that is written only if it returns  *)
(* no error, so an event that fails changes nothing and is no step here    *)
(* (a deposit that Delegate refuses takes its address entries with it).    *)
(*                                                                         *)
(* Amounts are whole gwei in units of the minimum delegation.  The staking *)
(* and distribution modules are external: delegations are amounts, an      *)
(* undelegation unbonds some amount up to the delegated one, touching a    *)
(* delegation claims its rewards into the delegator's account, and a       *)
(* validator without self-delegation is jailed.                            *)
(***************************************************************************)
EXTENDS RewardSweep, Sums

CONSTANTS Addresses,          \* accounts, numbers
          Validators,         \* the accounts that may run a validator
          GenesisValidators,  \* those that exist from the start
          Amounts,            \* the amounts that are staked at once
          Named,              \* addresses that events name as operator or payee
          Rates, GenesisRate, \* commission rates, in percent
          UbiAddress, NoAddress,
          MinPartialWithdrawalAmount, MaxSweepPerBlock,
          SingularityHeight,  \* the first height that is not singularity
          V121Height,         \* the first height of v1.2.1
          MaxHeight,          \* heights from this one on behave alike
          MaxEvents, MaxInflation  \* bounds of the inputs

ASSUME StakingAssumption ==
  /\ Addresses \subseteq Nat /\ IsFiniteSet(Addresses)
  /\ Validators \subseteq Addresses
  /\ GenesisValidators \subseteq Validators /\ Named \subseteq Addresses
  /\ NoAddress \notin Addresses
  /\ Amounts \subseteq Nat \ {0}
  /\ Rates \subseteq 1 .. 100 /\ GenesisRate \in Rates  \* 0 is below the minimum rate
  /\ MinPartialWithdrawalAmount \in Nat \ {0} /\ MaxSweepPerBlock \in Nat \ {0}
  /\ SingularityHeight <= MaxHeight /\ V121Height <= MaxHeight

VARIABLES
  height,
  vals, jailed,      \* the validators, and those jailed (staking)
  rate,              \* their commission rates (staking)
  delegation,        \* delegation[d][v], 0 when there is none (staking)
  unbonding,         \* unbonding entries in order of maturity (staking)
  balance,           \* the spendable coins of an account (bank)
  rewards,           \* rewards[d][v], not yet claimed (distribution)
  commission, ubi,   \* accumulated commission, the UBI pool (distribution)
  withdrawAddr, rewardAddr, operatorAddr,  \* the three address maps
  wq, rq,            \* all that was enqueued in the two queues, in order
  cursor,            \* ValidatorSweepIndex
  halted,            \* EndBlock returned an error
  events, inflation, \* how many of the bounded inputs were used
  deposited, earned, \* history: staked by and allocated to each account
  moved              \* history: validators that redelegated all their own stake away

staking == <<vals, jailed, rate, delegation, unbonding>>
distribution == <<rewards, commission, ubi>>
addresses == <<withdrawAddr, rewardAddr, operatorAddr>>
queues == <<wq, rq, cursor, halted>>
history == <<deposited, earned, moved>>
vars == <<height, staking, balance, distribution, addresses, queues,
          events, inflation, history>>

None == [a \in Addresses |-> 0]
\* What the unbonding entries of a hold, and an owner's withdrawals of a kind.
AmountOf(entries, a) ==
  Sum([i \in 1 .. Len(entries) |-> IF entries[i].del = a THEN entries[i].amount ELSE 0])
Enqueued(q, kind, a) ==
  Sum([i \in 1 .. Len(q) |-> IF q[i].kind = kind /\ q[i].owner = a THEN q[i].amount ELSE 0])

\* InitGenesis: both address maps hold every genesis validator.
Init ==
  /\ height = 1
  /\ vals = GenesisValidators /\ jailed = {}
  /\ rate = [v \in Validators |-> IF v \in GenesisValidators THEN GenesisRate ELSE 0]
  /\ delegation = [d \in Addresses |->
       [v \in Validators |-> IF d = v /\ d \in GenesisValidators THEN 1 ELSE 0]]
  /\ unbonding = << >> /\ wq = << >> /\ rq = << >>
  /\ balance = None /\ commission = None /\ ubi = 0
  /\ rewards = [d \in Addresses |-> [v \in Validators |-> 0]]
  /\ withdrawAddr = [a \in Addresses |-> IF a \in GenesisValidators THEN a ELSE NoAddress]
  /\ rewardAddr = withdrawAddr
  /\ operatorAddr = [a \in Addresses |-> NoAddress]
  /\ cursor = [val |-> 0, del |-> 0]
  /\ halted = FALSE
  /\ events = 0 /\ inflation = 0
  /\ deposited = [a \in Addresses |-> IF a \in GenesisValidators THEN 1 ELSE 0]
  /\ earned = None /\ moved = {}
-----------------------------------------------------------------------------
\* The external modules.

IsSingularity == height < SingularityHeight

\* The distribution hook that runs before a delegation changes.
ClaimRewards(d, v) ==
  /\ balance' = [balance EXCEPT ![d] = @ + rewards[d][v]]
  /\ rewards' = [rewards EXCEPT ![d][v] = 0]
  /\ UNCHANGED <<commission, ubi>>

\* A validator whose self-delegation is gone is jailed.
JailWithoutSelfStake == jailed' = jailed \cup {v \in vals : delegation'[v][v] = 0}

\* Mint and distribution: a unit of inflation becomes the reward of some
\* delegation, the commission of some validator, or UBI.  A validator that
\* takes all as its commission leaves its delegators nothing.
AllocateTokens ==
  /\ ~halted /\ ~IsSingularity /\ inflation < MaxInflation
  /\ \/ \E v \in vals \ jailed, d \in Addresses :
          /\ delegation[d][v] > 0 /\ rate[v] < 100
          /\ rewards' = [rewards EXCEPT ![d][v] = @ + 1]
          /\ earned' = [earned EXCEPT ![d] = @ + 1]
          /\ UNCHANGED <<commission, ubi>>
     \/ \E v \in vals \ jailed :
          /\ commission' = [commission EXCEPT ![v] = @ + 1]
          /\ earned' = [earned EXCEPT ![v] = @ + 1]
          /\ UNCHANGED <<rewards, ubi>>
     \/ ubi' = ubi + 1 /\ UNCHANGED <<rewards, commission, earned>>
  /\ inflation' = inflation + 1
  /\ UNCHANGED <<height, staking, balance, addresses, queues, events,
                 deposited, moved>>

\* Slashing: a validator that was down is jailed.
Jail(v) ==
  /\ ~halted /\ v \in vals \ jailed /\ events < MaxEvents
  /\ jailed' = jailed \cup {v} /\ events' = events + 1
  /\ UNCHANGED <<height, vals, rate, delegation, unbonding, balance, distribution,
                 addresses, queues, inflation, history>>
-----------------------------------------------------------------------------
\* The handlers of ProcessStakingEvents.

\* Both handlers that mint fill an address map only where it has no entry.
SetIfAbsentMissing(map, a, to) == map   \* mutant: the map is not filled

SetIfAbsent(map, a, to) == IF map[a] = NoAddress THEN [map EXCEPT ![a] = to] ELSE map

ProcessCreateValidator(v, amount, operator, commissionRate) ==
  /\ ~halted /\ events < MaxEvents
  /\ v \notin vals                       \* else ErrValidatorOwnerExists
  /\ withdrawAddr' = SetIfAbsent(withdrawAddr, v, v)
  /\ rewardAddr' = SetIfAbsent(rewardAddr, v, operator)
  /\ vals' = vals \cup {v} /\ rate' = [rate EXCEPT ![v] = commissionRate]
  /\ delegation' = [delegation EXCEPT ![v][v] = @ + amount]
  /\ deposited' = [deposited EXCEPT ![v] = @ + amount]
  /\ moved' = moved \ {v}
  /\ events' = events + 1
  /\ UNCHANGED <<height, jailed, unbonding, balance, distribution, operatorAddr,
                 queues, inflation, earned>>

ProcessDeposit(d, v, amount) ==
  /\ ~halted /\ events < MaxEvents
  /\ v \in vals                          \* else ErrNoValidatorFound
  /\ withdrawAddr' = SetIfAbsent(withdrawAddr, d, d)
  /\ rewardAddr' = SetIfAbsent(rewardAddr, d, d)
  /\ delegation' = [delegation EXCEPT ![d][v] = @ + amount]
  /\ ClaimRewards(d, v)
  /\ deposited' = [deposited EXCEPT ![d] = @ + amount]
  /\ moved' = IF d = v THEN moved \ {v} ELSE moved
  /\ events' = events + 1
  /\ UNCHANGED <<height, vals, jailed, rate, unbonding, operatorAddr, queues,
                 inflation, earned>>

\* unstakeOnBehalf, redelegateOnBehalf, unjailOnBehalf: only by the operator.
IsOperator(d, sender) == sender = d \/ operatorAddr[d] = sender

ProcessWithdraw(d, v, sender, actual) ==
  /\ ~halted /\ events < MaxEvents
  /\ ~IsSingularity                      \* else dropped
  /\ IsOperator(d, sender)
  /\ v \in vals /\ actual \in 1 .. delegation[d][v]
  /\ delegation' = [delegation EXCEPT ![d][v] = @ - actual]
  /\ unbonding' = Append(unbonding, [del |-> d, val |-> v, amount |-> actual])
  /\ ClaimRewards(d, v)
  /\ JailWithoutSelfStake
  /\ events' = events + 1
  /\ UNCHANGED <<height, vals, rate, addresses, queues, inflation, history>>

\* staking (external): some of a delegator's stake changes its validator.
BeginRedelegation(stakes, src, dst, actual) ==
  [stakes EXCEPT ![src] = @ - actual, ![dst] = @ + actual]

\* The rewards of both delegations are claimed.
ProcessRedelegate(d, src, dst, sender, actual) ==
  /\ ~halted /\ events < MaxEvents
  /\ ~IsSingularity                      \* else dropped
  /\ IsOperator(d, sender)
  /\ src \in vals /\ dst \in vals \ {src} /\ actual \in 1 .. delegation[d][src]
  /\ delegation' = [delegation EXCEPT ![d] = BeginRedelegation(delegation[d], src, dst, actual)]
  /\ balance' = [balance EXCEPT ![d] = @ + rewards[d][src] + rewards[d][dst]]
  /\ rewards' = [rewards EXCEPT ![d][src] = 0, ![d][dst] = 0]
  /\ JailWithoutSelfStake
  /\ moved' = IF d = src /\ delegation'[d][src] = 0 THEN moved \cup {d}
              ELSE IF d = dst THEN moved \ {d} ELSE moved
  /\ events' = events + 1
  /\ UNCHANGED <<height, vals, rate, unbonding, commission, ubi, addresses, queues,
                 inflation, deposited, earned>>

ProcessUnjail(v, sender) ==
  /\ ~halted /\ events < MaxEvents
  /\ IsOperator(v, sender)
  /\ v \in jailed /\ delegation[v][v] > 0  \* else ErrMissingSelfDelegation
  /\ jailed' = jailed \ {v}
  /\ events' = events + 1
  /\ UNCHANGED <<height, vals, rate, delegation, unbonding, balance, distribution,
                 addresses, queues, inflation, history>>

\* EditValidator (external) may refuse a rate: beyond the validator's maximum
\* or its maximal change, or the second change of a day.
ProcessUpdateValidatorCommission(v, commissionRate) ==
  /\ ~halted /\ events < MaxEvents
  /\ v \in vals                          \* else ErrNoValidatorFound
  /\ rate' = [rate EXCEPT ![v] = commissionRate]
  /\ events' = events + 1
  /\ UNCHANGED <<height, vals, jailed, delegation, unbonding, balance, distribution,
                 addresses, queues, inflation, history>>

AddressEvent ==
  /\ ~halted /\ events < MaxEvents
  /\ events' = events + 1
  /\ UNCHANGED <<height, staking, balance, distribution, queues, inflation, history>>

ProcessSetWithdrawalAddress(d, to) ==
  /\ AddressEvent
  /\ withdrawAddr' = [withdrawAddr EXCEPT ![d] = to]
  /\ UNCHANGED <<rewardAddr, operatorAddr>>

ProcessSetRewardAddress(d, to) ==
  /\ AddressEvent
  /\ rewardAddr' = [rewardAddr EXCEPT ![d] = to]
  /\ UNCHANGED <<withdrawAddr, operatorAddr>>

ProcessSetOperator(d, operator) ==
  /\ AddressEvent
  /\ operatorAddr' = [operatorAddr EXCEPT ![d] = operator]
  /\ UNCHANGED <<withdrawAddr, rewardAddr>>

ProcessUnsetOperator(d) ==
  /\ AddressEvent
  /\ operatorAddr[d] # NoAddress         \* else nothing changes
  /\ operatorAddr' = [operatorAddr EXCEPT ![d] = NoAddress]
  /\ UNCHANGED <<withdrawAddr, rewardAddr>>
-----------------------------------------------------------------------------
\* EndBlock.  s holds what its steps change: accounts, distribution, queues,
\* and whether every step so far returned no error.

Withdrawal(to, amount, kind, v, owner) ==   \* owner is history
  [to |-> to, amount |-> amount, kind |-> kind, val |-> v, owner |-> owner]

\* EndBlockerWithUnbondedEntries (external): matured entries are paid into
\* their delegators' accounts; a removed validator gets its commission.
PayMatured(entries, gone) ==
  [balance    |-> [a \in Addresses |->
                     balance[a] + AmountOf(entries, a)
                       + (IF a \in gone THEN commission[a] ELSE 0)],
   rewards    |-> rewards,
   commission |-> [a \in Addresses |-> IF a \in gone THEN 0 ELSE commission[a]],
   ubi |-> ubi, wq |-> wq, rq |-> rq, ok |-> TRUE]

Fail(s) == [s EXCEPT !.ok = FALSE]

\* ProcessUnstakeWithdrawals, first loop: burn the entry, enqueue it.
UnstakeEntry(s, e) ==
  IF withdrawAddr[e.del] = NoAddress \/ s.balance[e.del] < e.amount THEN Fail(s)
  ELSE [s EXCEPT !.balance[e.del] = @ - e.amount,
                 !.wq = Append(@, Withdrawal(withdrawAddr[e.del], e.amount,
                                             "unstake", e.val, e.del))]

\* WithdrawValidatorCommission (external); none is no error.
WithdrawCommission(s, v) ==
  [s EXCEPT !.balance[v] = @ + s.commission[v], !.commission[v] = 0]

\* All the account holds becomes a reward withdrawal.
EnqueueAccountToWithdrawAddr(s, d, v) ==   \* mutant: the other address map
  IF withdrawAddr[d] = NoAddress THEN Fail(s)
  ELSE [s EXCEPT !.balance[d] = 0,
                 !.rq = Append(@, Withdrawal(withdrawAddr[d], s.balance[d], "reward", v, d))]

EnqueueAccount(s, d, v) ==
  IF rewardAddr[d] = NoAddress THEN Fail(s)
  ELSE [s EXCEPT !.balance[d] = 0,
                 !.rq = Append(@, Withdrawal(rewardAddr[d], s.balance[d], "reward", v, d))]

\* ProcessUnstakeWithdrawals, second loop: what is left in the delegator's
\* account are rewards.
ResidueWithoutCommission(s, e) ==   \* mutant: the commission stays behind
  IF (delegation[e.del][e.val] # 0 /\ height < V121Height) \/ s.balance[e.del] = 0
  THEN s ELSE EnqueueAccount(s, e.del, e.val)

ResidueEntry(s, e) ==
  LET totallyUnstaked == delegation[e.del][e.val] = 0
      s1 == IF totallyUnstaked /\ e.del = e.val THEN WithdrawCommission(s, e.val) ELSE s
  IN  IF (~totallyUnstaked /\ height < V121Height) \/ s1.balance[e.del] = 0
      THEN s1 ELSE EnqueueAccount(s1, e.del, e.val)

\* The loops over the matured entries.  An error ends the loop it occurs in,
\* and EndBlock.
UnstakeEntries(s, entries) ==
  LET step[i \in 0 .. Len(entries)] ==
        IF i = 0 THEN s
        ELSE LET t == step[i - 1] IN IF t.ok THEN UnstakeEntry(t, entries[i]) ELSE t
  IN  step[Len(entries)]

ResidueEntries(s, entries) ==
  LET step[i \in 0 .. Len(entries)] ==
        IF i = 0 THEN s
        ELSE LET t == step[i - 1] IN IF t.ok THEN ResidueEntry(t, entries[i]) ELSE t
  IN  step[Len(entries)]

UnstakeLoopsMerged(s, entries) ==   \* mutant: one loop does both
  LET step[i \in 0 .. Len(entries)] ==
        IF i = 0 THEN s
        ELSE LET t == step[i - 1]
                 u == UnstakeEntry(t, entries[i])
             IN  IF ~t.ok THEN t ELSE IF u.ok THEN ResidueEntry(u, entries[i]) ELSE u
  IN  step[Len(entries)]

ProcessUnstakeWithdrawals(s, entries) ==
  ResidueEntries(UnstakeEntries(s, entries), entries)

\* ProcessEligibleRewardWithdrawal and EnqueueRewardWithdrawal.
EligibleMissingClaimed(s, x) ==   \* mutant: the amount is taken before claimedReward is added
  LET own == x.del = x.val
      unclaimed == s.rewards[x.del][x.val] + (IF own THEN s.commission[x.val] ELSE 0)
      s1 == [s EXCEPT !.rewards[x.del][x.val] = 0,
                      !.commission = IF own THEN [@ EXCEPT ![x.val] = 0] ELSE @]
  IN  IF unclaimed + s.balance[x.del] < MinPartialWithdrawalAmount THEN s
      ELSE [s1 EXCEPT !.balance[x.del] = 0,
                      !.rq = Append(@, Withdrawal(rewardAddr[x.del], unclaimed,
                                                  "reward", x.val, x.del))]

ProcessEligibleRewardWithdrawal(s, x) ==
  LET own == x.del = x.val
      unclaimed == s.rewards[x.del][x.val] + (IF own THEN s.commission[x.val] ELSE 0)
      claim == [s EXCEPT !.balance[x.del] = @ + s.rewards[x.del][x.val],
                         !.rewards[x.del][x.val] = 0]
  IN  IF unclaimed + s.balance[x.del] < MinPartialWithdrawalAmount THEN s
      ELSE EnqueueAccount(IF own THEN WithdrawCommission(claim, x.val) ELSE claim,
                          x.del, x.val)

ProcessRewardWithdrawals(s, visited) ==
  LET step[i \in 0 .. Len(visited)] ==
        IF i = 0 THEN s
        ELSE LET t == step[i - 1]
             IN  IF t.ok THEN ProcessEligibleRewardWithdrawal(t, visited[i]) ELSE t
  IN  step[Len(visited)]

ProcessUbiWithdrawal(s) ==
  IF ~s.ok \/ s.ubi < MinPartialWithdrawalAmount THEN s
  ELSE [s EXCEPT !.ubi = 0,
                 !.wq = Append(@, Withdrawal(UbiAddress, s.ubi, "ubi", NoAddress, NoAddress))]

\* The next k entries mature; validators nobody delegates to may be removed.
EndBlock(k, gone) ==
  /\ ~halted
  /\ height' = IF height < MaxHeight THEN height + 1 ELSE height
  /\ IF IsSingularity
     THEN UNCHANGED <<staking, balance, distribution, queues>>
     ELSE LET mature == SubSeq(unbonding, 1, k)
              left   == vals \ gone
          IN  \E sweep \in {SweepLoop(InKeyOrder(left), jailed,
                              [v \in Validators |->
                                 InKeyOrder({d \in Addresses : delegation[d][v] > 0})],
                              MaxSweepPerBlock, cursor)} :
              \E s \in {ProcessUbiWithdrawal(ProcessRewardWithdrawals(
                          ProcessUnstakeWithdrawals(PayMatured(mature, gone), mature),
                          sweep.visited))} :
                /\ gone \subseteq {v \in jailed : \A d \in Addresses : delegation[d][v] = 0}
                /\ vals' = left /\ jailed' = jailed \ gone
                /\ rate' = [v \in Validators |-> IF v \in gone THEN 0 ELSE rate[v]]
                /\ unbonding' = SubSeq(unbonding, k + 1, Len(unbonding))
                /\ balance' = s.balance /\ rewards' = s.rewards
                /\ commission' = s.commission /\ ubi' = s.ubi
                /\ wq' = s.wq /\ rq' = s.rq /\ halted' = ~s.ok
                /\ cursor' = [val |-> sweep.val, del |-> sweep.del]
                /\ UNCHANGED delegation
  /\ UNCHANGED <<addresses, events, inflation, history>>

Next ==
  \/ \E v \in Validators, commissionRate \in Rates :
       \/ \E amount \in Amounts, operator \in Named \cup {v} :
            ProcessCreateValidator(v, amount, operator, commissionRate)
       \/ ProcessUpdateValidatorCommission(v, commissionRate)
  \/ \E d \in Addresses, v \in Validators :
       \/ \E amount \in Amounts : ProcessDeposit(d, v, amount)
       \/ \E sender \in Named \cup {d}, actual \in 1 .. delegation[d][v] :
            \/ ProcessWithdraw(d, v, sender, actual)
            \/ \E dst \in Validators : ProcessRedelegate(d, v, dst, sender, actual)
  \/ \E v \in Validators : \E sender \in Named \cup {v} :
       ProcessUnjail(v, sender)
  \/ \E d \in Addresses :
       \/ \E to \in Named : \/ ProcessSetWithdrawalAddress(d, to)
                            \/ ProcessSetRewardAddress(d, to)
                            \/ ProcessSetOperator(d, to)
       \/ ProcessUnsetOperator(d)
  \/ \E v \in Validators : Jail(v)
  \/ AllocateTokens
  \/ \E k \in 0 .. Len(unbonding), gone \in SUBSET jailed : EndBlock(k, gone)

Spec == Init /\ [][Next]_vars
-----------------------------------------------------------------------------
\* EndBlock never returns an error, which would halt the chain: the comment at
\* withdraw.go:52 that every delegator has a withdraw address is true of all
\* orders of events, so is the same of reward addresses, and every account
\* holds the coins that are to be burned from it, however many entries of one
\* delegator mature together.
NeverHalts == ~halted

\* What an account staked is delegated, unbonding, or was enqueued to it as
\* an unstake withdrawal: principal is never paid twice, lost on an error
\* path, or taken for a reward of the account it passes through.
PrincipalAccounted ==
  \A a \in Addresses :
    deposited[a] = Sum(delegation[a]) + AmountOf(unbonding, a) + Enqueued(wq, "unstake", a)

\* What was allocated to an account, as rewards or commission, waits in the
\* distribution module or in the account, or was enqueued to it as a reward
\* withdrawal; and likewise for the UBI pool.
RewardsAccounted ==
  /\ \A a \in Addresses :
       earned[a] = Sum(rewards[a]) + commission[a] + balance[a] + Enqueued(rq, "reward", a)
  /\ inflation = Sum(earned) + ubi + Enqueued(wq, "ubi", NoAddress)

HasStake(a) ==
  \/ \E v \in Validators : delegation[a][v] > 0
  \/ \E i \in 1 .. Len(unbonding) : unbonding[i].del = a

\* An account that has left staking altogether leaves nothing behind: no
\* claimed reward in an account the sweep no longer visits, and no commission
\* of a validator that unstaked (validators that redelegated all their own
\* stake away excepted: no entry of theirs matures).
NothingLeftBehind ==
  \A a \in Addresses :
    ~HasStake(a) /\ a \notin moved => balance[a] = 0 /\ commission[a] = 0

\* A withdrawal goes to the address its owner had chosen when it was enqueued,
\* and a later change of address alters no withdrawal (evmstaking/README.md:64).
PayoutsGoWhereChosen ==
  [][/\ Len(wq) <= Len(wq') /\ \A i \in 1 .. Len(wq) : wq'[i] = wq[i]
     /\ Len(rq) <= Len(rq') /\ \A i \in 1 .. Len(rq) : rq'[i] = rq[i]
     /\ \A i \in Len(wq) + 1 .. Len(wq') :
          wq'[i].to = IF wq'[i].kind = "ubi" THEN UbiAddress
                      ELSE withdrawAddr[wq'[i].owner]
     /\ \A i \in Len(rq) + 1 .. Len(rq') : rq'[i].to = rewardAddr[rq'[i].owner]]_vars

=============================================================================
