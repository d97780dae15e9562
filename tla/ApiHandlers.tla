---------------------------- MODULE ApiHandlers -----------------------------
(***************************************************************************)
(* What each handler of the API server answers, as an operator of q, the   *)
(* state of its query context, and r, the request.  A handler's result is  *)
(* the set {answer}, or {} when it returns an error: every step of it that *)
(* may fail narrows the set.                                               *)
(*                                                                         *)
(* Addresses are numbers, so key order in the store is numeric order, and  *)
(* Bad is a text that does not decode.  r.n is the last variable of a      *)
(* route or the filter of a listing: a height, name, id, denom or status.  *)
(***************************************************************************)
EXTENDS Integers, Sequences, SequencesExt, FiniteSetsExt

CONSTANTS None, Bad,
          Validators, Delegators, \* sets of numbers
          DefaultLimit,           \* page size where the request names none
          LoopLimit,              \* page size of the two summing loops: 100
          Unit,                   \* 1 as a fixed-point decimal
          LastKey                 \* no listing has a raw key beyond it

ASSUME ApiConstants ==
  /\ Validators \subseteq Nat /\ Delegators \subseteq Nat
  /\ Bad \notin Validators \cup Delegators
  /\ {DefaultLimit, LoopLimit, Unit, LastKey} \subseteq Nat \ {0}

\* hexutil.Decode; the answer's addresses go back by the inverse.
EvmAddressToBech32AccAddress(a) == {a} \ {Bad}
EvmAddressToBech32ValAddress(a) == {a} \ {Bad}
CmpPubKeyToBech32ConsAddress(a) == {a} \ {Bad}

\* A raw key starts with an address length (20) or with the zero bytes of a
\* big-endian counter.  next_key leaves the server as base64 text, and the
\* bytes of that text start with a letter, digit, + or /, which sort after.
KeyBytes(text) == IF text = None THEN None ELSE LastKey + 1

\* x/query: a page of items, which stand in key order; item i has raw key i.
\* A page has the key of the item after it.
Paginate(items, p) ==
  LET n     == Len(items)
      limit == IF p.limit = 0 THEN DefaultLimit ELSE p.limit
      walk  == IF p.reverse THEN Reverse(items) ELSE items
      from  == CASE p.key = None             -> p.offset + 1
                 [] p.key # None /\ ~p.reverse -> p.key
                 [] p.key > n /\ p.reverse   -> 1
                 [] OTHER                    -> n + 1 - p.key
      to    == from + limit - 1
  IN IF p.key # None /\ p.offset > 0 THEN {}
     ELSE {[page  |-> SubSeq(walk, from, Min({to, n})),
            next  |-> IF to >= n THEN None ELSE IF p.reverse THEN n - to ELSE to + 1,
            total |-> IF p.key = None /\ (p.count \/ p.limit = 0) THEN n ELSE 0]}

\* The page that a request asks for: req.Pagination, its key taken as bytes.
Page(items, r) == Paginate(items, [r.page EXCEPT !.key = KeyBytes(@)])
\* The converted items of a page.
MapPage(f(_), answers) ==
  {[a EXCEPT !.page = [i \in DOMAIN @ |-> f(@[i])]] : a \in answers}

\* Index order: by validator, then delegator (each listing fixes one of them
\* or has a single index).
Before(x, y) == x.val < y.val \/ (x.val = y.val /\ x.del < y.del)
Sorted(S) == SetToSortSeq(S, Before)
Ascending(S) == SetToSortSeq(S, <)

\* Round half to even, as math.LegacyDec.Quo does.
DecQuo(a, b) == LET d == a \div b   m == 2 * (a % b)
                IN IF m < b \/ (m = b /\ d % 2 = 0) THEN d ELSE d + 1
TokensFromShares(v, shares) == DecQuo(shares * v.tokens * Unit, v.shares)
RewardsTokensFromRewardsShares(v, shares) ==
  DecQuo(shares * v.rtokens * Unit, v.rshares)
-----------------------------------------------------------------------------
\* Parameters, per module one record that an upgrade may change.

GetStakingParams(q, r)      == {q.params}
GetEvmStakingParams(q, r)   == {q.params}
GetDistributionParams(q, r) == {q.params}
GetSlashingParams(q, r)     == {q.params}
GetBankParams(q, r)         == {q.params}
GetAuthParams(q, r)         == {q.params}
GetMintParams(q, r)         == {q.params}
ModuleVersions(q, r)        == {q.params}
-----------------------------------------------------------------------------
\* staking.go

ValidatorsAt(q, S) == [i \in 1..Cardinality(S) |-> [val |-> Ascending(S)[i]] @@ q.vals[Ascending(S)[i]]]
DelegationsTo(q, v) == Sorted({x \in q.dels : x.val = v})
DelegationsOf(q, d) == Sorted({x \in q.dels : x.del = d})

GetStakingPool(q, r) ==
  LET Tokens(b) == MapThenSumSet(LAMBDA v : q.vals[v].tokens,
                     {v \in DOMAIN q.vals : q.vals[v].bonded = b})
  IN {[bonded |-> Tokens(TRUE), notBonded |-> Tokens(FALSE)]}
GetHistoricalInfoByHeight(q, r) == {q.hist[h] : h \in {r.n} \cap DOMAIN q.hist}
\* n = 2 asks for the bonded ones.
GetValidators(q, r) ==
  Page(ValidatorsAt(q, {v \in DOMAIN q.vals : r.n = 2 => q.vals[v].bonded}), r)
GetValidatorByValidatorAddress(q, r) ==
  {q.vals[v] : v \in EvmAddressToBech32ValAddress(r.val) \cap DOMAIN q.vals}
GetValidatorDelegationsByValidatorAddress(q, r) ==
  UNION {Page(DelegationsTo(q, v), r) : v \in EvmAddressToBech32ValAddress(r.val)}
GetValidatorTotalDelegationsCount(q, r) ==
  {a.total : a \in UNION {Paginate(DelegationsTo(q, v),
                 [key |-> None, offset |-> 0, limit |-> 1, count |-> TRUE, reverse |-> FALSE]) :
               v \in EvmAddressToBech32ValAddress(r.val)}}
GetDelegationByValidatorAddressDelegatorAddress(q, r) ==
  {x \in q.dels : /\ x.del \in EvmAddressToBech32AccAddress(r.del)
                  /\ x.val \in EvmAddressToBech32ValAddress(r.val)}
GetValidatorUnbondingDelegations(q, r) ==
  UNION {Page(Sorted({x \in q.ubds : x.val = v}), r) :
           v \in EvmAddressToBech32ValAddress(r.val)}
GetDelegatorUnbondingDelegation(q, r) ==
  {x \in q.ubds : /\ x.del \in EvmAddressToBech32AccAddress(r.del)
                  /\ x.val \in EvmAddressToBech32ValAddress(r.val)}
GetDelegationsByDelegatorAddress(q, r) ==
  UNION {Page(DelegationsOf(q, d), r) : d \in EvmAddressToBech32AccAddress(r.del)}
GetTotalDelegatorsCount(q, r) == {Cardinality({x.del : x \in q.dels})}
GetTotalStakedTokenBonded(q, r) ==   \* mutant: only bonded tokens are counted
  {MapThenSumSet(LAMBDA v : q.vals[v].tokens, {v \in DOMAIN q.vals : q.vals[v].bonded})}
GetTotalStakedToken(q, r) ==
  {MapThenSumSet(LAMBDA v : q.vals[v].tokens, DOMAIN q.vals)}
\* With both validators in the request (n = 2: r.val to the other one) the
\* keeper looks up that one redelegation, otherwise it lists the delegator's.
GetRedelegationsByDelegatorAddress(q, r) ==
  LET ToOrFrom == EvmAddressToBech32ValAddress(r.val)
      Asked    == {x \in q.reds : x.del = r.del /\ (r.n = 2 => x.val \in ToOrFrom)}
  IN IF r.del = Bad \/ (r.n = 2 /\ Asked = {}) THEN {} ELSE Page(Sorted(Asked), r)
GetUnbondingDelegationsByDelegatorAddress(q, r) ==
  UNION {Page(Sorted({x \in q.ubds : x.del = d}), r) :
           d \in EvmAddressToBech32AccAddress(r.del)}
GetValidatorsByDelegatorAddress(q, r) ==
  UNION {Page(ValidatorsAt(q, {x.val : x \in {y \in q.dels : y.del = d}}), r) :
           d \in EvmAddressToBech32AccAddress(r.del)}
GetValidatorsByDelegatorAddressValidatorAddress(q, r) ==
  {q.vals[x.val] : x \in GetDelegationByValidatorAddressDelegatorAddress(q, r)}
\* A delegation in the answer of the staked_token and rewards_token listings.
StakedToken(q, x)  == TokensFromShares(q.vals[x.val], x.shares)
RewardsToken(q, x) == RewardsTokensFromRewardsShares(q.vals[x.val], x.rshares)
GetStakedTokenByDelegatorAddress(q, r) ==
  MapPage(LAMBDA x : [val |-> x.val, token |-> StakedToken(q, x)],
          GetDelegationsByDelegatorAddress(q, r))
GetRewardsTokenByDelegatorAddress(q, r) ==
  MapPage(LAMBDA x : [val |-> x.val, token |-> RewardsToken(q, x)],
          GetDelegationsByDelegatorAddress(q, r))
PeriodsOf(q, d, v) == Ascending({x.id : x \in {y \in q.periods : y.del = d /\ y.val = v}})
GetPeriodDelegations(q, r) ==
  UNION {Page(PeriodsOf(q, d, v), r) : d \in EvmAddressToBech32AccAddress(r.del),
                                       v \in EvmAddressToBech32ValAddress(r.val)}
GetPeriodDelegation(q, r) ==
  {x \in q.periods : /\ x.del \in EvmAddressToBech32AccAddress(r.del)
                     /\ x.val \in EvmAddressToBech32ValAddress(r.val)
                     /\ x.id = r.n}
-----------------------------------------------------------------------------
\* evmstaking.go and the keeper's queries behind it.

paginateWithdrawalQueue(queue, r) == Page(queue, r)
GetWithdrawalQueue(q, r) == paginateWithdrawalQueue(q.queue, r)
GetRewardWithdrawalQueue(q, r) == paginateWithdrawalQueue(q.rewards, r)
\* An address that was never set is answered as the empty string, not found
\* or not.
GetOperatorAddress(q, d) == {q.operator[d]}
GetWithdrawAddress(q, d) == {q.withdraw[d]}
GetRewardAddress(q, d)   == {q.reward[d]}
GetDelegatorOperatorAddress(q, r) ==
  UNION {GetOperatorAddress(q, d) : d \in EvmAddressToBech32AccAddress(r.del)}
GetDelegatorWithdrawAddress(q, r) ==
  UNION {GetWithdrawAddress(q, d) : d \in EvmAddressToBech32AccAddress(r.del)}
GetDelegatorRewardAddress(q, r) ==
  UNION {GetRewardAddress(q, d) : d \in EvmAddressToBech32AccAddress(r.del)}
-----------------------------------------------------------------------------
\* distribution.go.  A delegation's accrued reward is x.accrued.

Accrued(S) == MapThenSumSet(LAMBDA x : x.accrued, S)
GetValidatorOutstandingRewardsByValidatorAddress(q, r) ==
  {Accrued({x \in q.dels : x.val = v}) : v \in EvmAddressToBech32ValAddress(r.val)}
GetValidatorCommissionByValidatorAddress(q, r) ==
  {q.vals[v].commission : v \in EvmAddressToBech32ValAddress(r.val) \cap DOMAIN q.vals}
\* The self-delegation is that of the account with the operator's address.
GetDistributionValidatorByValidatorAddress(q, r) ==
  {[commission |-> c, self |-> Accrued({x \in q.dels : x.val = r.val /\ x.del = r.val})] :
     c \in GetValidatorCommissionByValidatorAddress(q, r)}
GetValidatorSlashesByValidatorAddress(q, r) ==
  UNION {Page(Ascending({h \in q.slashes[v] : h <= r.n}), r) :
           v \in EvmAddressToBech32ValAddress(r.val)}
GetDistributionValidatorsByDelegatorAddress(q, r) ==
  {Ascending({x.val : x \in {y \in q.dels : y.del = d}}) :
     d \in EvmAddressToBech32AccAddress(r.del)}
GetDelegatorRewardsByDelegatorAddress(q, r) ==
  {Accrued({x \in q.dels : x.del = d}) : d \in EvmAddressToBech32AccAddress(r.del)}
GetDelegatorRewardsByDelegatorAddressValidatorAddress(q, r) ==
  {x.accrued : x \in GetDelegationByValidatorAddressDelegatorAddress(q, r)}
-----------------------------------------------------------------------------
\* bank.go, slashing.go, upgrade.go and evmengine.go.  n = 1 is the staking
\* denom; of any other there is nothing.

GetSupplyByDenom(q, r) ==
  {IF r.n = 1 THEN MapThenSumSet(LAMBDA v : q.vals[v].tokens, DOMAIN q.vals)
                 + MapThenSumSet(LAMBDA d : q.balance[d], Delegators) ELSE 0}
GetBalancesByAddressDenom(q, r) ==
  {IF r.n = 1 THEN q.balance[d] ELSE 0 : d \in EvmAddressToBech32AccAddress(r.del)}
GetSpendableBalancesByAddressDenom(q, r) == GetBalancesByAddressDenom(q, r)
GetSigningInfo(q, r) ==
  {q.missed[v] : v \in CmpPubKeyToBech32ConsAddress(r.val) \cap DOMAIN q.missed}
\* The height of an applied plan; 0 if there is none of the name.
GetAppliedPlan(q, r) == {IF r.n \in DOMAIN q.applied THEN q.applied[r.n] ELSE 0}
GetAuthority(q, r)   == {"authority"}
GetCurrentPlan(q, r) == {q.plan}
\* No pending upgrade is an error, unlike no current plan.
GetPendingUpgrade(q, r) == {q.pending} \ {None}
=============================================================================
