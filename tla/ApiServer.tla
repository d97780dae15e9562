----------------------------- MODULE ApiServer ------------------------------
(***************************************************************************)
(* The API server of a node whose chain goes on while requests are served. *)
(* chain[h] is the state that block h committed; pruning keeps the last    *)
(* Keep of them.  A request runs in a query context, a snapshot of one     *)
(* committed state: a handler that reads it once is one step, and the two  *)
(* loops that sum page by page take one step per page.                     *)
(*                                                                         *)
(* There is one client.  It asks a single question, reads a whole listing  *)
(* page by page, or waits for a sum.                                       *)
(***************************************************************************)
EXTENDS ApiHandlers

CONSTANTS MaxHeight, Keep,  \* blocks, and the committed states kept
          Questions,        \* requests for one answer
          Listings,         \* requests for a listing, but for the page
          PageSizes,        \* limits that the client puts in a request
          MaxPages          \* pages that the client reads of a listing

ASSUME ServerConstants ==
  MaxHeight \in Nat /\ Keep \in Nat \ {0} /\ PageSizes \subseteq Nat /\ MaxPages \in Nat

VARIABLES chain,   \* the committed states
          server,  \* "down", "up", or "deaf": it no longer accepts
          session  \* what the client is doing
vars == <<chain, server, session>>

Height == Len(chain)
Idle == [kind |-> "idle"]
-----------------------------------------------------------------------------
\* The chain.  Everybody has delegated to everybody; a delegation of
\* delegator d earns with weight d.

Genesis ==
  LET Sum == MapThenSumSet(LAMBDA d : d, Delegators)
      vals == [v \in Validators |-> [tokens |-> Cardinality(Delegators), shares |-> Cardinality(Delegators),
                 rtokens |-> Sum, rshares |-> Sum, bonded |-> TRUE, commission |-> 0]]
  IN [vals |-> vals, params |-> 1, hist |-> <<DOMAIN vals>>,
      dels |-> {[del |-> d, val |-> v, shares |-> 1, rshares |-> d, accrued |-> 0] :
                  d \in Delegators, v \in Validators},
      ubds |-> {}, reds |-> {},
      periods |-> {[del |-> d, val |-> v, id |-> 0] : d \in Delegators, v \in Validators},
      slashes |-> [v \in Validators |-> {}], missed |-> [v \in Validators |-> 0],
      queue |-> <<1, 2>>, rewards |-> <<3, 4>>,
      operator |-> [d \in Delegators |-> None], withdraw |-> [d \in Delegators |-> d],
      reward |-> [d \in Delegators |-> d], balance |-> [d \in Delegators |-> 0],
      plan |-> None, pending |-> None, applied |-> <<>>]

\* x leaves its validator.
Leave(q, x) ==
  [q EXCEPT !.dels = @ \ {x}, !.periods = {p \in @ : ~(p.del = x.del /\ p.val = x.val)},
            !.vals[x.val].tokens = @ - (StakedToken(q, x) \div Unit),
            !.vals[x.val].shares = @ - x.shares, !.vals[x.val].rshares = @ - x.rshares,
            !.vals[x.val].rtokens = @ - (RewardsToken(q, x) \div Unit)]
Undelegate(q, x) ==
  [Leave(q, x) EXCEPT !.ubds = @ \cup {[del |-> x.del, val |-> x.val]}]
\* Shares cost one token each at a validator w that was never slashed.
Redelegate(q, x, w) ==
  LET was    == {y \in q.dels : y.del = x.del /\ y.val = w}
      amount == StakedToken(q, x) \div Unit
      Add(f(_), more) == MapThenSumSet(f, was) + more
  IN [Leave(q, x) EXCEPT
        !.reds = @ \cup {[del |-> x.del, val |-> x.val]},
        !.dels = (@ \ was) \cup {[del |-> x.del, val |-> w, accrued |-> 0,
                    shares  |-> Add(LAMBDA y : y.shares, amount),
                    rshares |-> Add(LAMBDA y : y.rshares, amount * x.del)]},
        !.vals[w].tokens = @ + amount, !.vals[w].shares = @ + amount,
        !.vals[w].rtokens = @ + amount * x.del, !.vals[w].rshares = @ + amount * x.del]
Slash(q, v) ==
  [q EXCEPT !.vals[v].tokens = @ - 1, !.vals[v].rtokens = @ - 1, !.vals[v].bonded = FALSE,
            !.slashes[v] = @ \cup {Height + 1}, !.missed[v] = @ + 1]
\* A delegation earns and is locked for one more period.
Reward(q, x) ==
  [q EXCEPT !.dels = (@ \ {x}) \cup {[x EXCEPT !.accrued = @ + 1]},
            !.periods = @ \cup {[del |-> x.del, val |-> x.val, id |-> Height]},
            !.vals[x.val].commission = @ + 1, !.balance[x.del] = @ + 1]
\* The queues move on, and d has set its addresses.
PayOut(q, d) ==
  [q EXCEPT !.queue = Tail(@), !.rewards = Append(Tail(@), Height + 4),
            !.operator[d] = 1, !.withdraw[d] = 1, !.reward[d] = 1]
Upgrade(q) == IF q.plan = None THEN [q EXCEPT !.plan = Height, !.pending = Height]
              ELSE [q EXCEPT !.plan = None, !.pending = None, !.params = @ + 1,
                             !.applied = Append(@, Height)]

Blocks(q) ==
     UNION {{Undelegate(q, x), Reward(q, x)} : x \in q.dels}
  \cup UNION {{Redelegate(q, x, w) : w \in {u \in Validators \ {x.val} :
                                            q.vals[u].tokens = q.vals[u].shares}} :
                x \in {y \in q.dels : StakedToken(q, y) >= Unit}}
  \cup {Slash(q, v) : v \in {w \in Validators : q.vals[w].tokens > 1}}
  \cup {PayOut(q, d) : d \in Delegators} \cup {Upgrade(q)}

Commit ==
  /\ Height < MaxHeight
  /\ \E q \in Blocks(chain[Height]) :
       chain' = Append(chain, [q EXCEPT !.hist = Append(@, DOMAIN q.vals)])
  /\ UNCHANGED <<server, session>>
-----------------------------------------------------------------------------
\* The heights that a context may have, {} for an error.  A header that is
\* absent or does not parse asks for height 0, which stands for the latest.

Available == (IF Height > Keep THEN Height - Keep + 1 ELSE 1)..Height
CreateQueryContext(h) == (IF h = 0 THEN {Height} ELSE {h}) \cap Available
createQueryContextLatest(r) ==   \* mutant: the header is not read
  CreateQueryContext(0)
createQueryContextByHeader(r) == CreateQueryContext(IF r.header = None THEN 0 ELSE r.header)

StakingRoute(q, r) ==
  CASE r.path = "params"                   -> GetStakingParams(q, r)
    [] r.path = "pool"                     -> GetStakingPool(q, r)
    [] r.path = "historical_info"          -> GetHistoricalInfoByHeight(q, r)
    [] r.path = "total_delegators_count"   -> GetTotalDelegatorsCount(q, r)
    [] r.path = "total_staked_token"       -> GetTotalStakedToken(q, r)
    [] r.path = "validators"               -> GetValidators(q, r)
    [] r.path = "validator"                -> GetValidatorByValidatorAddress(q, r)
    [] r.path = "validator_delegations"    -> GetValidatorDelegationsByValidatorAddress(q, r)
    [] r.path = "delegation"               -> GetDelegationByValidatorAddressDelegatorAddress(q, r)
    [] r.path = "total_delegations_count"  -> GetValidatorTotalDelegationsCount(q, r)
    [] r.path = "validator_unbonding"      -> GetValidatorUnbondingDelegations(q, r)
    [] r.path = "unbonding_delegation"     -> GetDelegatorUnbondingDelegation(q, r)
    [] r.path = "period_delegations"       -> GetPeriodDelegations(q, r)
    [] r.path = "period_delegation"        -> GetPeriodDelegation(q, r)
    [] r.path = "delegations"              -> GetDelegationsByDelegatorAddress(q, r)
    [] r.path = "redelegations"            -> GetRedelegationsByDelegatorAddress(q, r)
    [] r.path = "unbonding_delegations"    -> GetUnbondingDelegationsByDelegatorAddress(q, r)
    [] r.path = "delegator_validators"     -> GetValidatorsByDelegatorAddress(q, r)
    [] r.path = "delegator_validator"      -> GetValidatorsByDelegatorAddressValidatorAddress(q, r)
    [] r.path = "staked_token"             -> GetStakedTokenByDelegatorAddress(q, r)
    [] r.path = "rewards_token"            -> GetRewardsTokenByDelegatorAddress(q, r)
EvmStakingRoute(q, r) ==
  CASE r.path = "params"                   -> GetEvmStakingParams(q, r)
    [] r.path = "withdrawal_queue"         -> GetWithdrawalQueue(q, r)
    [] r.path = "reward_withdrawal_queue"  -> GetRewardWithdrawalQueue(q, r)
    [] r.path = "operator_address"         -> GetDelegatorOperatorAddress(q, r)
    [] r.path = "withdraw_address"         -> GetDelegatorWithdrawAddress(q, r)
    [] r.path = "reward_address"           -> GetDelegatorRewardAddress(q, r)
DistributionRoute(q, r) ==
  CASE r.path = "params"                   -> GetDistributionParams(q, r)
    [] r.path = "validator"                -> GetDistributionValidatorByValidatorAddress(q, r)
    [] r.path = "commission"               -> GetValidatorCommissionByValidatorAddress(q, r)
    [] r.path = "outstanding_rewards"      -> GetValidatorOutstandingRewardsByValidatorAddress(q, r)
    [] r.path = "slashes"                  -> GetValidatorSlashesByValidatorAddress(q, r)
    [] r.path = "delegator_validators"     -> GetDistributionValidatorsByDelegatorAddress(q, r)
    [] r.path = "rewards"                  -> GetDelegatorRewardsByDelegatorAddress(q, r)
    [] r.path = "rewards_of"               -> GetDelegatorRewardsByDelegatorAddressValidatorAddress(q, r)
BankRoute(q, r) ==
  CASE r.path = "params"                   -> GetBankParams(q, r)
    [] r.path = "supply"                   -> GetSupplyByDenom(q, r)
    [] r.path = "balances"                 -> GetBalancesByAddressDenom(q, r)
    [] r.path = "spendable_balances"       -> GetSpendableBalancesByAddressDenom(q, r)
UpgradeRoute(q, r) ==
  CASE r.path = "applied_plan"             -> GetAppliedPlan(q, r)
    [] r.path = "authority"                -> GetAuthority(q, r)
    [] r.path = "current_plan"             -> GetCurrentPlan(q, r)
    [] r.path = "module_versions"          -> ModuleVersions(q, r)
SlashingRoute(q, r) ==
  IF r.path = "params" THEN GetSlashingParams(q, r) ELSE GetSigningInfo(q, r)
AuthRoute(q, r) == GetAuthParams(q, r)
MintRoute(q, r) == GetMintParams(q, r)
EVMEngineRoute(q, r) == GetPendingUpgrade(q, r)

Route(q, r) ==
  CASE r.api = "staking"      -> StakingRoute(q, r)
    [] r.api = "evmstaking"   -> EvmStakingRoute(q, r)
    [] r.api = "distribution" -> DistributionRoute(q, r)
    [] r.api = "bank"         -> BankRoute(q, r)
    [] r.api = "upgrade"      -> UpgradeRoute(q, r)
    [] r.api = "slashing"     -> SlashingRoute(q, r)
    [] r.api = "auth"         -> AuthRoute(q, r)
    [] r.api = "mint"         -> MintRoute(q, r)
    [] r.api = "evmengine"    -> EVMEngineRoute(q, r)

\* Every error is answered with 500, also the ones made with another code.
SimpleWrap(result) == IF result = {} THEN [code |-> 500]
                      ELSE [code |-> 200, msg |-> CHOOSE m \in result : TRUE]
\* Query parameters that do not decode end the request before the handler.
AutoWrap(r) ==
  SimpleWrap(IF r.page = Bad THEN {}
             ELSE UNION {Route(chain[h], r) : h \in createQueryContextByHeader(r)})
-----------------------------------------------------------------------------
\* The server.  Start gives the listener one second to fail; an error that
\* comes later waits forever on a channel that nobody reads.

Start == /\ server = "down" /\ server' \in {"up", "down"} /\ UNCHANGED <<chain, session>>
ServeFails == /\ server = "up" /\ server' = "deaf" /\ UNCHANGED <<chain, session>>

Summing == session.kind = "sum" /\ ~session.over

\* Shutdown waits for the requests that are being served.
Stop == /\ server # "down" /\ ~Summing
        /\ server' = "down" /\ UNCHANGED <<chain, session>>

Ask ==
  /\ server = "up" /\ session = Idle
  /\ \E r \in Questions : session' = [kind |-> "asked", r |-> r, got |-> AutoWrap(r)]
  /\ UNCHANGED <<chain, server>>

\* The client reads on by offset, or by the next_key of the page before.
OpenListing ==
  /\ server = "up" /\ session = Idle
  /\ \E r \in Listings, by \in {"offset", "key"}, limit \in PageSizes, reverse \in BOOLEAN :
       session' = [kind |-> "list", r |-> r, by |-> by, got |-> <<>>, pages |-> 0, over |-> FALSE,
                   page |-> [key |-> None, offset |-> 0, limit |-> limit,
                             count |-> FALSE, reverse |-> reverse]]
  /\ UNCHANGED <<chain, server>>

Answered(s, a) ==
  LET got == s.got \o a.page
  IN [s EXCEPT !.got = got, !.pages = @ + 1, !.over = (a.next = None),
               !.page = IF s.by = "key" THEN [@ EXCEPT !.key = a.next]
                        ELSE [@ EXCEPT !.offset = Len(got)]]

NextPage ==
  /\ server = "up" /\ session.kind = "list" /\ ~session.over /\ session.pages < MaxPages
  /\ LET answer == AutoWrap([session.r EXCEPT !.page = session.page])
     IN session' = IF answer.code = 200 THEN Answered(session, answer.msg)
                   ELSE [kind |-> "failed"]
  /\ UNCHANGED <<chain, server>>

\* What the loops of total_staked_token and total_rewards_token add up.
Worth(q, x, path) == IF path = "total_staked_token" THEN StakedToken(q, x)
                     ELSE RewardsToken(q, x)
Summed(q, page, path) == FoldSeq(LAMBDA x, n : Worth(q, x, path) + n, 0, page)

\* A sum is asked for: the context is made once.
AskSum ==
  /\ server = "up" /\ session = Idle
  /\ \E path \in {"total_staked_token", "total_rewards_token"}, d \in Delegators \cup {Bad},
        header \in {None} \cup 1..MaxHeight :
       session' = IF d = Bad \/ createQueryContextByHeader([header |-> header]) = {}
                  THEN [kind |-> "failed"]
                  ELSE [kind |-> "sum", path |-> path, del |-> d, key |-> None, sum |-> 0,
                        over |-> FALSE,
                        height |-> CHOOSE h \in createQueryContextByHeader([header |-> header]) : TRUE]
  /\ UNCHANGED <<chain, server>>

\* One turn of the loop in q, of a request for total_staked_token and of one
\* for total_rewards_token.
SumTurn(q) ==
  LET a == CHOOSE p \in Paginate(DelegationsOf(q, session.del),
                          [key |-> session.key, offset |-> 0, limit |-> LoopLimit,
                           count |-> FALSE, reverse |-> FALSE]) : TRUE
  IN session' = [session EXCEPT !.sum = @ + Summed(q, a.page, session.path),
                                !.key = a.next, !.over = (a.next = None)]
GetTotalStakedTokenLatest ==   \* mutant: every page reads the latest state
  /\ Summing /\ session.path = "total_staked_token"
  /\ SumTurn(chain[Height]) /\ UNCHANGED <<chain, server>>
GetTotalStakedTokenByDelegatorAddress ==
  /\ Summing /\ session.path = "total_staked_token"
  /\ SumTurn(chain[session.height]) /\ UNCHANGED <<chain, server>>
GetTotalRewardsTokenSameKey ==   \* mutant: the key is not moved on
  /\ Summing /\ session.path = "total_rewards_token"
  /\ session' = [session EXCEPT !.over = Len(DelegationsOf(chain[session.height], session.del)) <= LoopLimit]
  /\ UNCHANGED <<chain, server>>
GetTotalRewardsTokenByDelegatorAddress ==
  /\ Summing /\ session.path = "total_rewards_token"
  /\ SumTurn(chain[session.height]) /\ UNCHANGED <<chain, server>>

\* Pruning takes the snapshot from under a loop, which then fails.
SnapshotPruned ==
  /\ Summing /\ session.height \notin Available
  /\ session' = [kind |-> "failed"] /\ UNCHANGED <<chain, server>>

SumStep == \/ GetTotalStakedTokenByDelegatorAddress
           \/ GetTotalRewardsTokenByDelegatorAddress
           \/ SnapshotPruned

Init == chain = <<Genesis>> /\ server = "down" /\ session = Idle

Next == \/ Commit \/ Start \/ ServeFails \/ Stop
        \/ Ask \/ OpenListing \/ NextPage \/ AskSum \/ SumStep

Fairness == WF_vars(SumStep)
Spec == Init /\ [][Next]_vars /\ Fairness
-----------------------------------------------------------------------------
Everything == [key |-> None, offset |-> 0, limit |-> 0, count |-> FALSE, reverse |-> FALSE]
\* The one answer of a handler to a request that cannot fail.
The(result) == CHOOSE a \in result : TRUE
About(d, v) == [del |-> d, val |-> v, n |-> 1, page |-> Everything]

\* A client that names a height gets that height (createQueryContextByHeader
\* and AutoWrap).  A listing read by offset shows its items, each once and in
\* order, however many blocks are committed between two pages, and all of them
\* when a page says there is no next one; and an answer stands: asked again
\* after more blocks the same request gets the same answer, or an error once
\* the height is pruned.
PinnedReads ==
  /\ (session.kind = "list" /\ session.by = "offset" /\ session.r.header # None) =>
       LET whole == The(Route(chain[session.r.header], [session.r EXCEPT !.page = Everything])).page
           inOrder == IF session.page.reverse THEN Reverse(whole) ELSE whole
       IN /\ session.got # <<>> => IsPrefix(session.got, inOrder)
          /\ session.over => session.got = inOrder
  /\ (session.kind = "asked" /\ session.got.code = 200 /\ session.r.header \in 1..MaxHeight) =>
       LET again == AutoWrap(session.r)
       IN again.code = 200 => again.msg = session.got.msg

\* The answers for one height fit together: the two counts are the lengths of
\* the listings, a delegation is found exactly when both listings have it, and
\* the staked_token positions of all delegators add up to total_staked_token,
\* but for the rounding of one decimal unit per delegation.
EndpointsAgree ==
  LET q == chain[Height]
      Of(d) == The(GetDelegationsByDelegatorAddress(q, About(d, Bad))).page
      To(v) == The(GetValidatorDelegationsByValidatorAddress(q, About(Bad, v))).page
      Held(d) == FoldSeq(LAMBDA x, n : x.token + n, 0,
                         The(GetStakedTokenByDelegatorAddress(q, About(d, Bad))).page)
      dust == MapThenSumSet(Held, Delegators) - (Unit * The(GetTotalStakedToken(q, About(Bad, Bad))))
  IN /\ \A v \in Validators :
          GetValidatorTotalDelegationsCount(q, About(Bad, v)) = {Len(To(v))}
     /\ GetTotalDelegatorsCount(q, About(Bad, Bad))
          = {Cardinality({d \in Delegators : Of(d) # <<>>})}
     /\ \A d \in Delegators, v \in Validators :
          LET found == GetDelegationByValidatorAddressDelegatorAddress(q, About(d, v))
          IN found = {x \in Range(Of(d)) : x.val = v} /\ found = {x \in Range(To(v)) : x.del = d}
     /\ dust \in (-Cardinality(q.dels))..Cardinality(q.dels)

\* A sum over pages is the sum over one state: the positions that the delegator
\* held at the height of the request's context, whatever is committed while
\* the loop of GetTotalStakedTokenByDelegatorAddress (or of
\* GetTotalRewardsTokenByDelegatorAddress) runs.
TotalsOfOneHeight ==
  (session.kind = "sum" /\ session.over) =>
    LET q == chain[session.height]
    IN session.sum = MapThenSumSet(LAMBDA x : Worth(q, x, session.path),
                                   {x \in q.dels : x.del = session.del})

\* Every request for a sum comes to an end although the chain goes on: the
\* loops stop at the page without a next key.
TotalsAnswered == Summing ~> ~Summing
=============================================================================
