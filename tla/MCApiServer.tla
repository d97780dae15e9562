---------------------------- MODULE MCApiServer -----------------------------
(* ApiServer for TLC: every route, asked with and without a height. *)
EXTENDS ApiServer

MCValidators == {1, 2}
MCDelegators == {1, 2}
MCPageSizes == {1}

Paths ==
  [staking      |-> {"params", "pool", "historical_info", "total_delegators_count",
                     "total_staked_token", "validator", "delegation",
                     "total_delegations_count", "unbonding_delegation", "period_delegation",
                     "delegator_validator"},
   evmstaking   |-> {"params", "operator_address", "withdraw_address", "reward_address"},
   distribution |-> {"params", "validator", "commission", "outstanding_rewards",
                     "delegator_validators", "rewards", "rewards_of"},
   bank         |-> {"params", "supply", "balances", "spendable_balances"},
   upgrade      |-> {"applied_plan", "authority", "current_plan", "module_versions"},
   slashing     |-> {"params", "signing_info"},
   auth         |-> {"params"},
   mint         |-> {"params"},
   evmengine    |-> {"upgrade"}]

PagedPaths ==
  [staking      |-> {"validators", "validator_delegations", "validator_unbonding",
                     "period_delegations", "delegations", "redelegations",
                     "unbonding_delegations", "delegator_validators", "staked_token",
                     "rewards_token"},
   evmstaking   |-> {"withdrawal_queue", "reward_withdrawal_queue"},
   distribution |-> {"slashes"}]

Requests(paths, args, n, headers, pages) ==
  UNION {{[api |-> api, path |-> path, del |-> a[1], val |-> a[2], n |-> n,
           header |-> header, page |-> page] :
            path \in paths[api], a \in args, header \in headers, page \in pages} :
           api \in DOMAIN paths}

MCQuestions ==
       Requests(Paths, {<<1, 1>>}, 1, {None, 1, 2}, {Everything})
  \cup Requests(Paths, {<<Bad, Bad>>}, 2, {-1, 2}, {Everything})
  \cup Requests(PagedPaths, {<<1, 1>>, <<Bad, Bad>>}, 2, {1}, {Everything, Bad})
MCListings == Requests(PagedPaths, {<<2, 1>>}, MaxHeight, {None, 1, 2}, {Everything})
=============================================================================
