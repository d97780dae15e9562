# Story consensus client: TLA+ models, checks and proofs

This directory holds a formal model of the consensus client in `src/`: TLA+
modules translated from the Go and Solidity code, TLC configurations that check
them on small instances, and proofs that TLAPS checks for every instance.

Run everything from this directory:

    tlc -workers 2 -config MCEvmEngine.cfg MCEvmEngine     # one run
    tlapm NodeProofs.tla                                   # one module of proofs

`PROJECT.json` lists components, runs, the source lines behind every definition
(`map`), mutants (plausible bugs that each property catches), disagreements
between code and documentation (`findings`), and hazards.

## 1. Inventory

Story runs a Cosmos SDK application on CometBFT. It has no user transactions:
each consensus block carries one `MsgExecutionPayload` with a block of the
execution layer (EL), and all input of users arrives as logs of predeployed
contracts in the EL block before.

| Component | State | Operations | What makes it hard |
|---|---|---|---|
| `client/collections/queue.go` | front, rear, elements | Initialize, Enqueue, Dequeue, Peek, Get, Front, Len | positions survive dequeues and are used as withdrawal indices |
| withdrawal queues (`evmstaking/keeper/{withdrawal,reward}_queue.go`) | two queues | peek and dequeue up to the per-block maximum, enqueue | three handlers must cut both queues at the same place; finalisation compares only lengths |
| `x/evmengine` (`abci.go`, `proposal_server.go`, `msg_server.go`, `keeper.go`, `db.go`, `app/prouter.go`, `app/abci.go`) | execution head (stored); optimistic payload and sync flag (memory) | PrepareProposal, ProcessProposal, FinalizeBlock with ExecutionPayload, PostFinalize | several nodes, several rounds, crashes between Engine API calls, ELs that restart or lag, proposals of any content |
| messages (`*.pb.go`, `types/convert.go`, `types/tx.go`) | the bytes on the way | Size, Marshal, Unmarshal, conversions | three hand-in-hand encodings of each message; senders of a newer release; a block hash over the result |
| `x/evmstaking` events (`deposit.go`, `validator.go`, `withdraw.go`, `redelegation.go`, `unjail.go`, `update_commission.go`, `delegator_address.go`) | address maps, staking and distribution state | one handler per contract event | any order of events, cached contexts, singularity and v1.2.1 heights |
| `x/evmstaking` EndBlock (`abci.go`, `withdraw.go`, `ubi.go`) | sweep cursor, queues, balances | unstake withdrawals, reward sweep, UBI withdrawal | an error stops the chain; coins pass through accounts between claim and payout |
| upgrades (`evmengine/keeper/upgrades.go`, `app/app.go`, `app/upgrades.go`) | x/upgrade's plan, pending upgrade | software upgrade and cancel events, forks, PreBlocker | the store changes at the Terence height; binaries are replaced at any time; the node stops inside a block |
| `x/mint`, UBI share (`evmengine/keeper/ubi.go`, `evmstaking/keeper/ubi.go`), `UBIPool.sol` | parameters, distributions, open claims, balance | BeginBlocker, percentage events, setUBIDistribution, claimUBI | truncation; a token passes four owners; control leaves the contract in the middle of a claim |
| `IPTokenStaking.sol`, `story validator ...` (`cmd/{validator,flags,transaction}.go`) | settings, delegation ids; the commands and the EL's pool | every contract function, every command | checks made against a contract that changes before the transaction is mined; one nonce for two commands; lost answers |
| home of a node (`cmd/{init,keys,rollback}.go`, `app/{start,privkey,rollback}.go`) | keys, sign state, genesis, databases | init, key commands, run, rollback | a crash between two writes; the sign state is all that stops double signing |
| API server (`client/server`) | the server, query contexts | ~60 routes, paging, sums | blocks are committed and pruned between pages |
| upgrade handlers, genesis generation, wiring, libraries, bindings | - | - | no protocol state, or one-off migrations |

How they interact: contract logs of EL block n-1 are verified in ProcessProposal
and handled with EL block n by `x/evmstaking` and the upgrade and UBI handlers.
EndBlock of `x/evmstaking` enqueues withdrawals. `x/evmengine` peeks at the
queues when it builds or verifies a payload and dequeues when it finalises one;
the EL credits what the payload lists. Commands reach the chain only through the
contract's events, and the API reads committed states.

Everything the docs name is listed under `components` in `PROJECT.json`, with the
reason where it is not modelled; `hazards` gives each hard behaviour at the line
where it bites, with the properties that guard it.

## 2. Modules

| Module | Models | Extends |
|---|---|---|
| `Queue` | the persistent queue | |
| `WithdrawalQueue` | peeking and dequeuing of both queues with the shared budget | `Queue` |
| `WithdrawalFlow` | the block cycle around the queues on one chain | `WithdrawalQueue` |
| `PayoutFifo` | abstract: what users are promised, two FIFO lists paid in order | |
| `EvmEngine` | the network of validators, their ELs, crashes and restarts | `WithdrawalQueue` |
| `Codec` | the protobuf encoding that the generated code shares | |
| `Messages` | a table of fields, Marshal and Size of every message of the three modules | `Codec` |
| `CommitQuorum` | the quorum test of `prouter.go` | |
| `ProposalFlow` | a message from the sender's memory to the receiver's, a proposal from EL to EL | `Messages`, `CommitQuorum` |
| `Sums` | sums of amounts over finite sets | |
| `RewardSweep` | the loop of the reward sweep as operators | |
| `RewardSweepFlow` | the sweep over blocks while validators and delegations change | `RewardSweep` |
| `EvmStaking` | every event handler and EndBlock of `x/evmstaking` | `RewardSweep`, `Sums` |
| `Upgrades` | upgrade events, forks, PreBlocker, releases | |
| `UBIPool` | the contract | `Sums` |
| `Emission` | mint, the UBI share and its way into the contract | `UBIPool` |
| `IPTokenStaking` | the contract: which calls it accepts, what they change and emit | |
| `StakingRequests` | commands, contract owner and the EL's pool, interleaved | `IPTokenStaking` |
| `NodeHome` | the files of a node and the commands that write them | |
| `ApiHandlers` | what every handler of the API answers on a given state | |
| `ApiServer` | routes, contexts, paging and sums over a growing, pruned chain | `ApiHandlers` |
| `MC...` | instances for TLC | |
| `...Proofs`, `...Lemmas` | theorems | the modules they are about |

Definitions keep the names of the functions they translate. A handler is one
action, except where another actor can act in its middle: FinalizeBlock is split
at the Engine API calls (`FinalizePush`, `FinalizeForkchoice`, `FinalizeEnd`,
`Commit`), since the node can crash between them, `claimUBI` at the call to the
claimer, a command at every remote call, `init` and `rollback` at every write, and
the API's sums at every page. A handler that returns an error rolls its cached
context back and is no step, unless it leaves a trace (a failed PreBlocker stops
the node, a failed EndBlock sets `halted`).

State and code:

* `EvmEngine`: `app[n]` is the committed state of node n (head, queues), `opt[n]`
  is `mutablePayload`, `syncing[n]` is `isExecEngSyncing`, `work[n]` is where
  FinalizeBlock of n stands, `el[n]` is its EL (external: blocks, head, sync
  target, payload build). `proposals`, `accepted` and `chain` are CometBFT
  (external): any node may propose in any round, a block that a quorum accepted
  may be decided, decided blocks are replayed after a crash. `ledger` is a history
  of the states of a node without faults. A hash is the block itself.
  `Malformed` gives the proposals of a proposer that does not run this code: each
  differs in one part from what the verifier expects.
* `Codec`, `Messages`: a message is the tuple of its fields, a table gives their
  kinds. `MarshalBuffer` fills a buffer of the computed size from its end, as the
  generated code does, and `UnmarshalFrom` reads fields by number and wire type
  and skips the others. Varints are modelled bit by bit, words have `WordBits`.
* `EvmStaking`: `vals`, `jailed`, `delegation`, `unbonding` are the staking
  module; `rewards`, `commission`, `ubi` the distribution module; `balance` the
  bank (all external, modelled from their use); the three address maps, `cursor`
  and the queues are the module's own. `wq` and `rq` keep everything that was ever
  enqueued: dequeuing is in `WithdrawalFlow`.
* `RewardSweepFlow`: `cursor` is `ValidatorSweepIndex`; lists are sets in key order.
* `Upgrades`: `plan` is x/upgrade's plan, `pending` x/evmengine's, `binary` the
  upgrade handlers of the running release. `accepted` remembers accepted events.
* `UBIPool`: the contract's variables; `calls` are claims in the middle of their
  call; `promised` and `paid` are history. `Emission` adds the consensus side;
  amounts of the distribution module are counted in `Parts` of a token.
* `StakingRequests`: `cmd[c]` is a running command with the steps it has left,
  `pool`, `mined`, `nonces`, `balance` are the EL (external). Which call a command
  makes in which order is a sequence of step names, one list per command, taken
  from `validate...Flags` and the function that executes it.
* `NodeHome`: `home` has one field per file, with `None` for a missing and `Torn`
  for a half-written one; `data` has the heights of block store, CometBFT state
  and application; `cli` is the running command.
* `ApiServer`: `chain[h]` is the state after block h, of which the last `Keep` can
  be read; `session` is what the one client is doing.

## 3. What the runs check

Runs that pass:

| Run | Property | What it shows |
|---|---|---|
| `withdrawal_flow` | `AcceptedPayloadDequeues` | finalisation of an accepted payload removes exactly what it lists, although it compares only lengths; the loops that peek and dequeue cut at the same place |
| | `RefinesFifo` | the block cycle implements `PayoutFifo`: every withdrawal is credited once, in order, rewards never before the stake withdrawals they share a block with |
| `engine` | `NoFailedTransaction` | a decided block never fails on any node ("unexpected failed transaction [BUG]") |
| | `LedgerAgreement` | crashes, replays and EL restarts leave no trace in the state |
| | `PaidExactlyOnce`, `EventsDeliveredOnce` | withdrawals and events are neither lost nor doubled |
| | `ElFollowsDecided` | voting never moves an EL's head; at most one block is ahead after a crash |
| | `HonestProposalPasses` | an optimistic or fresh payload passes in any round and time |
| `engine_live` | `AdvancesOrTrapped`, `TrapNeedsRestart` | every height is decided, or the network is in one described trap, which only a restart of a consensus client opens |
| `proposal_flow` | `DecodedIsSent` | Size, Marshal and Unmarshal of every message fit together, also when a newer release added fields |
| | `PayloadSurvives` | the payload that reaches the validators' ELs is the one the proposer's EL built |
| | `PassesWithQuorum` | a proposal passes exactly with more than two thirds behind its parent |
| `reward_sweep` | `OneSweepPerBlock`, `ShortSweepIsComplete` | a stale cursor neither repeats nor exceeds the bound, and a sweep ends early only when all was visited |
| | `EverySettledDelegationSwept` | no delegation is skipped for ever |
| `staking` | `NeverHalts` | no order of events makes EndBlock fail |
| | `PrincipalAccounted`, `RewardsAccounted`, `NothingLeftBehind` | stake and rewards are conserved to the withdrawal queues |
| | `PayoutsGoWhereChosen` | payouts use the addresses of the latest events |
| `upgrades` | `RollingUpgrade`, `HaltsOnlyOnUnschedulable` | Terence's promise, and the only cause of a lasting stop |
| | `AppliedOnTime`, `PendingIsResolved` | on time, by a binary that knows it; a stopped node goes on |
| `ubi_pool` | `Solvent`, `PromisedIsPaidOrClaimable` | the pool covers its promises in every order of calls |
| | `EmissionAccounted` | every minted token is with the stakers, on its way, in the pool or paid; no more is minted than the inflation allows |
| `staking_requests` | `StakeIsBurned` | the contract keeps nothing and burns what it reports |
| | `PrintsOwnDelegation` | a stake prints the id of its own delegation, whatever is mined next to it |
| | `LocalChecksAgree` | amounts that the command lets through are accepted after rounding, for the settings it read |
| | `OutcomeIsTrue` | success means one event for the right account; an error means none, unless the node's answer was lost |
| | `ReturnsUnlessReplaced` | a command returns, except when another transaction took its nonce |
| `node_home` | `SignsOnce` | no key signs a height twice unless a command dropped its sign state |
| | `StartsAfterInit` | `init` without error leaves a home that starts, unless an earlier command was cut off |
| | `InStep` | CometBFT and application are at most the block apart that a restart replays; a completed rollback repairs one that was cut off |
| `api` | `PinnedReads` | with a height in the header pages tile one state and answers are repeatable |
| | `EndpointsAgree` | counts, listings, single lookups and totals of one state fit together up to rounding |
| | `TotalsOfOneHeight`, `TotalsAnswered` | the sums over pages are of one state and come to an end |

The trap of `engine_live` is behaviour of the code worth knowing. The sync flag
is raised in FinalizeBlock and read by both proposal handlers, but lowered only
when another block is finalised; if every quorum contains a node whose flag is
up, no block is. Likewise a node that holds an optimistic payload sends no
forkchoice update in PrepareProposal, so an EL that lost the head is not told to
sync. `Deaf` and `Trapped` describe these states exactly.

One run shows the code departing from a text of the repository (`findings`):
`upgrade_at_current_height`. The event schedules an upgrade, but after Terence a
plan for the running height is accepted and stops the next PreBlocker.

Other differences between text and code that were met while modelling and have
no run of their own. Paths without a directory are under
`client/x/evmstaking/keeper` or, for commands, `client/cmd`:

* `evmstaking/README.md:90` gives each queue the per-block maximum; rewards get
  what the stake queue leaves (`msg_server.go:72`).
* `deposit.go:124` saves addresses "regardless of any error below"; a refused
  deposit rolls them back with its cached context.
* `evmstaking/README.md:162` withdraws commission when all have unbonded;
  `withdraw.go:105` does so only if the self-stake was unstaked, not if it was
  redelegated away.
* `evmstaking/README.md:114` lets anyone unjail a validator, `ProcessUnjail` only the
  validator or its operator.
* The Terence fork's plan overwrites a plan that an earlier event put into
  x/upgrade.
* A key that is listed twice in a UBI distribution leaves a part of
  `totalPendingClaims` that nobody can claim.
* `rollback.go:29` says no blocks are removed; `app/rollback.go:14` removes them.
* `init.go:76` does not overwrite existing files; `init --encrypt-priv-key` after a
  plain key saves a fresh sign state over the old one (`init.go:362`). This is one
  of the ways into `lost` of `SignsOnce`.
* The API answers `next_key` in base64 and reads it back as raw bytes, so a client
  that follows it gets an empty page. Listings are therefore read by offset.
* An error of `ListenAndServe` after the first second is read by nobody
  (`server/server.go:143`): the node goes on without its API.

### Bounds

Bounds are constants whose comment says `bound`, or that are named `Max...`. The
instances are chosen so that the cases a property is about occur.

* `withdrawal_flow`: two stake withdrawals, one reward, payloads of two, three
  enqueued per queue: queues shorter than, equal to and longer than the budget,
  with payloads that end inside either queue.
* `engine`: two validators of which one is a quorum alone, so that the other may
  lag, be down, or reject; three heights (an empty first block, a block on the
  genesis, a block with parent events, withdrawals and the Terence rules), two
  crashes, one EL restart, two block times. Quorums that
  need several nodes are not covered by this instance.
* `engine_live`: four heights, one crash, one EL restart, no withdrawals.
* `proposal_flow`: per type the zero message, every single field and all fields,
  with numbers and lengths on both sides of 127; words of 16 bits and hashes of
  two bytes keep the bytes few; all sets of voters of three validators.
* `reward_sweep`: two validators, three delegators, bound two.
* `staking`: three accounts of which two may be validators, four events, heights
  up to the one from which all behave alike, before and after singularity and
  v1.2.1.
* `upgrades`: six blocks with Terence in the third, two names.
* `ubi_pool`: two keys, two distributions of up to two entries, five blocks of
  which four mint a truncated amount.
* `staking_requests`: every command, next to a second one of the same or another
  account; amounts around the rounding and the minima, one change of the settings,
  two gas prices, funds for about one of two transactions.
* `node_home`: three commands, one crash, two fresh keys, three heights of which
  two are kept, rollbacks of none, one and two blocks.
* `api`: two validators, two delegators, three blocks of which two are kept, pages
  of one, every route with valid and malformed arguments.

`CHECK_DEADLOCK FALSE` is used where reaching the bound ends the run (`engine`,
`upgrades`, `ubi_pool`, `node_home`, `api`), where an actor is done
(`proposal_flow`, `staking_requests`) or where the code really stops (a PreBlocker
that cannot schedule, the trap, a command that waits for a replaced transaction).

### Fairness

* `EvmEngine`: weak fairness of deciding, of each node taking some step of its
  handlers (a node is one sequential process), and of each EL's sync. CometBFT
  starts rounds until a block is decided, `retryForever` repeats Engine API calls,
  ELs sync from peers. Crashes and EL restarts have none.
* `RewardSweepFlow`: weak fairness of EndBlock; every block has one.
* `Upgrades`: weak fairness of PreBlocker and Commit, and of installing a release
  that a stopped node waits for; without an operator who does, nothing can be
  promised.
* `StakingRequests`: weak fairness of each command, a sequential process whose
  remote calls return or fail, and of the EL mining some transaction of its pool.
* `ApiServer`: weak fairness of the summing loop, a goroutine of its own. The
  client and the chain have none.

## 4. What is proved

Theorems hold for every value of the constants. The second column is the property
of section 3 that a run checks on a small instance; those in italics are stated in
the proofs only.

| Theorem | States | Module |
|---|---|---|
| `Refinement` | `RefinesFifo` | `NodeProofs` |
| `AcceptedIsDequeued` | `AcceptedPayloadDequeues` | |
| `FlowTypeCorrect` | *`FlowTypeOK`* | |
| `RollingUpgradeSafe`, `HaltsOnly`, `AppliedInTime` | `RollingUpgrade`, `HaltsOnlyOnUnschedulable`, `AppliedOnTime` | |
| `OneUpgradeWaitsSafe`, `UpgradesTypeCorrect` | *`OneUpgradeWaits`, `UpgradesTypeOK`* | |
| `NoDoubleSign`, `InitLeavesStartable`, `HeightsInStep` | `SignsOnce`, `StartsAfterInit`, `InStep` | |
| `Invariance` | *`IInv`* | `EvmEngineProofs` |
| `FinalizationNeverFails` | `NoFailedTransaction` | |
| `NodesAgree` | `LedgerAgreement` | |
| `WithdrawalsPaidOnce`, `EventsOnce` | `PaidExactlyOnce`, `EventsDeliveredOnce` | |
| `ElFollows` | `ElFollowsDecided` | |
| `HonestProposalsPass` | `HonestProposalPasses` | |
| `TrapHolds` | `TrapNeedsRestart` | |
| `QuorumIsExact`, `QuorumsIntersect` | *the quorum test of `CommitQuorum`* | |
| `Invariance` | *`AInv`, `CInv`* | `EvmStakingProofs` |
| `ChainNeverHalts` | `NeverHalts` | |
| `PrincipalIsAccounted`, `RewardsAreAccounted` | `PrincipalAccounted`, `RewardsAccounted` | |
| `NothingStays` | `NothingLeftBehind` | |
| `PayoutsFollowChoice` | `PayoutsGoWhereChosen` | |
| `AddressesAlwaysSet` | *`StakersHaveAddresses`* | |
| `SweepsOnce`, `ShortSweeps` | `OneSweepPerBlock`, `ShortSweepIsComplete` | `PayoutProofs` |
| `EmissionInvariance` | *`EmissionInv`* | |
| `PoolIsSolvent`, `PromisesAreKept` | `Solvent`, `PromisedIsPaidOrClaimable` | |
| `EmissionIsAccounted` | `EmissionAccounted` | |
| `LocalChecksAlwaysAgree` | `LocalChecksAgree` | `StakingRequestsProofs` |
| `WorthIsBurned`, `OutcomesAreTrue`, `PrintsOwn` | `StakeIsBurned`, `OutcomeIsTrue`, `PrintsOwnDelegation` | |

`QueueLemmas` and `OperatorLemmas` hold the facts about operators that several of
these proofs cite; `EndBlockLemmas` those about the loops of EndBlock that
`EvmStakingProofs` rests on.

**Loops and sums.** A Go loop is a function of the number of its iterations,
`f[i]` from `f[i - 1]`. What such a function is follows from one lemma on the
least natural number of a set: `LoopRuns` says that every loop whose body
maps states to states has such an `f`, and `LoopKeeps` that what holds at 0 and is kept
by each iteration holds at the end. A sum is the number of its units (`Sums`), so
facts about sums (`SumExcept`, `SumSnoc`, `SumConcat`) are facts about the
cardinality of finite sets, and no induction over data is needed.

**Withdrawals.** For every set of withdrawals and every positive
`MaxWithdrawalPerBlock`. `QueueLemmas` says what enqueue and dequeue preserve, how
long a peek is and what it lists. The inductive
invariant is `FlowTypeOK` with `Accepted`: in the phase between the vote and
finalisation the payload is exactly what `PayloadWithdrawals` gives on the queues
as they are. It is needed because finalisation checks the length only; it holds
because `compareWithdrawals` establishes it and nothing is enqueued in between.
`Refinement` then maps the two queues to the lists of `PayoutFifo`: an enqueue
appends, `ExecutionPayload` moves the two prefixes, all else stutters.
`AcceptedIsDequeued` adds that the loops over Get and Dequeue compute the closed
forms, by an argument on the first iteration at which they would not.

**Engine.** For any number of nodes, heights, crashes and EL restarts, any times
and withdrawals, and any set of non-empty quorums: intersection is CometBFT's
concern, since the model has one decided chain. The invariant `IInv` ties
everything to the decided chain. `ChainOK`: each decided message passed the checks
of ProcessProposal on the state before it, and the ledger is what finalising them
one after the other gives. `VotesOK`: so did each accepted proposal.
`ProposalsOK` and `OptOK`: what an honest node proposes or keeps as optimistic
payload was built on the ledger's state, for a time no later than the block's.
`NodesOK`: a node's committed state is the ledger's at its height, and what it
works on is the ledger's next one. `ElsOK`: an EL has every decided block below a
block it has, and its head and target are decided blocks not beyond its node's
next. The last is why `newPayload` on a decided block never answers INVALID, and
the first is why finalisation, which compares lengths only, never fails.
`TrapHolds` is an action property: a step without a crash keeps `Trapped`.

**Quorum.** For all powers: the comparison that divides first
(`totalPower*2/3 >= votedPower`) rejects exactly when `3 * voted <= 2 * total`, so
two sets of voters that pass share more than a third. Powers are naturals; that
`totalPower*2` fits an int64 is CometBFT's bound on the total power.

**Staking.** For all finite sets of accounts, all orders of events, amounts and
heights. The invariant has two halves. `AInv`: types, and `StakersHaveAddresses`,
which holds because handlers that give stake to a new account fill the maps first
and no handler removes an entry. `CInv`: the accounts themselves, with two facts
that make them inductive. `SelfStaked`: a validator that is not jailed has stake of
its own, since staking jails the others; and `CommissionHasStake`: whoever has a
commission has own stake delegated or unbonding, so an entry is still to mature
that pays it out. (`moved` excepts validators that redelegated all of it.)
EndBlock is proved loop by loop: `UnstakeLoop` burns what `PayMatured` has just
paid, entry after entry, so no balance falls short; `ResidueLoop` and `RewardLoop`
keep `Keeps`, by which coins only move between rewards, commission, account and
queue; `EndStateHolds` joins them. `ChainNeverHalts` follows, since each of the
error paths is one of a missing address or of a missing coin.

**Sweep.** For all finite sets of validators and delegators, every bound and every
cursor. The loop invariants are stated against the delegations in circular order
from the cursor (`Turn`): after i iterations the visits are those of the turns so
far, in order (`InTurn`), from which none is double (`VisitedOnce`) and, below
the bound, none is missing (`VisitedAll`). The first validator is special: the
sweep starts at a delegator index in it, and its head is not made up for at the
end of the round, which `ShortSweepIsComplete` says.

**Emission and pool.** For all finite sets of keys, all percentages and amounts.
`EmissionInv` is the three accounts with types and `Unset`: nothing is allotted to
or paid from a distribution that is still to come, without which setting one could
overwrite a promise. `DistributionKeeps` goes through the loop of
`setUBIDistribution`, also with a key listed twice.

**Upgrades.** For every set of names, every Terence height (also one never
reached) and every chain length. None of the invariants is inductive alone.
`UpgradesInv` adds that the Terence block separates the stores (x/upgrade holds
nothing after it, x/evmengine nothing before its PreBlocker is over), that the
running binary knows the fork, and that what waits is overdue by at most one block
(`NotOverdue`). `AppliedInTime` is an action property that follows from it.

**Home.** For any number of keys, heights, commands and crashes. `Protected`: the
sign state of a key that kept it covers every height it signed, on disk and in the
running node. `HomeOK`: what `init` has written by the step it is at. `Heights`:
where a rollback has taken which database.

**Commands.** For every number of commands, all requests, settings and rounding
units. `LocalChecksAlwaysAgree`: the command compares the unrounded amount with the
contract's minimum, the contract the rounded one; the setters round the minima
(`MinimaAreRounded`), and rounding down cannot pass below a multiple. The
other three rest on `Running`: the steps a command has left say whether its
transaction was sent and whether it was mined; `Receipt`, `Finished` and `Emitted`
relate receipt, outcome and event, and `Distinct` says that no delegation id is
given twice.

Assumptions are the named `ASSUME`s of the component modules: finite sets of
accounts, keys, validators and commands, parameters, amounts and settings that
are naturals (positive where genesis or the contract demands it), and model values
that are not numbers, records or addresses.

Only model-checked:

* liveness: `AdvancesOrTrapped`, `EverySettledDelegationSwept`,
  `PendingIsResolved`, `ReturnsUnlessReplaced`, `TotalsAnswered` (fairness and
  ENABLED are beyond the prover);
* `proposal_flow`: Marshal, Unmarshal and Size are recursive over fields and bytes,
  and what they compute for all messages needs induction over data;
* `api`: paging and the sums over pages are folds over sequences of answers.

## 5. Not modelled

* EL execution, gas, and the contents of transactions; the EL is the answers the
  keeper and the commands act on.
* Slashing amounts, reward arithmetic and periods of the staking module. Amounts
  in `EvmStaking` are small integers; the rounding to gwei is in `IPTokenStaking`.
* CometBFT's rounds in detail, vote extensions and evidence.
* Elliptic-curve arithmetic: keys are model values that are valid or not.
* The JSON form of payloads before Terence, and the decoding of logs by the
  contract bindings.
* Migrations of the individual upgrades (one-off, at heights that have passed),
  store loaders, genesis generation, request decoding of the API, passwords,
  logging and metrics, the Engine API mock (used by tests only).
* The whole way from a command to the credit on the EL in one module: the parts
  meet at the contract's events, the withdrawal queues and the payload, and each
  module takes any value of its neighbour as input, but the composed state space
  is out of TLC's reach.
