-------------------------- MODULE StakingRequests --------------------------
(***************************************************************************)
(* The validator commands of the command line, several at a time: each one *)
(* checks its flags against the settings of the staking contract and       *)
(* against the staking API, reads the fee, and sends one transaction.      *)
(* Every step of a command is a call to a remote node, so the owner of the *)
(* contract and the other commands act between any two of them.            *)
(***************************************************************************)
EXTENDS IPTokenStaking, Sequences

CONSTANTS Commands,
          Requests,             \* flags that a command may be given
          ApiAnswers,           \* what the staking API knows of a validator
          Prices,               \* gas prices after the 20% increase
          Settings,             \* values the owner chooses from
          Initial,              \* arguments of initialize
          Funds, MaxChanges,
          None

VARIABLES cmd,       \* the running commands
          nonces, balance, pool, mined, event,   \* execution client (external)
          changes    \* of the settings, at most MaxChanges

external == <<nonces, balance, pool, mined, event>>
vars == <<contract, cmd, external, changes>>

\* Remote steps of validate...Flags.  Those of the staking API come last.
validateOperatorFlags == <<>>
validateWithdrawalFlags == <<>>
validateRewardsFlags == <<>>
validateValidatorCreateFlags == <<"minStakeAmount", "commissionRate", "absent">>
validateValidatorStakeFlags == <<"minStakeAmount", "found">>
validateValidatorStakeOnBehalfFlags == <<"minStakeAmount", "found">>
validateValidatorUnstakeFlags == <<"minUnstakeAmount", "found">>
validateValidatorUnstakeOnBehalfFlags == <<"minUnstakeAmount", "found">>
validateValidatorRedelegateFlags == <<"minRedelegateAmount", "found", "found">>
validateValidatorRedelegateOnBehalfFlags == <<"minRedelegateAmount", "found", "found">>
validateValidatorUnjailFlags == <<"found", "minSelfDelegation">>
validateValidatorUnjailOnBehalfFlags == <<"found", "minSelfDelegation">>
validateUpdateValidatorCommissionFlags == <<"found", "newCommissionRate">>

ApiChecks == {"absent", "found", "minSelfDelegation", "newCommissionRate"}
ContractChecks == {"minStakeAmount", "minUnstakeAmount", "minRedelegateAmount", "commissionRate"}

\* Remote steps of the functions that execute the commands.
sendTransaction == <<"nonce", "estimate", "balance", "send", "wait">>

createValidatorCmd == sendTransaction
stakeCmd == sendTransaction \o <<"delegationID">>
stakeOnBehalfCmd == sendTransaction \o <<"delegationID">>
setWithdrawalAddressCmd == <<"fee">> \o sendTransaction
setRewardsAddressCmd == <<"fee">> \o sendTransaction
setOperatorCmd == <<"fee">> \o sendTransaction
unsetOperatorCmd == <<"fee">> \o sendTransaction
unstakeCmd == <<"fee">> \o sendTransaction
unstakeOnBehalfCmd == <<"fee">> \o sendTransaction
redelegateCmd == <<"fee">> \o sendTransaction
redelegateOnBehalfCmd == <<"fee">> \o sendTransaction
unjailCmd == <<"fee">> \o sendTransaction
unjailOnBehalfCmd == <<"fee">> \o sendTransaction
updateValidatorCommissionCmd == <<"fee">> \o sendTransaction

\* The commands, as newValidatorCmds puts them together.
Validation ==
  [setOperator |-> validateOperatorFlags, unsetOperator |-> validateOperatorFlags,
   setWithdrawalAddress |-> validateWithdrawalFlags, setRewardsAddress |-> validateRewardsFlags,
   createValidator |-> validateValidatorCreateFlags,
   stake |-> validateValidatorStakeFlags, stakeOnBehalf |-> validateValidatorStakeOnBehalfFlags,
   unstake |-> validateValidatorUnstakeFlags,
   unstakeOnBehalf |-> validateValidatorUnstakeOnBehalfFlags,
   redelegate |-> validateValidatorRedelegateFlags,
   redelegateOnBehalf |-> validateValidatorRedelegateOnBehalfFlags,
   unjail |-> validateValidatorUnjailFlags,
   unjailOnBehalf |-> validateValidatorUnjailOnBehalfFlags,
   updateValidatorCommission |-> validateUpdateValidatorCommissionFlags]

Execution ==
  [setOperator |-> setOperatorCmd, unsetOperator |-> unsetOperatorCmd,
   setWithdrawalAddress |-> setWithdrawalAddressCmd, setRewardsAddress |-> setRewardsAddressCmd,
   createValidator |-> createValidatorCmd,
   stake |-> stakeCmd, stakeOnBehalf |-> stakeOnBehalfCmd,
   unstake |-> unstakeCmd, unstakeOnBehalf |-> unstakeOnBehalfCmd,
   redelegate |-> redelegateCmd, redelegateOnBehalf |-> redelegateOnBehalfCmd,
   unjail |-> unjailCmd, unjailOnBehalf |-> unjailOnBehalfCmd,
   updateValidatorCommission |-> updateValidatorCommissionCmd]

\* Without the staking API only the checks against the contract, which come
\* first.
ContractSteps(s) == SubSeq(s, 1, Cardinality({i \in DOMAIN s : s[i] \in ContractChecks}))

Steps(r) ==
  (IF r.storyAPI THEN Validation[r.method] ELSE ContractSteps(Validation[r.method]))
    \o Execution[r.method]

\* Flags name a command and its sender; None is no receipt, result or event.
ASSUME RequestConstants ==
  /\ IsFiniteSet(Commands)
  /\ \A c \in Commands : \A r \in Requests[c] :
       /\ r.method \in DOMAIN Validation /\ r.from \in Accounts
       /\ r.delegator \in Accounts \union {NoAccount}
       /\ r.amount \in Nat /\ r.period \in Nat /\ r.id \in Nat
  /\ Settings \subseteq Nat /\ MaxChanges \in Nat
  /\ Initial.stakeMin \in Nat /\ Initial.unstakeMin \in Nat /\ Initial.fee \in Nat
  /\ None \notin {"ok", "reverted", "replaced", "success", "error"}
  /\ None \notin [method : DOMAIN Validation, operator : Accounts,
                   delegator : Accounts \union {NoAccount}, amount : Nat, id : Nat]
-----------------------------------------------------------------------------
\* The checks; answer is what the staking API says of the validator.
validateMinStakeAmount(r) == r.amount >= minStakeAmount
validateMinUnstakeAmount(r) == r.amount >= minUnstakeAmount
validateMinRedelegateAmount(r) == r.amount >= minStakeAmount

validateCommissionRate(r) ==
  r.rate >= minCommissionRate /\ r.rate <= r.maxRate /\ r.maxChange <= r.maxRate

isValidatorFound(answer) == answer.exists

validateMinSelfDelegation(answer) == answer.exists /\ answer.self >= answer.minSelf

validateNewCommissionRate(r, answer) ==
  /\ answer.exists /\ answer.updatedHoursAgo >= 24
  /\ r.rate <= answer.maxRate /\ r.rate - answer.rate <= answer.maxChange

Passes(step, r, answer) ==
  CASE step = "minStakeAmount"      -> validateMinStakeAmount(r)
    [] step = "minUnstakeAmount"    -> validateMinUnstakeAmount(r)
    [] step = "minRedelegateAmount" -> validateMinRedelegateAmount(r)
    [] step = "commissionRate"      -> validateCommissionRate(r)
    [] step = "absent"              -> ~isValidatorFound(answer)
    [] step = "found"               -> isValidatorFound(answer)
    [] step = "minSelfDelegation"   -> validateMinSelfDelegation(answer)
    [] step = "newCommissionRate"   -> validateNewCommissionRate(r, answer)
-----------------------------------------------------------------------------
Idle == [request |-> None, steps |-> <<>>, value |-> 0, nonce |-> 0, price |-> 0,
         printed |-> 0, lost |-> FALSE, outcome |-> None]

Init ==
  /\ initialize(Initial.stakeMin, Initial.unstakeMin, Initial.rate, Initial.fee)
  /\ cmd = [c \in Commands |-> Idle]
  /\ nonces = [a \in Accounts |-> 0] /\ balance = [a \in Accounts |-> Funds]
  /\ pool = {} /\ changes = 0
  /\ mined = [c \in Commands |-> None] /\ event = [c \in Commands |-> None]

At(c, step) == cmd[c].steps # <<>> /\ Head(cmd[c].steps) = step

\* The command goes on with its next step, or is through.
Continue(c, k) ==
  cmd' = [cmd EXCEPT ![c] = [k EXCEPT !.steps = Tail(@),
                                      !.outcome = IF Len(k.steps) = 1 THEN "success" ELSE @]]

Return(c) == cmd' = [cmd EXCEPT ![c] = [Idle EXCEPT !.outcome = "error"]]

ContinueIf(condition, c) == IF condition THEN Continue(c, cmd[c]) ELSE Return(c)

\* r.complete: the key is loaded, every required flag is set, and keys and
\* amounts parse.
Invoke(c, r) ==
  /\ cmd[c] = Idle
  /\ cmd' = [cmd EXCEPT ![c] =
       IF ~r.complete THEN [Idle EXCEPT !.outcome = "error"]
       ELSE [Idle EXCEPT !.request = r, !.steps = Steps(r),
                         !.value = IF r.method \in Deposits THEN r.amount ELSE 0]]
  /\ UNCHANGED <<contract, external, changes>>

CheckFlags(c) ==
  /\ cmd[c].steps # <<>> /\ Head(cmd[c].steps) \in ContractChecks \union ApiChecks
  /\ \E answer \in ApiAnswers : ContinueIf(Passes(Head(cmd[c].steps), cmd[c].request, answer), c)
  /\ UNCHANGED <<contract, external, changes>>

ReadFee(c) ==
  /\ At(c, "fee") /\ Continue(c, [cmd[c] EXCEPT !.value = fee])
  /\ UNCHANGED <<contract, external, changes>>
-----------------------------------------------------------------------------
\* sendTransaction.
Transaction(c) ==
  LET r == cmd[c].request
  IN  [method |-> r.method, from |-> r.from, value |-> cmd[c].value, amount |-> r.amount,
       validator |-> r.validator, dst |-> r.dst, delegator |-> r.delegator,
       address |-> r.address, period |-> r.period, id |-> r.id, rate |-> r.rate,
       maxRate |-> r.maxRate, moniker |-> r.moniker, data |-> 0]

From(c) == cmd[c].request.from

\* gas times fee cap plus value, with one unit of gas
totalTxCost(k) == 2 * k.price + k.value

Queued(a) == {c \in pool : From(c) = a}

QueuedCost(cs) == Cardinality(UNION {{d} \X (1 .. totalTxCost(cmd[d])) : d \in cs})

PendingNonceAt(a) == nonces[a] + Cardinality(Queued(a))

PrepareNonce(c) ==
  /\ At(c, "nonce")
  /\ \E p \in Prices :
       Continue(c, [cmd[c] EXCEPT !.nonce = PendingNonceAt(From(c)), !.price = p])
  /\ UNCHANGED <<contract, external, changes>>

estimateGas(c) ==
  /\ At(c, "estimate")
  /\ ContinueIf(Accepts(Transaction(c)) /\ balance[From(c)] >= cmd[c].value, c)
  /\ UNCHANGED <<contract, external, changes>>

CheckBalance(c) ==
  /\ At(c, "balance") /\ ContinueIf(balance[From(c)] >= totalTxCost(cmd[c]), c)
  /\ UNCHANGED <<contract, external, changes>>

\* The pool takes a transaction with a new nonce, or one that pays more than
\* the one it has with that nonce, as long as the account can pay for all it
\* has in the pool.
Rivals(c) == {d \in Queued(From(c)) : cmd[d].nonce = cmd[c].nonce}

PoolTakes(c) ==
  /\ cmd[c].nonce >= nonces[From(c)]
  /\ \A d \in Rivals(c) : cmd[c].price > cmd[d].price
  /\ QueuedCost(Queued(From(c)) \ Rivals(c)) + totalTxCost(cmd[c]) <= balance[From(c)]

\* The answer to an accepted transaction may be lost.
SendTransaction(c) ==
  /\ At(c, "send")
  /\ IF PoolTakes(c)
     THEN /\ pool' = (pool \ Rivals(c)) \union {c}
          /\ mined' = [d \in Commands |-> IF d \in Rivals(c) THEN "replaced" ELSE mined[d]]
          /\ \/ Continue(c, cmd[c])
             \/ cmd' = [cmd EXCEPT ![c].steps = <<>>, ![c].outcome = "error", ![c].lost = TRUE]
     ELSE Return(c) /\ UNCHANGED <<pool, mined>>
  /\ UNCHANGED <<contract, nonces, balance, event, changes>>

WaitMinedIgnoringStatus(c) ==    \* mutant: the status of the receipt is not read
  /\ At(c, "wait") /\ mined[c] \in {"ok", "reverted"}
  /\ Continue(c, cmd[c])
  /\ UNCHANGED <<contract, external, changes>>

WaitMinedSuccess(c) ==    \* mutant: goes on waiting after a failed receipt
  /\ At(c, "wait") /\ mined[c] = "ok"
  /\ Continue(c, cmd[c])
  /\ UNCHANGED <<contract, external, changes>>

WaitMined(c) ==
  /\ At(c, "wait") /\ mined[c] \in {"ok", "reverted"}
  /\ ContinueIf(mined[c] = "ok", c)
  /\ UNCHANGED <<contract, external, changes>>

extractLatestDelegationID(c) ==    \* mutant: asks the contract for its counter
  /\ At(c, "delegationID")
  /\ Continue(c, [cmd[c] EXCEPT !.printed =
                    IF cmd[c].request.period = FLEXIBLE THEN 0 ELSE delegationIdCounter])
  /\ UNCHANGED <<contract, external, changes>>

extractDelegationIDFromStake(c) ==
  /\ At(c, "delegationID")
  /\ Continue(c, [cmd[c] EXCEPT !.printed = event[c].id])
  /\ UNCHANGED <<contract, external, changes>>

\* Any other call may fail; waiting goes on over failures.
CallFails(c) ==
  /\ cmd[c].steps # <<>> /\ Head(cmd[c].steps) \notin {"wait", "delegationID"}
  /\ Return(c)
  /\ UNCHANGED <<contract, external, changes>>

Command(c) ==
  \/ CheckFlags(c) \/ ReadFee(c) \/ PrepareNonce(c) \/ estimateGas(c) \/ CheckBalance(c)
  \/ SendTransaction(c) \/ WaitMined(c) \/ extractDelegationIDFromStake(c)
-----------------------------------------------------------------------------
\* A block with the next transaction of an account.
Mine(c) ==
  LET t == Transaction(c)  a == From(c)
  IN  /\ c \in pool /\ cmd[c].nonce = nonces[a]
      /\ pool' = pool \ {c} /\ nonces' = [nonces EXCEPT ![a] = @ + 1]
      /\ \/ /\ Execute(t)
            /\ mined' = [mined EXCEPT ![c] = "ok"]
            /\ event' = [event EXCEPT ![c] = Event(t)]
            /\ balance' = [balance EXCEPT ![a] = @ - t.value + refundRemainder(t) - cmd[c].price]
         \/ /\ ~Accepts(t)
            /\ mined' = [mined EXCEPT ![c] = "reverted"]
            /\ balance' = [balance EXCEPT ![a] = @ - cmd[c].price]
            /\ UNCHANGED <<contract, event>>
      /\ UNCHANGED <<cmd, changes>>

Owner ==
  /\ changes < MaxChanges /\ changes' = changes + 1
  /\ \E new \in Settings :
       setFee(new) \/ setMinStakeAmount(new) \/ setMinUnstakeAmount(new) \/ setMinCommissionRate(new)
  /\ UNCHANGED <<cmd, external>>

Next ==
  \/ \E c \in Commands : \/ \E r \in Requests[c] : Invoke(c, r)
                         \/ Command(c) \/ CallFails(c) \/ Mine(c)
  \/ Owner

\* A command runs until it returns, and the chain goes on.
Fairness ==
  /\ \A c \in Commands : WF_vars(Command(c))
  /\ WF_vars(\E c \in Commands : Mine(c))

Spec == Init /\ [][Next]_vars /\ Fairness
-----------------------------------------------------------------------------
\* What an event is worth, and the units of all events.
Worth(c) == IF event[c].method \in Deposits THEN event[c].amount ELSE cmd[c].value

Units == UNION {{c} \X (1 .. Worth(c)) : c \in {d \in Commands : event[d] # None}}

\* The contract keeps nothing, and what it burned is the stake that events
\* report to the consensus layer and the fees of the other requests.
StakeIsBurned == held = 0 /\ burned = Cardinality(Units)

\* What stake prints is the delegation its own transaction opened: 0 for a
\* flexible one, a number of its own for a locked one, whatever is mined
\* between the receipt and the output.
PrintsOwnDelegation ==
  \A c \in Commands : cmd[c].outcome = "success" /\ cmd[c].request.method \in {"stake", "stakeOnBehalf"} =>
    /\ cmd[c].printed = event[c].id
    /\ cmd[c].printed > 0 <=> cmd[c].request.period # FLEXIBLE
    /\ \A d \in Commands \ {c} : cmd[d].printed = cmd[c].printed => cmd[c].printed = 0

\* An amount that passes the check of the command, which does not round, is
\* one that the contract accepts after rounding.
LocalChecksAgree ==
  \A r \in UNION {Requests[c] : c \in Commands} :
    /\ validateMinStakeAmount(r) => roundedStakeAmount(r.amount) >= minStakeAmount
    /\ validateMinUnstakeAmount(r) => roundedStakeAmount(r.amount) >= minUnstakeAmount

\* A command that reports success made the contract emit one event, for the
\* delegator it was given; one that reports an error did not, unless the
\* node's answer to an accepted transaction was lost.
OutcomeIsTrue ==
  \A c \in Commands :
    /\ cmd[c].outcome = "success" => /\ event[c] # None
                                     /\ event[c].method = cmd[c].request.method
                                     /\ event[c].operator = From(c)
    /\ cmd[c].outcome = "error" /\ event[c] # None => cmd[c].lost

\* A command returns, unless another command of the account took its nonce
\* with a higher price: then it waits for ever (WaitMined has no time limit).
ReturnsUnlessReplaced ==
  \A c \in Commands : cmd[c].steps # <<>> ~> cmd[c].steps = <<>> \/ mined[c] = "replaced"
=============================================================================
