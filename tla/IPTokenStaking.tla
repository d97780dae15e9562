--------------------------- MODULE IPTokenStaking --------------------------
(***************************************************************************)
(* The staking contract of the execution layer.  It keeps no stake: what   *)
(* is sent to it is burned or refunded, and an event asks the consensus    *)
(* layer to do the rest.  A transaction t calls one of its functions; the  *)
(* operator named after the function says whether the call is accepted,    *)
(* Event(t) what it emits, Execute(t) what an accepted call changes.       *)
(***************************************************************************)
EXTENDS Integers, FiniteSets

CONSTANTS Accounts,          \* an account is also the key of its validator
          NoAccount,         \* address(0)
          STAKE_ROUNDING, DEFAULT_MIN_FEE, MAX_MONIKER_LENGTH, MAX_DATA_LENGTH

ASSUME StakingConstants ==
  /\ STAKE_ROUNDING \in Nat \ {0} /\ DEFAULT_MIN_FEE \in Nat \ {0}
  /\ NoAccount \notin Accounts

FLEXIBLE == 0
LONG == 3

VARIABLES fee, minStakeAmount, minUnstakeAmount, minCommissionRate,
          delegationIdCounter,
          burned,     \* balance of address(0)
          held        \* balance of the contract

settings == <<fee, minStakeAmount, minUnstakeAmount, minCommissionRate>>
contract == <<fee, minStakeAmount, minUnstakeAmount, minCommissionRate,
              delegationIdCounter, burned, held>>

remainder(raw) == raw % STAKE_ROUNDING

roundedStakeAmount(raw) == raw - remainder(raw)
-----------------------------------------------------------------------------
\* Setters, which only the owner calls; initialize goes through them too.
ValidSetting(stakeMin, unstakeMin, rate, newFee) ==
  /\ roundedStakeAmount(stakeMin) > 0 /\ roundedStakeAmount(unstakeMin) > 0
  /\ rate > 0 /\ newFee >= DEFAULT_MIN_FEE

initialize(stakeMin, unstakeMin, rate, newFee) ==
  /\ ValidSetting(stakeMin, unstakeMin, rate, newFee)
  /\ minStakeAmount = roundedStakeAmount(stakeMin)
  /\ minUnstakeAmount = roundedStakeAmount(unstakeMin)
  /\ minCommissionRate = rate /\ fee = newFee
  /\ delegationIdCounter = 0 /\ burned = 0 /\ held = 0

setFee(new) ==
  /\ new >= DEFAULT_MIN_FEE /\ fee' = new
  /\ UNCHANGED <<minStakeAmount, minUnstakeAmount, minCommissionRate,
                 delegationIdCounter, burned, held>>

setMinStakeAmountUnrounded(new) ==    \* mutant: the minimum is kept as given
  /\ roundedStakeAmount(new) > 0 /\ minStakeAmount' = new
  /\ UNCHANGED <<fee, minUnstakeAmount, minCommissionRate, delegationIdCounter, burned, held>>

setMinStakeAmount(new) ==
  /\ roundedStakeAmount(new) > 0 /\ minStakeAmount' = roundedStakeAmount(new)
  /\ UNCHANGED <<fee, minUnstakeAmount, minCommissionRate, delegationIdCounter, burned, held>>

setMinUnstakeAmount(new) ==
  /\ roundedStakeAmount(new) > 0 /\ minUnstakeAmount' = roundedStakeAmount(new)
  /\ UNCHANGED <<fee, minStakeAmount, minCommissionRate, delegationIdCounter, burned, held>>

setMinCommissionRate(new) ==
  /\ new > 0 /\ minCommissionRate' = new
  /\ UNCHANGED <<fee, minStakeAmount, minUnstakeAmount, delegationIdCounter, burned, held>>
-----------------------------------------------------------------------------
chargesFee(t) == t.value = fee

\* A compressed key is valid when it is that of a point of the curve.
verifyCmpPubkey(key) == key \in Accounts

verifyCmpPubkeyWithExpectedAddress(key, expected) == verifyCmpPubkey(key) /\ key = expected

setOperator(t) == chargesFee(t) /\ t.address # NoAccount

unsetOperator(t) == chargesFee(t)

setWithdrawalAddress(t) == chargesFee(t) /\ t.address # NoAccount

setRewardsAddress(t) == chargesFee(t) /\ t.address # NoAccount

createValidator(t) ==
  /\ verifyCmpPubkeyWithExpectedAddress(t.validator, t.from)
  /\ roundedStakeAmount(t.value) >= minStakeAmount
  /\ t.rate >= minCommissionRate /\ t.rate <= t.maxRate
  /\ t.moniker <= MAX_MONIKER_LENGTH /\ t.data <= MAX_DATA_LENGTH

updateValidatorCommission(t) ==
  /\ chargesFee(t) /\ verifyCmpPubkeyWithExpectedAddress(t.validator, t.from)
  /\ t.rate >= minCommissionRate

stakeOnBehalf(t) ==
  /\ verifyCmpPubkey(t.validator) /\ t.delegator # NoAccount
  /\ t.data <= MAX_DATA_LENGTH /\ t.period <= LONG
  /\ roundedStakeAmount(t.value) >= minStakeAmount

stake(t) == stakeOnBehalf([t EXCEPT !.delegator = t.from])

redelegateOnBehalf(t) ==
  /\ chargesFee(t) /\ verifyCmpPubkey(t.validator) /\ verifyCmpPubkey(t.dst)
  /\ t.delegator # NoAccount /\ t.validator # t.dst
  /\ t.id <= delegationIdCounter
  /\ roundedStakeAmount(t.amount) >= minStakeAmount

redelegate(t) == redelegateOnBehalf([t EXCEPT !.delegator = t.from])

\* Unlike redelegateOnBehalf, this one does not look at the delegator.
unstakeOnBehalf(t) ==
  /\ chargesFee(t) /\ verifyCmpPubkey(t.validator)
  /\ t.id <= delegationIdCounter
  /\ roundedStakeAmount(t.amount) >= minUnstakeAmount
  /\ t.data <= MAX_DATA_LENGTH

unstake(t) == unstakeOnBehalf([t EXCEPT !.delegator = t.from])

unjail(t) ==
  /\ chargesFee(t) /\ verifyCmpPubkeyWithExpectedAddress(t.validator, t.from)
  /\ t.data <= MAX_DATA_LENGTH

unjailOnBehalf(t) == chargesFee(t) /\ verifyCmpPubkey(t.validator) /\ t.data <= MAX_DATA_LENGTH

Accepts(t) ==
  CASE t.method = "setOperator"               -> setOperator(t)
    [] t.method = "unsetOperator"             -> unsetOperator(t)
    [] t.method = "setWithdrawalAddress"      -> setWithdrawalAddress(t)
    [] t.method = "setRewardsAddress"         -> setRewardsAddress(t)
    [] t.method = "createValidator"           -> createValidator(t)
    [] t.method = "updateValidatorCommission" -> updateValidatorCommission(t)
    [] t.method = "stake"                     -> stake(t)
    [] t.method = "stakeOnBehalf"             -> stakeOnBehalf(t)
    [] t.method = "redelegate"                -> redelegate(t)
    [] t.method = "redelegateOnBehalf"        -> redelegateOnBehalf(t)
    [] t.method = "unstake"                   -> unstake(t)
    [] t.method = "unstakeOnBehalf"           -> unstakeOnBehalf(t)
    [] t.method = "unjail"                    -> unjail(t)
    [] t.method = "unjailOnBehalf"            -> unjailOnBehalf(t)
-----------------------------------------------------------------------------
\* Who a request is for, what it is worth, and the delegation it names.
Deposits == {"createValidator", "stake", "stakeOnBehalf"}
OnBehalf == {"stakeOnBehalf", "redelegateOnBehalf", "unstakeOnBehalf"}

IdOf(t) == IF t.period = FLEXIBLE THEN 0 ELSE delegationIdCounter + 1

Event(t) ==
  [method    |-> t.method,
   operator  |-> t.from,
   delegator |-> IF t.method \in OnBehalf THEN t.delegator ELSE t.from,
   amount    |-> CASE t.method \in Deposits -> roundedStakeAmount(t.value)
                   [] OTHER -> roundedStakeAmount(t.amount),
   id        |-> CASE t.method \in {"stake", "stakeOnBehalf"} -> IdOf(t)
                   [] OTHER -> t.id]

refundRemainderKept(t) == 0    \* mutant: the remainder stays in the contract

\* The caller is an account without code, so the refund cannot fail.
refundRemainder(t) == IF t.method \in Deposits THEN remainder(t.value) ELSE 0

Burns(t) == IF t.method \in Deposits THEN roundedStakeAmount(t.value) ELSE t.value

Execute(t) ==
  /\ Accepts(t)
  /\ burned' = burned + Burns(t)
  /\ held' = held + t.value - Burns(t) - refundRemainder(t)
  /\ delegationIdCounter' = IF t.method \in {"stake", "stakeOnBehalf"} /\ t.period # FLEXIBLE
                            THEN delegationIdCounter + 1 ELSE delegationIdCounter
  /\ UNCHANGED settings
=============================================================================
