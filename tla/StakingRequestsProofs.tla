----------------------- MODULE StakingRequestsProofs ----------------------
(***************************************************************************)
(* Two arguments about the validator commands.  The minima that the        *)
(* contract keeps are multiples of STAKE_ROUNDING, so comparing an amount  *)
(* with them gives the same answer before and after rounding, whatever     *)
(* values the owner sets.  And a command's place in its list of steps says *)
(* whether its transaction was sent and mined, from which it follows that  *)
(* what the commands report, print and burn is what happened.              *)
(***************************************************************************)
EXTENDS StakingRequests, FiniteSetTheorems, SequenceTheorems, TLAPS

Multiple(n) == \E k \in Nat : n = k * STAKE_ROUNDING

\* The inductive invariant: both minima went through the rounding setters.
MinimaAreRounded == Multiple(minStakeAmount) /\ Multiple(minUnstakeAmount)

\* roundedStakeAmount gives a multiple of STAKE_ROUNDING.
LEMMA RoundingGivesMultiple ==
  ASSUME NEW n \in Nat
  PROVE  Multiple(roundedStakeAmount(n))
<1> DEFINE q == n \div STAKE_ROUNDING
<1>1. q \in Nat /\ n = STAKE_ROUNDING * q + (n % STAKE_ROUNDING)
  BY StakingConstants
<1>2. roundedStakeAmount(n) = q * STAKE_ROUNDING
  <2> HIDE DEF q
  <2>1. STAKE_ROUNDING \in Nat /\ n % STAKE_ROUNDING \in Int
    BY StakingConstants
  <2> QED  BY <1>1, <2>1 DEF roundedStakeAmount, remainder
<1> QED  BY <1>1, <1>2 DEF Multiple

\* Rounding down does not cross a multiple of STAKE_ROUNDING.
LEMMA RoundingKeepsMinimum ==
  ASSUME NEW n \in Nat, NEW m, Multiple(m), n >= m
  PROVE  roundedStakeAmount(n) >= m
<1> DEFINE R == STAKE_ROUNDING
           q == n \div R
           r == n % R
<1>1. PICK k \in Nat : m = k * R
  BY DEF Multiple
<1>2. R \in Nat \ {0} /\ q \in Nat /\ r \in 0 .. R - 1 /\ n = R * q + r
  BY StakingConstants
<1>3. roundedStakeAmount(n) = n - r
  BY DEF roundedStakeAmount, remainder
<1> HIDE DEF R, q, r
<1>4. q >= k
  <2> SUFFICES ASSUME q + 1 <= k PROVE FALSE  BY <1>1, <1>2
  <2>1. R * (q + 1) <= R * k  BY <1>1, <1>2
  <2>2. R * (q + 1) = R * q + R  BY <1>2
  <2> QED  BY <1>1, <1>2, <2>1, <2>2
<1>5. R * q >= R * k
  BY <1>1, <1>2, <1>4
<1> QED  BY <1>1, <1>2, <1>3, <1>5

\* An amount that passes the unrounded check of a command passes the rounded
\* check of the contract, in every state of any number of commands and of
\* any changes by the owner (validateMinStakeAmount against _setMinStakeAmount).
THEOREM LocalChecksAlwaysAgree == Spec => []LocalChecksAgree
<1>1. Init => MinimaAreRounded
  BY RoundingGivesMultiple, RequestConstants DEF Init, initialize, MinimaAreRounded
<1>2. MinimaAreRounded /\ [Next]_vars => MinimaAreRounded'
  <2> SUFFICES ASSUME MinimaAreRounded, [Next]_vars PROVE MinimaAreRounded'  OBVIOUS
  <2> DEFINE Kept == UNCHANGED <<minStakeAmount, minUnstakeAmount>>
  <2>1. ASSUME Kept PROVE MinimaAreRounded'
    BY <2>1 DEF MinimaAreRounded, Multiple
  <2>2. CASE Owner
    <3>1. PICK new \in Settings : \/ setFee(new) \/ setMinStakeAmount(new)
                                  \/ setMinUnstakeAmount(new) \/ setMinCommissionRate(new)
      BY <2>2 DEF Owner
    <3>2. Multiple(roundedStakeAmount(new))
      BY RoundingGivesMultiple, RequestConstants
    <3>3. CASE setFee(new) \/ setMinCommissionRate(new)
      BY <2>1, <3>3 DEF setFee, setMinCommissionRate
    <3>4. CASE setMinStakeAmount(new)
      BY <3>2, <3>4 DEF setMinStakeAmount, MinimaAreRounded, Multiple
    <3>5. CASE setMinUnstakeAmount(new)
      BY <3>2, <3>5 DEF setMinUnstakeAmount, MinimaAreRounded, Multiple
    <3> QED  BY <3>1, <3>3, <3>4, <3>5
  <2>3. ASSUME NEW c \in Commands, \E r \in Requests[c] : Invoke(c, r) PROVE Kept
    BY <2>3 DEF Invoke, contract
  <2>4. ASSUME NEW c \in Commands, Command(c) PROVE Kept
    BY <2>4, Zenon DEF Command, CheckFlags, ReadFee, PrepareNonce, estimateGas, CheckBalance,
                SendTransaction, WaitMined, extractDelegationIDFromStake, contract
  <2>5. ASSUME NEW c \in Commands, CallFails(c) PROVE Kept
    BY <2>5 DEF CallFails, contract
  <2>6. ASSUME NEW c \in Commands, Mine(c) PROVE Kept
    BY <2>6 DEF Mine, Execute, settings, contract
  <2>7. CASE UNCHANGED vars
    BY <2>1, <2>7 DEF vars, contract
  <2> QED  BY <2>1, <2>2, <2>3, <2>4, <2>5, <2>6, <2>7 DEF Next
<1>3. MinimaAreRounded => LocalChecksAgree
  <2> SUFFICES ASSUME MinimaAreRounded, NEW c \in Commands, NEW r \in Requests[c]
               PROVE  /\ validateMinStakeAmount(r) => roundedStakeAmount(r.amount) >= minStakeAmount
                      /\ validateMinUnstakeAmount(r) => roundedStakeAmount(r.amount) >= minUnstakeAmount
    BY DEF LocalChecksAgree
  <2>1. r.amount \in Nat  BY RequestConstants
  <2> QED  BY <2>1, RoundingKeepsMinimum
           DEF MinimaAreRounded, validateMinStakeAmount, validateMinUnstakeAmount
<1> QED  BY <1>1, <1>2, <1>3, PTL DEF Spec
-----------------------------------------------------------------------------
(***************************************************************************)
(* What a command reports is true, what stake prints is its own, and what  *)
(* is burned is what events are worth.  The inductive invariant relates    *)
(* where a command is in its steps to whether its transaction was sent,    *)
(* mined and what it emitted.                                              *)
(***************************************************************************)
IsStake(method) == method \in {"stake", "stakeOnBehalf"}

\* How many steps there are after the one that sends.
Rest(method) == IF IsStake(method) THEN 2 ELSE 1

Before == ContractChecks \union ApiChecks \union {"fee", "nonce", "estimate", "balance"}
StepNames == Before \union {"send", "wait", "delegationID"}

InOrder(method, s) ==
  \A i \in 1 .. Len(s) :
    /\ i < Len(s) - Rest(method) => s[i] \in Before
    /\ i = Len(s) - Rest(method) => s[i] = "send"
    /\ i = Len(s) - Rest(method) + 1 => s[i] = "wait"
    /\ i = Len(s) - Rest(method) + 2 => s[i] = "delegationID"

Fields == {"request", "steps", "value", "nonce", "price", "printed", "lost", "outcome"}

Method(c) == cmd[c].request.method

Sent(c) == c \in pool \/ mined[c] # None

Typed ==
  /\ fee \in Nat /\ delegationIdCounter \in Nat /\ burned \in Nat /\ pool \subseteq Commands
  /\ DOMAIN cmd = Commands /\ DOMAIN mined = Commands /\ DOMAIN event = Commands
  /\ \A c \in Commands :
       DOMAIN cmd[c] = Fields /\ cmd[c].steps \in Seq(StepNames) /\ cmd[c].value \in Nat

\* A command that has steps left is at the one its transaction has come to.
Running(c) ==
  cmd[c].steps # <<>> =>
    /\ cmd[c].request \in Requests[c] /\ cmd[c].outcome = None /\ ~cmd[c].lost
    /\ InOrder(Method(c), cmd[c].steps)
    /\ Sent(c) <=> Len(cmd[c].steps) <= Rest(Method(c))
    /\ IsStake(Method(c)) /\ Len(cmd[c].steps) = 1 => mined[c] = "ok"

\* A transaction in the pool has no receipt; one that is not rejected belongs
\* to a request that the command still has, or whose answer was lost.
Receipt(c) ==
  /\ mined[c] \in {None, "ok", "reverted", "replaced"}
  /\ c \in pool => mined[c] = None
  /\ event[c] # None <=> mined[c] = "ok"
  /\ Sent(c) /\ mined[c] # "reverted" => cmd[c].request \in Requests[c]
  /\ Sent(c) /\ cmd[c].steps = <<>> => cmd[c].outcome # None
  /\ c \in pool /\ cmd[c].steps = <<>> => cmd[c].outcome = "error" /\ cmd[c].lost

Finished(c) ==
  /\ cmd[c].outcome = "success" => cmd[c].steps = <<>> /\ mined[c] = "ok"
  /\ cmd[c].outcome = "success" /\ IsStake(Method(c)) => cmd[c].printed = event[c].id
  /\ cmd[c].outcome = "error" /\ mined[c] = "ok" => cmd[c].lost
  /\ cmd[c].printed # 0 => cmd[c].outcome = "success" /\ IsStake(Method(c))

Emitted(c) ==
  mined[c] = "ok" =>
    /\ event[c].method = Method(c) /\ event[c].operator = From(c)
    /\ event[c].amount \in Nat /\ event[c].id \in Nat
    /\ IsStake(Method(c)) => /\ event[c].id <= delegationIdCounter
                             /\ event[c].id = 0 <=> cmd[c].request.period = FLEXIBLE

Local(c) == Running(c) /\ Receipt(c) /\ Finished(c) /\ Emitted(c)

\* The numbers of locked delegations are not given twice.
Distinct ==
  \A c \in Commands : \A d \in Commands \ {c} :
    (/\ mined[c] = "ok" /\ IsStake(event[c].method)
     /\ mined[d] = "ok" /\ IsStake(event[d].method)
     /\ event[c].id = event[d].id) => event[c].id = 0

IInv == Typed /\ (\A c \in Commands : Local(c)) /\ Distinct /\ StakeIsBurned

\* The first step of a command says where it is, and the rest is in order.
LEMMA HeadPosition ==
  ASSUME NEW method, NEW s \in Seq(StepNames), s # <<>>, InOrder(method, s)
  PROVE  /\ Head(s) \in Before => Len(s) > Rest(method) + 1
         /\ Head(s) = "send" => Len(s) = Rest(method) + 1
         /\ Head(s) = "wait" => Len(s) = Rest(method)
         /\ Head(s) = "delegationID" => IsStake(method) /\ Len(s) = 1
<1> DEFINE n == Len(s)
           k == Rest(method)
           x == s[1]
<1>1. n \in Nat \ {0} /\ Head(s) = x
  OBVIOUS
<1>2. k \in 1 .. 2 /\ (k = 2 => IsStake(method))
  BY DEF Rest
<1>3. "send" \notin Before /\ "wait" \notin Before /\ "delegationID" \notin Before
  BY DEF Before, ContractChecks, ApiChecks
<1>4. 1 \in 1 .. n
  BY <1>1
<1>5. /\ 1 < n - k => x \in Before
      /\ 1 = n - k => x = "send"
      /\ 1 = n - k + 1 => x = "wait"
      /\ 1 = n - k + 2 => x = "delegationID"
  BY <1>4 DEF InOrder
<1> HIDE DEF n, k, x
<1>a. CASE n > k + 1
  BY <1>a, <1>1, <1>2, <1>3, <1>5 DEF n, k
<1>b. CASE n = k + 1
  <2>1. x = "send"
    BY <1>b, <1>2, <1>5
  <2> QED  BY <1>b, <1>1, <1>3, <2>1 DEF n, k
<1>c. CASE n = k
  <2>1. x = "wait"
    BY <1>c, <1>2, <1>5
  <2> QED  BY <1>c, <1>1, <1>3, <2>1 DEF n, k
<1>d. CASE n < k
  <2>1. n = 1 /\ k = 2 /\ x = "delegationID"
    BY <1>d, <1>1, <1>2, <1>5
  <2> QED  BY <1>1, <1>2, <1>3, <2>1 DEF n, k
<1> QED  BY <1>1, <1>2, <1>a, <1>b, <1>c, <1>d

\* What is left after a step is in order.
LEMMA TailInOrder ==
  ASSUME NEW method, NEW s \in Seq(StepNames), s # <<>>, InOrder(method, s)
  PROVE  /\ Tail(s) \in Seq(StepNames) /\ Len(Tail(s)) = Len(s) - 1
         /\ Tail(s) = <<>> <=> Len(s) = 1
         /\ InOrder(method, Tail(s))
<1>1. /\ Tail(s) \in Seq(StepNames) /\ Len(Tail(s)) = Len(s) - 1 /\ Len(s) \in Nat \ {0}
      /\ \A i \in 1 .. Len(s) - 1 : Tail(s)[i] = s[i + 1]
  OBVIOUS
<1>2. Tail(s) = <<>> <=> Len(s) = 1
  <2> DEFINE t == Tail(s)
  <2>1. t \in Seq(StepNames) /\ Len(t) = Len(s) - 1 /\ Len(s) \in Nat
    BY <1>1
  <2> HIDE DEF t
  <2>2. t = <<>> <=> Len(t) = 0
    BY <2>1, EmptySeq, Zenon
  <2>3. t = <<>> <=> Len(s) = 1
    BY <2>1, <2>2
  <2> QED  BY <2>3 DEF t
<1>3. Rest(method) \in 1 .. 2
  BY DEF Rest
<1>4. ASSUME NEW i \in 1 .. Len(Tail(s))
      PROVE  /\ i < Len(Tail(s)) - Rest(method) => Tail(s)[i] \in Before
             /\ i = Len(Tail(s)) - Rest(method) => Tail(s)[i] = "send"
             /\ i = Len(Tail(s)) - Rest(method) + 1 => Tail(s)[i] = "wait"
             /\ i = Len(Tail(s)) - Rest(method) + 2 => Tail(s)[i] = "delegationID"
  <2>1. i + 1 \in 1 .. Len(s) /\ Tail(s)[i] = s[i + 1]
    BY <1>1
  <2>2. /\ i + 1 < Len(s) - Rest(method) => s[i + 1] \in Before
        /\ i + 1 = Len(s) - Rest(method) => s[i + 1] = "send"
        /\ i + 1 = Len(s) - Rest(method) + 1 => s[i + 1] = "wait"
        /\ i + 1 = Len(s) - Rest(method) + 2 => s[i + 1] = "delegationID"
    BY <2>1 DEF InOrder
  <2> QED  BY <2>1, <2>2, <1>1, <1>3
<1> QED  BY <1>1, <1>2, <1>4 DEF InOrder

Checks == ContractChecks \union ApiChecks

\* The steps of validate...Flags are checks.
LEMMA ValidationIsChecks ==
  ASSUME NEW method \in DOMAIN Validation
  PROVE  Validation[method] \in Seq(Checks)
<1>1. <<>> \in Seq(Checks)
  OBVIOUS
<1>2. <<"minStakeAmount", "commissionRate", "absent">> \in Seq(Checks)
  BY DEF Checks, ContractChecks, ApiChecks
<1>3. <<"minStakeAmount", "found">> \in Seq(Checks)
  BY DEF Checks, ContractChecks, ApiChecks
<1>4. <<"minUnstakeAmount", "found">> \in Seq(Checks)
  BY DEF Checks, ContractChecks, ApiChecks
<1>5. <<"minRedelegateAmount", "found", "found">> \in Seq(Checks)
  BY DEF Checks, ContractChecks, ApiChecks
<1>6. <<"found", "minSelfDelegation">> \in Seq(Checks)
  BY DEF Checks, ContractChecks, ApiChecks
<1>7. <<"found", "newCommissionRate">> \in Seq(Checks)
  BY DEF Checks, ContractChecks, ApiChecks
<1>8. Validation[method] \in
        {validateOperatorFlags, validateWithdrawalFlags, validateRewardsFlags,
         validateValidatorCreateFlags, validateValidatorStakeFlags,
         validateValidatorStakeOnBehalfFlags, validateValidatorUnstakeFlags,
         validateValidatorUnstakeOnBehalfFlags, validateValidatorRedelegateFlags,
         validateValidatorRedelegateOnBehalfFlags, validateValidatorUnjailFlags,
         validateValidatorUnjailOnBehalfFlags, validateUpdateValidatorCommissionFlags}
  BY DEF Validation
<1> QED  BY <1>1, <1>2, <1>3, <1>4, <1>5, <1>6, <1>7, <1>8, Zenon
         DEF validateOperatorFlags, validateWithdrawalFlags, validateRewardsFlags,
         validateValidatorCreateFlags, validateValidatorStakeFlags,
         validateValidatorStakeOnBehalfFlags, validateValidatorUnstakeFlags,
         validateValidatorUnstakeOnBehalfFlags, validateValidatorRedelegateFlags,
         validateValidatorRedelegateOnBehalfFlags, validateValidatorUnjailFlags,
         validateValidatorUnjailOnBehalfFlags, validateUpdateValidatorCommissionFlags

\* Every command executes in one of three ways.
LEMMA ExecutionSteps ==
  ASSUME NEW method \in DOMAIN Validation
  PROVE  \/ /\ IsStake(method)
            /\ Execution[method] = <<"nonce", "estimate", "balance", "send", "wait", "delegationID">>
         \/ /\ ~IsStake(method)
            /\ Execution[method] = <<"nonce", "estimate", "balance", "send", "wait">>
         \/ /\ ~IsStake(method)
            /\ Execution[method] = <<"fee", "nonce", "estimate", "balance", "send", "wait">>
<1>1. sendTransaction = <<"nonce", "estimate", "balance", "send", "wait">>
  BY DEF sendTransaction
<1>2. sendTransaction \o <<"delegationID">>
        = <<"nonce", "estimate", "balance", "send", "wait", "delegationID">>
  <2> DEFINE a == sendTransaction
             b == <<"delegationID">>
             u == a \o b
             v == <<"nonce", "estimate", "balance", "send", "wait", "delegationID">>
  <2>1. a \in Seq(StepNames) /\ Len(a) = 5 /\ b \in Seq(StepNames) /\ Len(b) = 1
    BY <1>1 DEF StepNames, Before
  <2>2. v \in Seq(StepNames) /\ Len(v) = 6
    BY DEF StepNames, Before
  <2>3. /\ \A i \in 1 .. 5 : v[i] = a[i]
        /\ \A i \in 1 .. 1 : v[5 + i] = b[i]
    BY <1>1
  <2> HIDE DEF a, b, v
  <2>4. /\ u \in Seq(StepNames) /\ Len(u) = 6
        /\ \A i \in 1 .. 6 : u[i] = IF i <= 5 THEN a[i] ELSE b[i - 5]
    <3>1. /\ u \in Seq(StepNames) /\ Len(u) = Len(a) + Len(b)
          /\ \A i \in 1 .. Len(a) + Len(b) : u[i] = IF i <= Len(a) THEN a[i] ELSE b[i - Len(a)]
      BY <2>1, ConcatProperties, Zenon
    <3> QED  BY <2>1, <3>1
  <2> HIDE DEF u
  <2>5. \A i \in 1 .. 6 : u[i] = v[i]
    BY <2>3, <2>4
  <2>6. u = v
    BY <2>2, <2>4, <2>5, SeqEqual
  <2> QED  BY <2>6 DEF u, v, a, b
<1>3. <<"fee">> \o sendTransaction
        = <<"fee", "nonce", "estimate", "balance", "send", "wait">>
  <2> DEFINE a == <<"fee">>
             b == sendTransaction
             u == a \o b
             v == <<"fee", "nonce", "estimate", "balance", "send", "wait">>
  <2>1. a \in Seq(StepNames) /\ Len(a) = 1 /\ b \in Seq(StepNames) /\ Len(b) = 5
    BY <1>1 DEF StepNames, Before
  <2>2. v \in Seq(StepNames) /\ Len(v) = 6
    BY DEF StepNames, Before
  <2>3. /\ \A i \in 1 .. 1 : v[i] = a[i]
        /\ \A i \in 1 .. 5 : v[1 + i] = b[i]
    BY <1>1
  <2> HIDE DEF a, b, v
  <2>4. /\ u \in Seq(StepNames) /\ Len(u) = 6
        /\ \A i \in 1 .. 6 : u[i] = IF i <= 1 THEN a[i] ELSE b[i - 1]
    <3>1. /\ u \in Seq(StepNames) /\ Len(u) = Len(a) + Len(b)
          /\ \A i \in 1 .. Len(a) + Len(b) : u[i] = IF i <= Len(a) THEN a[i] ELSE b[i - Len(a)]
      BY <2>1, ConcatProperties, Zenon
    <3> QED  BY <2>1, <3>1
  <2> HIDE DEF u
  <2>5. \A i \in 1 .. 6 : u[i] = v[i]
    BY <2>3, <2>4
  <2>6. u = v
    BY <2>2, <2>4, <2>5, SeqEqual
  <2> QED  BY <2>6 DEF u, v, a, b
<1>4. \/ IsStake(method) /\ Execution[method] \in {stakeCmd, stakeOnBehalfCmd}
      \/ ~IsStake(method) /\ Execution[method] = createValidatorCmd
      \/ /\ ~IsStake(method)
         /\ Execution[method] \in
              {setOperatorCmd, unsetOperatorCmd, setWithdrawalAddressCmd, setRewardsAddressCmd,
               unstakeCmd, unstakeOnBehalfCmd, redelegateCmd, redelegateOnBehalfCmd,
               unjailCmd, unjailOnBehalfCmd, updateValidatorCommissionCmd}
  BY DEF Validation, Execution, IsStake
<1>5. \A e \in {stakeCmd, stakeOnBehalfCmd} : e = sendTransaction \o <<"delegationID">>
  BY DEF stakeCmd, stakeOnBehalfCmd
<1>6. \A e \in {setOperatorCmd, unsetOperatorCmd, setWithdrawalAddressCmd, setRewardsAddressCmd,
               unstakeCmd, unstakeOnBehalfCmd, redelegateCmd, redelegateOnBehalfCmd,
               unjailCmd, unjailOnBehalfCmd, updateValidatorCommissionCmd} :
        e = <<"fee">> \o sendTransaction
  BY Zenon DEF setOperatorCmd, unsetOperatorCmd, setWithdrawalAddressCmd, setRewardsAddressCmd,
               unstakeCmd, unstakeOnBehalfCmd, redelegateCmd, redelegateOnBehalfCmd,
               unjailCmd, unjailOnBehalfCmd, updateValidatorCommissionCmd
<1>7. createValidatorCmd = sendTransaction
  BY DEF createValidatorCmd
<1> QED  BY <1>1, <1>2, <1>3, <1>4, <1>5, <1>6, <1>7, Zenon

\* Execution alone is in order, and starts before the sending.
LEMMA ExecutionInOrder ==
  ASSUME NEW method \in DOMAIN Validation
  PROVE  /\ Execution[method] \in Seq(StepNames) /\ InOrder(method, Execution[method])
         /\ Len(Execution[method]) > Rest(method) + 1
<1>1. CASE /\ IsStake(method)
           /\ Execution[method] = <<"nonce", "estimate", "balance", "send", "wait", "delegationID">>
  <2>1. Rest(method) = 2 /\ Len(Execution[method]) = 6
    BY <1>1 DEF Rest
  <2>2. Execution[method] \in Seq(StepNames)
    BY <1>1 DEF StepNames, Before
  <2> QED  BY <1>1, <2>1, <2>2 DEF InOrder, Before
<1>2. CASE /\ ~IsStake(method)
           /\ Execution[method] = <<"nonce", "estimate", "balance", "send", "wait">>
  <2>1. Rest(method) = 1 /\ Len(Execution[method]) = 5
    BY <1>2 DEF Rest
  <2>2. Execution[method] \in Seq(StepNames)
    BY <1>2 DEF StepNames, Before
  <2> QED  BY <1>2, <2>1, <2>2 DEF InOrder, Before
<1>3. CASE /\ ~IsStake(method)
           /\ Execution[method] = <<"fee", "nonce", "estimate", "balance", "send", "wait">>
  <2>1. Rest(method) = 1 /\ Len(Execution[method]) = 6
    BY <1>3 DEF Rest
  <2>2. Execution[method] \in Seq(StepNames)
    BY <1>3 DEF StepNames, Before
  <2> QED  BY <1>3, <2>1, <2>2 DEF InOrder, Before
<1> QED  BY <1>1, <1>2, <1>3, ExecutionSteps

\* Checks in front of steps that are in order keep them in order.
LEMMA ChecksInFront ==
  ASSUME NEW method, NEW p \in Seq(Checks), NEW e \in Seq(StepNames),
         InOrder(method, e), Len(e) > Rest(method) + 1
  PROVE  /\ p \o e \in Seq(StepNames) /\ InOrder(method, p \o e)
         /\ Len(p \o e) > Rest(method) + 1
<1>0. Checks \subseteq Before /\ Checks \subseteq StepNames
  BY DEF Checks, Before, StepNames
<1>1. p \in Seq(StepNames)
  BY <1>0
<1>2. /\ p \o e \in Seq(StepNames) /\ Len(p \o e) = Len(p) + Len(e)
      /\ Len(p) \in Nat /\ Len(e) \in Nat
      /\ \A i \in 1 .. Len(p) + Len(e) : (p \o e)[i] = IF i <= Len(p) THEN p[i] ELSE e[i - Len(p)]
  BY <1>1, ConcatProperties
<1>3. Rest(method) \in 1 .. 2
  BY DEF Rest
<1> DEFINE a == Len(p)
           b == Len(e)
           k == Rest(method)
           s == p \o e
<1>4. a \in Nat /\ b \in Nat /\ k \in 1 .. 2 /\ b > k + 1
  BY <1>2, <1>3
<1>5. \A i \in 1 .. b :
        /\ i < b - k => e[i] \in Before
        /\ i = b - k => e[i] = "send"
        /\ i = b - k + 1 => e[i] = "wait"
        /\ i = b - k + 2 => e[i] = "delegationID"
  BY DEF InOrder
<1>6. \A i \in 1 .. a : p[i] \in Before
  BY <1>0
<1>7. \A i \in 1 .. a + b : s[i] = IF i <= a THEN p[i] ELSE e[i - a]
  BY <1>2
<1> HIDE DEF a, b, k, s
<1>8. ASSUME NEW i \in 1 .. a + b
      PROVE  /\ i < (a + b) - k => s[i] \in Before
             /\ i = (a + b) - k => s[i] = "send"
             /\ i = (a + b) - k + 1 => s[i] = "wait"
             /\ i = (a + b) - k + 2 => s[i] = "delegationID"
  <2>1. CASE i <= a
    BY <2>1, <1>4, <1>6, <1>7
  <2>2. CASE i > a
    <3>1. i - a \in 1 .. b /\ s[i] = e[i - a]
      BY <2>2, <1>4, <1>7
    <3> QED  BY <3>1, <1>4, <1>5
  <2> QED  BY <2>1, <2>2, <1>4
<1>9. InOrder(method, s)
  BY <1>2, <1>8 DEF InOrder, s, a, b, k
<1>10. a + b > k + 1
  BY <1>4
<1> QED  BY <1>2, <1>9, <1>10 DEF s, a, b, k

\* Without the staking API a command makes the first of its checks.
LEMMA ContractStepsAreChecks ==
  ASSUME NEW s \in Seq(Checks)
  PROVE  ContractSteps(s) \in Seq(Checks)
<1> DEFINE S == {i \in DOMAIN s : s[i] \in ContractChecks}
           n == Cardinality(S)
<1>1. DOMAIN s = 1 .. Len(s) /\ Len(s) \in Nat
  OBVIOUS
<1>2. IsFiniteSet(1 .. Len(s)) /\ Cardinality(1 .. Len(s)) = Len(s)
  BY <1>1, FS_Interval
<1>3. S \subseteq 1 .. Len(s)
  BY <1>1
<1>4. IsFiniteSet(S) /\ n <= Len(s)
  BY <1>2, <1>3, FS_Subset
<1>5. n \in Nat
  BY <1>4, FS_CardinalityType
<1>6. \A i \in 1 .. n : s[i] \in Checks
  BY <1>1, <1>4, <1>5
<1> HIDE DEF n
<1>7. SubSeq(s, 1, n) \in Seq(Checks)
  BY <1>1, <1>5, <1>6, SubSeqProperties
<1> QED  BY <1>7 DEF ContractSteps, n

\* The steps of a command come in order, and sending is not the first.
LEMMA StepsInOrder ==
  ASSUME NEW c \in Commands, NEW r \in Requests[c]
  PROVE  /\ Steps(r) \in Seq(StepNames) /\ InOrder(r.method, Steps(r))
         /\ Len(Steps(r)) > Rest(r.method) + 1 /\ Steps(r) # <<>>
<1> DEFINE p == IF r.storyAPI THEN Validation[r.method] ELSE ContractSteps(Validation[r.method])
           e == Execution[r.method]
<1>1. r.method \in DOMAIN Validation
  BY RequestConstants
<1>2. p \in Seq(Checks)
  BY <1>1, ValidationIsChecks, ContractStepsAreChecks
<1>3. e \in Seq(StepNames) /\ InOrder(r.method, e) /\ Len(e) > Rest(r.method) + 1
  BY <1>1, ExecutionInOrder
<1>4. Steps(r) = p \o e
  BY DEF Steps
<1> HIDE DEF p, e
<1>5. /\ Steps(r) \in Seq(StepNames) /\ InOrder(r.method, Steps(r))
      /\ Len(Steps(r)) > Rest(r.method) + 1
  BY <1>2, <1>3, <1>4, ChecksInFront
<1>6. Rest(r.method) \in 1 .. 2
  BY DEF Rest
<1> QED  BY <1>5, <1>6, EmptySeq
-----------------------------------------------------------------------------
\* What Continue makes of the command.
LEMMA ContinueFields ==
  ASSUME NEW c \in Commands, NEW k, DOMAIN cmd = Commands, DOMAIN k = Fields, Continue(c, k)
  PROVE  /\ DOMAIN cmd' = Commands /\ \A d \in Commands \ {c} : cmd'[d] = cmd[d]
         /\ DOMAIN cmd'[c] = Fields
         /\ cmd'[c].steps = Tail(k.steps)
         /\ cmd'[c].outcome = IF Len(k.steps) = 1 THEN "success" ELSE k.outcome
         /\ cmd'[c].request = k.request /\ cmd'[c].value = k.value
         /\ cmd'[c].printed = k.printed /\ cmd'[c].lost = k.lost
<1> DEFINE o == IF Len(k.steps) = 1 THEN "success" ELSE k.outcome
           k1 == [k EXCEPT !.steps = Tail(@)]
           k2 == [k1 EXCEPT !.outcome = o]
<1>1. /\ DOMAIN k1 = Fields /\ k1.steps = Tail(k.steps) /\ k1.outcome = k.outcome
      /\ k1.request = k.request /\ k1.value = k.value
      /\ k1.printed = k.printed /\ k1.lost = k.lost
  BY DEF Fields
<1>2. cmd' = [cmd EXCEPT ![c] = k2]
  BY DEF Continue
<1> HIDE DEF k1, o
<1>3. /\ DOMAIN k2 = Fields /\ k2.steps = k1.steps /\ k2.outcome = o
      /\ k2.request = k1.request /\ k2.value = k1.value
      /\ k2.printed = k1.printed /\ k2.lost = k1.lost
  BY <1>1 DEF Fields
<1> HIDE DEF k2
<1>4. DOMAIN cmd' = Commands /\ cmd'[c] = k2 /\ \A d \in Commands \ {c} : cmd'[d] = cmd[d]
  BY <1>2
<1> QED  BY <1>1, <1>3, <1>4 DEF o

\* What Return makes of the command.
LEMMA ReturnFields ==
  ASSUME NEW c \in Commands, DOMAIN cmd = Commands, Return(c)
  PROVE  /\ DOMAIN cmd' = Commands /\ \A d \in Commands \ {c} : cmd'[d] = cmd[d]
         /\ DOMAIN cmd'[c] = Fields
         /\ cmd'[c].steps = <<>> /\ cmd'[c].outcome = "error" /\ cmd'[c].value = 0
         /\ cmd'[c].printed = 0 /\ cmd'[c].lost = FALSE
<1> DEFINE k == [Idle EXCEPT !.outcome = "error"]
<1>1. /\ DOMAIN k = Fields /\ k.steps = <<>> /\ k.outcome = "error" /\ k.value = 0
      /\ k.printed = 0 /\ k.lost = FALSE
  BY DEF Fields, Idle
<1>2. cmd' = [cmd EXCEPT ![c] = k]
  BY DEF Return
<1> HIDE DEF k
<1> QED  BY <1>1, <1>2

\* A command that a step does not concern keeps its part of the invariant.
LEMMA FrameLocal ==
  ASSUME NEW d \in Commands, Local(d), cmd'[d] = cmd[d], mined'[d] = mined[d],
         event'[d] = event[d], d \in pool' <=> d \in pool,
         \/ delegationIdCounter' = delegationIdCounter
         \/ /\ delegationIdCounter \in Nat /\ delegationIdCounter' \in Nat
            /\ delegationIdCounter <= delegationIdCounter'
  PROVE  Local(d)'
<1>1. Running(d)'
  BY DEF Local, Running, Sent, Method
<1>2. Receipt(d)'
  BY DEF Local, Receipt, Sent
<1>3. Finished(d)'
  BY DEF Local, Finished, Method
<1>4. Emitted(d)'
  BY DEF Local, Emitted, Method, From
<1> QED  BY <1>1, <1>2, <1>3, <1>4 DEF Local

\* A step of one command that reaches neither the pool nor the contract.
LEMMA QuietInv ==
  ASSUME IInv, NEW c \in Commands, UNCHANGED <<contract, pool, mined, event>>,
         DOMAIN cmd' = Commands, \A d \in Commands \ {c} : cmd'[d] = cmd[d],
         DOMAIN cmd'[c] = Fields, cmd'[c].steps \in Seq(StepNames), cmd'[c].value \in Nat,
         mined[c] = "ok" => cmd'[c].value = cmd[c].value,
         Local(c)'
  PROVE  IInv'
<1>0. /\ fee' = fee /\ delegationIdCounter' = delegationIdCounter /\ burned' = burned
      /\ held' = held /\ pool' = pool /\ mined' = mined /\ event' = event
  BY DEF contract
<1>1. Typed'
  BY <1>0 DEF IInv, Typed
<1>2. ASSUME NEW d \in Commands PROVE Local(d)'
  <2>1. CASE d = c
    BY <2>1
  <2>2. CASE d # c
    BY <2>2, <1>0, FrameLocal DEF IInv
  <2> QED  BY <2>1, <2>2
<1>3. Distinct'
  BY <1>0 DEF IInv, Distinct
<1>4. \A d \in Commands : event[d] # None => Worth(d)' = Worth(d)
  <2> SUFFICES ASSUME NEW d \in Commands, event[d] # None PROVE Worth(d)' = Worth(d)
    OBVIOUS
  <2>1. cmd'[d].value = cmd[d].value
    <3>1. mined[d] = "ok"
      BY DEF IInv, Local, Receipt
    <3> QED  BY <3>1
  <2> QED  BY <1>0, <2>1 DEF Worth
<1>5. Units' = Units
  BY <1>0, <1>4, ZenonT(30) DEF Units
<1>6. StakeIsBurned'
  BY <1>0, <1>5 DEF IInv, StakeIsBurned
<1> QED  BY <1>1, <1>2, <1>3, <1>6 DEF IInv

\* A step before the sending one succeeds.
LEMMA BeforeStep ==
  ASSUME IInv, NEW c \in Commands, NEW k, DOMAIN k = Fields,
         k.request = cmd[c].request, k.steps = cmd[c].steps, k.outcome = cmd[c].outcome,
         k.lost = cmd[c].lost, k.printed = cmd[c].printed, k.value \in Nat,
         cmd[c].steps # <<>>, Head(cmd[c].steps) \in Before,
         Continue(c, k), UNCHANGED <<contract, external>>
  PROVE  IInv'
<1> DEFINE s == cmd[c].steps
           m == Method(c)
<1>0. UNCHANGED <<contract, pool, mined, event>> /\ pool' = pool /\ mined' = mined /\ event' = event
  BY DEF external
<1>1. /\ DOMAIN cmd' = Commands /\ \A d \in Commands \ {c} : cmd'[d] = cmd[d]
      /\ DOMAIN cmd'[c] = Fields
      /\ cmd'[c].steps = Tail(s)
      /\ cmd'[c].outcome = IF Len(s) = 1 THEN "success" ELSE cmd[c].outcome
      /\ cmd'[c].request = cmd[c].request /\ cmd'[c].value = k.value
      /\ cmd'[c].printed = cmd[c].printed /\ cmd'[c].lost = cmd[c].lost
  <2>1. DOMAIN cmd = Commands
    BY DEF IInv, Typed
  <2> QED  BY <2>1, ContinueFields
<1>2. Local(c) /\ s \in Seq(StepNames) /\ s # <<>>
  BY DEF IInv, Typed
<1>3. /\ InOrder(m, s) /\ cmd[c].request \in Requests[c] /\ cmd[c].outcome = None /\ ~cmd[c].lost
      /\ Sent(c) <=> Len(s) <= Rest(m)
  BY <1>2 DEF Local, Running
<1>4. Len(s) > Rest(m) + 1
  BY <1>2, <1>3, HeadPosition
<1>5. /\ Tail(s) \in Seq(StepNames) /\ Len(Tail(s)) = Len(s) - 1
      /\ InOrder(m, Tail(s)) /\ Len(s) \in Nat /\ Rest(m) \in 1 .. 2
  BY <1>2, <1>3, TailInOrder DEF Rest
<1>6. /\ Len(s) # 1 /\ Len(Tail(s)) > Rest(m) /\ Len(Tail(s)) # 1 /\ ~Sent(c)
  <2> DEFINE n == Len(s)
             q == Len(Tail(s))
             j == Rest(m)
  <2>1. n > j + 1 /\ q = n - 1 /\ n \in Nat /\ j \in 1 .. 2 /\ (Sent(c) <=> n <= j)
    BY <1>3, <1>4, <1>5
  <2> HIDE DEF n, q, j
  <2>2. n # 1 /\ q > j /\ q # 1 /\ ~Sent(c)
    BY <2>1
  <2> QED  BY <2>2 DEF n, q, j
<1>7. Method(c)' = m /\ cmd'[c].outcome = None /\ Sent(c)' = Sent(c)
  BY <1>0, <1>1, <1>3, <1>6, Zenon DEF Method, Sent
<1>8. c \notin pool /\ mined[c] = None
  BY <1>6, Zenon DEF Sent
<1> HIDE DEF s, m
<1>9. Running(c)'
  BY <1>0, <1>1, <1>3, <1>5, <1>6, <1>7 DEF Running
<1>10. None # "ok" /\ None # "success" /\ None # "error"
  BY RequestConstants
<1>11. Receipt(c)'
  BY <1>0, <1>1, <1>2, <1>3, <1>8, <1>10, ZenonT(30) DEF Local, Receipt, Sent
<1>12. Finished(c)'
  BY <1>0, <1>1, <1>2, <1>7, <1>3, <1>8, <1>10, ZenonT(30) DEF Local, Finished
<1>13. Emitted(c)'
  BY <1>0, <1>8, <1>10 DEF Emitted
<1>14. Local(c)'
  BY <1>9, <1>11, <1>12, <1>13 DEF Local
<1>15. mined[c] # "ok" /\ cmd'[c].steps \in Seq(StepNames) /\ cmd'[c].value \in Nat
  BY <1>1, <1>5, <1>8, <1>10
<1> QED  BY <1>0, <1>1, <1>14, <1>15, QuietInv, Zenon

\* A command gives up before it sends, or when its transaction is rejected.
LEMMA ReturnStep ==
  ASSUME IInv, NEW c \in Commands, cmd[c].steps # <<>>,
         Head(cmd[c].steps) \in Before \union {"send"} \/ mined[c] = "reverted",
         Return(c), UNCHANGED <<contract, external>>
  PROVE  IInv'
<1> DEFINE s == cmd[c].steps
           m == Method(c)
<1>0. UNCHANGED <<contract, pool, mined, event>> /\ pool' = pool /\ mined' = mined /\ event' = event
  BY DEF external
<1>1. /\ DOMAIN cmd' = Commands /\ \A d \in Commands \ {c} : cmd'[d] = cmd[d]
      /\ DOMAIN cmd'[c] = Fields
      /\ cmd'[c].steps = <<>> /\ cmd'[c].outcome = "error" /\ cmd'[c].value = 0
      /\ cmd'[c].printed = 0 /\ cmd'[c].lost = FALSE
  <2>1. DOMAIN cmd = Commands
    BY DEF IInv, Typed
  <2> QED  BY <2>1, ReturnFields, Zenon
<1>2. Local(c) /\ s \in Seq(StepNames) /\ s # <<>>
  BY DEF IInv, Typed
<1>3. InOrder(m, s) /\ (Sent(c) <=> Len(s) <= Rest(m))
  BY <1>2 DEF Local, Running
<1>4. None # "ok" /\ None # "success" /\ None # "reverted" /\ None # "error"
  BY RequestConstants
<1>5. c \notin pool /\ mined[c] \in {None, "reverted"}
  <2>1. CASE mined[c] = "reverted"
    BY <2>1, <1>2, <1>4 DEF Local, Receipt
  <2>2. CASE Head(s) \in Before \union {"send"}
    <3>1. Len(s) > Rest(m) /\ Len(s) \in Nat /\ Rest(m) \in Nat
      BY <2>2, <1>2, <1>3, HeadPosition DEF Rest
    <3> QED  BY <3>1, <1>3 DEF Sent
  <2> QED  BY <2>1, <2>2
<1> HIDE DEF s, m
<1>6. mined[c] # "ok"
  BY <1>4, <1>5
<1>7. Running(c)'
  BY <1>1 DEF Running
<1>8. Receipt(c)'
  BY <1>0, <1>1, <1>2, <1>4, <1>5, Zenon DEF Local, Receipt, Sent
<1>9. Finished(c)'
  BY <1>0, <1>1, <1>6 DEF Finished
<1>10. Emitted(c)'
  BY <1>0, <1>6 DEF Emitted
<1>11. Local(c)'
  BY <1>7, <1>8, <1>9, <1>10 DEF Local
<1>12. cmd'[c].steps \in Seq(StepNames) /\ cmd'[c].value \in Nat
  BY <1>1
<1> QED  BY <1>0, <1>1, <1>6, <1>11, <1>12, QuietInv, Zenon
-----------------------------------------------------------------------------
\* A command without a transaction satisfies its part if it is well placed.
LEMMA UnsentLocal ==
  ASSUME NEW c \in Commands, c \notin pool', mined'[c] = None, event'[c] = None,
         Running(c)', cmd'[c].outcome \in {None, "error"}, cmd'[c].printed = 0
  PROVE  Local(c)'
<1>1. None # "ok" /\ None # "success" /\ None # "error"
  BY RequestConstants
<1>2. Receipt(c)'
  BY <1>1 DEF Receipt, Sent
<1>3. Finished(c)'
  BY <1>1 DEF Finished
<1>4. Emitted(c)'
  BY <1>1 DEF Emitted
<1> QED  BY <1>2, <1>3, <1>4 DEF Local

\* Starting a command.
LEMMA InvokeStep ==
  ASSUME IInv, NEW c \in Commands, NEW r \in Requests[c], Invoke(c, r)
  PROVE  IInv'
<1> DEFINE v == IF r.method \in Deposits THEN r.amount ELSE 0
           k1 == [Idle EXCEPT !.outcome = "error"]
           k2 == [Idle EXCEPT !.request = r, !.steps = Steps(r), !.value = v]
<1>0. /\ UNCHANGED <<contract, pool, mined, event>> /\ pool' = pool /\ mined' = mined
      /\ event' = event
  BY DEF Invoke, external
<1>1. DOMAIN cmd = Commands /\ Local(c)
  BY DEF IInv, Typed
<1>2. /\ DOMAIN k1 = Fields /\ k1.steps = <<>> /\ k1.outcome = "error" /\ k1.value = 0
      /\ k1.printed = 0
  BY DEF Fields, Idle
<1>3. /\ DOMAIN k2 = Fields /\ k2.steps = Steps(r) /\ k2.outcome = None /\ k2.value = v
      /\ k2.printed = 0 /\ k2.request = r /\ k2.lost = FALSE
  BY DEF Fields, Idle
<1>4. v \in Nat
  BY RequestConstants
<1>5. c \notin pool /\ mined[c] = None /\ event[c] = None
  <2>1. cmd[c].steps = <<>> /\ cmd[c].outcome = None
    BY DEF Invoke, Idle
  <2>2. None # "ok"
    BY RequestConstants
  <2> QED  BY <1>1, <2>1, <2>2 DEF Local, Receipt, Sent
<1>6. cmd' = [cmd EXCEPT ![c] = IF ~r.complete THEN k1 ELSE k2]
  BY DEF Invoke
<1> HIDE DEF k1, k2, v
<1>7. /\ DOMAIN cmd' = Commands /\ \A d \in Commands \ {c} : cmd'[d] = cmd[d]
      /\ cmd'[c] = k1 \/ cmd'[c] = k2
  BY <1>1, <1>6
<1>8. /\ Steps(r) \in Seq(StepNames) /\ InOrder(r.method, Steps(r))
      /\ Len(Steps(r)) > Rest(r.method) + 1
  BY StepsInOrder
<1>9. CASE cmd'[c] = k1
  <2>1. Running(c)'
    BY <1>9, <1>2 DEF Running
  <2>2. Local(c)'
    BY <1>0, <1>5, <1>9, <1>2, <2>1, UnsentLocal
  <2>3. mined[c] # "ok"
    BY <1>5, RequestConstants
  <2>4. DOMAIN cmd'[c] = Fields /\ cmd'[c].steps \in Seq(StepNames) /\ cmd'[c].value \in Nat
    BY <1>9, <1>2
  <2> QED  BY <1>0, <1>7, <2>2, <2>3, <2>4, QuietInv
<1>10. CASE cmd'[c] = k2
  <2>1. ~Sent(c)' /\ Method(c)' = r.method
    BY <1>0, <1>3, <1>5, <1>10 DEF Sent, Method
  <2>2. ~(Len(Steps(r)) <= Rest(r.method)) /\ Len(Steps(r)) # 1
    <3> DEFINE n == Len(Steps(r))
               q == Rest(r.method)
    <3>1. n \in Nat /\ q \in 1 .. 2 /\ n > q + 1
      BY <1>8 DEF Rest
    <3> HIDE DEF n, q
    <3>2. ~(n <= q) /\ n # 1
      BY <3>1
    <3> QED  BY <3>2 DEF n, q
  <2>3. Running(c)'
    BY <1>10, <1>3, <1>8, <2>1, <2>2 DEF Running
  <2>4. Local(c)'
    BY <1>0, <1>5, <1>10, <1>3, <2>3, UnsentLocal
  <2>5. mined[c] # "ok"
    BY <1>5, RequestConstants
  <2> QED  BY <1>0, <1>7, <1>10, <1>3, <1>4, <1>8, <2>4, <2>5, QuietInv, Zenon
<1> QED  BY <1>7, <1>9, <1>10

\* The steps of a command before it sends, and any of them failing.
LEMMA EarlySteps ==
  ASSUME IInv, NEW c \in Commands,
         \/ CheckFlags(c) \/ ReadFee(c) \/ PrepareNonce(c) \/ estimateGas(c) \/ CheckBalance(c)
         \/ CallFails(c)
  PROVE  IInv'
<1> DEFINE k == cmd[c]
<1>1. /\ DOMAIN k = Fields /\ k.steps \in Seq(StepNames) /\ k.value \in Nat /\ fee \in Nat
  BY DEF IInv, Typed
<1>2. ASSUME k.steps # <<>>, Head(k.steps) \in Before, UNCHANGED <<contract, external>>,
             NEW condition, ContinueIf(condition, c)
      PROVE  IInv'
  <2>1. CASE Continue(c, k)
    BY <1>1, <1>2, <2>1, BeforeStep
  <2>2. CASE Return(c)
    BY <1>2, <2>2, ReturnStep
  <2> QED  BY <1>2, <2>1, <2>2, ZenonT(30) DEF ContinueIf
<1>3. CASE CheckFlags(c)
  <2>1. Head(k.steps) \in Before
    BY <1>3 DEF CheckFlags, Before
  <2>2. PICK answer \in ApiAnswers : ContinueIf(Passes(Head(k.steps), k.request, answer), c)
    BY <1>3 DEF CheckFlags
  <2>3. k.steps # <<>> /\ UNCHANGED <<contract, external>>
    BY <1>3 DEF CheckFlags
  <2> QED  BY <2>1, <2>2, <2>3, <1>2
<1>4. CASE ReadFee(c)
  <2> DEFINE k2 == [k EXCEPT !.value = fee]
  <2>1. /\ k.steps # <<>> /\ Head(k.steps) \in Before /\ UNCHANGED <<contract, external>>
        /\ Continue(c, k2)
    BY <1>4 DEF ReadFee, At, Before
  <2>2. /\ DOMAIN k2 = Fields /\ k2.request = k.request /\ k2.steps = k.steps
        /\ k2.outcome = k.outcome /\ k2.lost = k.lost /\ k2.printed = k.printed
        /\ k2.value \in Nat
    BY <1>1 DEF Fields
  <2> HIDE DEF k2
  <2> QED  BY <2>1, <2>2, BeforeStep
<1>5. CASE PrepareNonce(c)
  <2>1. PICK p \in Prices :
          Continue(c, [k EXCEPT !.nonce = PendingNonceAt(From(c)), !.price = p])
    BY <1>5, ZenonT(30) DEF PrepareNonce
  <2> DEFINE n == PendingNonceAt(From(c))
             k2 == [k EXCEPT !.nonce = n]
             k3 == [k2 EXCEPT !.price = p]
  <2>2. /\ k.steps # <<>> /\ Head(k.steps) \in Before /\ UNCHANGED <<contract, external>>
        /\ Continue(c, k3)
    BY <1>5, <2>1, Zenon DEF PrepareNonce, At, Before
  <2> HIDE DEF n
  <2>3. /\ DOMAIN k2 = Fields /\ k2.request = k.request /\ k2.steps = k.steps
        /\ k2.outcome = k.outcome /\ k2.lost = k.lost /\ k2.printed = k.printed
        /\ k2.value = k.value
    BY <1>1 DEF Fields
  <2> HIDE DEF k2
  <2>4. /\ DOMAIN k3 = Fields /\ k3.request = k.request /\ k3.steps = k.steps
        /\ k3.outcome = k.outcome /\ k3.lost = k.lost /\ k3.printed = k.printed
        /\ k3.value \in Nat
    BY <1>1, <2>3 DEF Fields
  <2> HIDE DEF k3
  <2> QED  BY <2>2, <2>4, BeforeStep
<1>6. CASE estimateGas(c)
  <2>1. k.steps # <<>> /\ Head(k.steps) \in Before /\ UNCHANGED <<contract, external>>
    BY <1>6 DEF estimateGas, At, Before
  <2> QED  BY <1>6, <2>1, <1>2 DEF estimateGas
<1>7. CASE CheckBalance(c)
  <2>1. k.steps # <<>> /\ Head(k.steps) \in Before /\ UNCHANGED <<contract, external>>
    BY <1>7 DEF CheckBalance, At, Before
  <2> QED  BY <1>7, <2>1, <1>2 DEF CheckBalance
<1>8. CASE CallFails(c)
  <2>1. k.steps # <<>> /\ Return(c) /\ UNCHANGED <<contract, external>>
    BY <1>8 DEF CallFails
  <2>2. Head(k.steps) \in StepNames
    BY <1>1, <2>1
  <2>3. Head(k.steps) \in Before \union {"send"}
    BY <1>8, <2>2 DEF CallFails, StepNames
  <2> QED  BY <2>1, <2>3, ReturnStep
<1> QED  BY <1>3, <1>4, <1>5, <1>6, <1>7, <1>8
-----------------------------------------------------------------------------
\* Reading the receipt: the command goes on only after one that is "ok".
LEMMA WaitStep ==
  ASSUME IInv, NEW c \in Commands, WaitMined(c)
  PROVE  IInv'
<1> DEFINE s == cmd[c].steps
           m == Method(c)
<1>0. /\ UNCHANGED <<contract, external>> /\ UNCHANGED <<contract, pool, mined, event>>
      /\ pool' = pool /\ mined' = mined /\ event' = event
      /\ delegationIdCounter' = delegationIdCounter
  BY DEF WaitMined, external, contract
<1>1. s # <<>> /\ Head(s) = "wait" /\ mined[c] \in {"ok", "reverted"}
  BY DEF WaitMined, At
<1>2. CASE mined[c] # "ok"
  <2>1. Return(c) /\ mined[c] = "reverted"
    BY <1>1, <1>2 DEF WaitMined, ContinueIf
  <2> QED  BY <1>0, <1>1, <2>1, ReturnStep
<1>3. CASE mined[c] = "ok"
  <2>0. /\ DOMAIN cmd = Commands /\ DOMAIN cmd[c] = Fields /\ s \in Seq(StepNames)
        /\ cmd[c].value \in Nat /\ Local(c)
    BY DEF IInv, Typed
  <2>1. Continue(c, cmd[c])
    BY <1>3 DEF WaitMined, ContinueIf
  <2>2. /\ DOMAIN cmd' = Commands /\ \A d \in Commands \ {c} : cmd'[d] = cmd[d]
        /\ DOMAIN cmd'[c] = Fields
        /\ cmd'[c].steps = Tail(s)
        /\ cmd'[c].outcome = IF Len(s) = 1 THEN "success" ELSE cmd[c].outcome
        /\ cmd'[c].request = cmd[c].request /\ cmd'[c].value = cmd[c].value
        /\ cmd'[c].printed = cmd[c].printed /\ cmd'[c].lost = cmd[c].lost
    BY <2>0, <2>1, ContinueFields, Zenon
  <2>3. /\ InOrder(m, s) /\ cmd[c].request \in Requests[c] /\ cmd[c].outcome = None
        /\ ~cmd[c].lost
    BY <1>1, <2>0 DEF Local, Running
  <2>4. Len(s) = Rest(m)
    BY <1>1, <2>0, <2>3, HeadPosition
  <2>5. /\ Tail(s) \in Seq(StepNames) /\ Len(Tail(s)) = Len(s) - 1 /\ InOrder(m, Tail(s))
        /\ Tail(s) = <<>> <=> Len(s) = 1
    BY <1>1, <2>0, <2>3, TailInOrder
  <2>6. Method(c)' = m /\ Sent(c)' /\ From(c)' = From(c)
    BY <1>0, <1>3, <2>2, RequestConstants DEF Method, Sent, From
  <2>7. None # "ok" /\ None # "success" /\ None # "error"
    BY RequestConstants
  <2>8. c \notin pool /\ event[c] # None
    BY <1>3, <2>0, <2>7, Zenon DEF Local, Receipt
  <2>9. cmd[c].printed = 0
    BY <2>0, <2>3, <2>7 DEF Local, Finished
  <2>10. Len(s) = (IF IsStake(m) THEN 2 ELSE 1) /\ Len(Tail(s)) <= Rest(m)
    BY <2>4, <2>5 DEF Rest
  <2> HIDE DEF s, m
  <2>11. Running(c)'
    BY <1>0, <1>3, <2>2, <2>3, <2>5, <2>6, <2>10, Zenon DEF Running
  <2>12. Receipt(c)'
    <3>1. cmd'[c].steps = <<>> => cmd'[c].outcome = "success"
      BY <2>2, <2>5, Zenon
    <3> QED  BY <1>0, <1>3, <2>2, <2>3, <2>7, <2>8, <3>1, Zenon DEF Receipt, Sent
  <2>13. Finished(c)'
    BY <1>0, <1>3, <2>2, <2>3, <2>5, <2>6, <2>7, <2>9, <2>10 DEF Finished
  <2>14. Emitted(c)'
    BY <1>0, <2>0, <2>2, <2>6, Zenon DEF Local, Emitted, m
  <2>15. Local(c)'
    BY <2>11, <2>12, <2>13, <2>14, ZenonT(30) DEF Local
  <2>16. cmd'[c].steps \in Seq(StepNames) /\ cmd'[c].value \in Nat
    BY <2>0, <2>2, <2>5
  <2> QED  BY <1>0, <2>2, <2>15, <2>16, QuietInv, Zenon
<1> QED  BY <1>2, <1>3

\* Printing the delegation of the receipt.
LEMMA PrintStep ==
  ASSUME IInv, NEW c \in Commands, extractDelegationIDFromStake(c)
  PROVE  IInv'
<1> DEFINE s == cmd[c].steps
           m == Method(c)
           k == [cmd[c] EXCEPT !.printed = event[c].id]
<1>0. /\ UNCHANGED <<contract, pool, mined, event>>
      /\ pool' = pool /\ mined' = mined /\ event' = event
      /\ delegationIdCounter' = delegationIdCounter
  BY DEF extractDelegationIDFromStake, external, contract
<1>1. s # <<>> /\ Head(s) = "delegationID" /\ Continue(c, k)
  BY DEF extractDelegationIDFromStake, At
<1>2. /\ DOMAIN cmd = Commands /\ DOMAIN cmd[c] = Fields /\ s \in Seq(StepNames)
      /\ cmd[c].value \in Nat /\ Local(c)
  BY DEF IInv, Typed
<1>3. /\ DOMAIN k = Fields /\ k.steps = s /\ k.request = cmd[c].request
      /\ k.value = cmd[c].value /\ k.printed = event[c].id
  BY <1>2, Zenon DEF Fields
<1> HIDE DEF k
<1>4. /\ InOrder(m, s) /\ cmd[c].request \in Requests[c]
      /\ IsStake(m) /\ Len(s) = 1 => mined[c] = "ok"
  BY <1>1, <1>2, Zenon DEF Local, Running
<1>5. IsStake(m) /\ Len(s) = 1
  BY <1>1, <1>2, <1>4, HeadPosition
<1>6. Tail(s) = <<>> /\ mined[c] = "ok"
  BY <1>1, <1>2, <1>4, <1>5, TailInOrder, ZenonT(30)
<1>7. /\ DOMAIN cmd' = Commands /\ \A d \in Commands \ {c} : cmd'[d] = cmd[d]
      /\ DOMAIN cmd'[c] = Fields /\ cmd'[c].steps = <<>> /\ cmd'[c].outcome = "success"
      /\ cmd'[c].request = cmd[c].request /\ cmd'[c].value = cmd[c].value
      /\ cmd'[c].printed = event[c].id
  <2>1. /\ DOMAIN cmd' = Commands /\ \A d \in Commands \ {c} : cmd'[d] = cmd[d]
        /\ DOMAIN cmd'[c] = Fields
        /\ cmd'[c].steps = Tail(k.steps)
        /\ cmd'[c].outcome = IF Len(k.steps) = 1 THEN "success" ELSE k.outcome
        /\ cmd'[c].request = k.request /\ cmd'[c].value = k.value
        /\ cmd'[c].printed = k.printed /\ cmd'[c].lost = k.lost
    BY <1>1, <1>2, <1>3, ContinueFields, Zenon
  <2> QED  BY <1>3, <1>5, <1>6, <2>1, Zenon
<1>8. Method(c)' = m /\ From(c)' = From(c)
  BY <1>7 DEF Method, From
<1>9. None # "ok" /\ None # "success"
  BY RequestConstants, Zenon
<1>10. Running(c)'
  BY <1>7 DEF Running
<1>11. Receipt(c)'
  BY <1>0, <1>2, <1>4, <1>6, <1>7, <1>9, ZenonT(30) DEF Local, Receipt, Sent
<1>12. Finished(c)'
  BY <1>0, <1>5, <1>6, <1>7, <1>8, ZenonT(30) DEF Finished
<1>13. Emitted(c)'
  BY <1>0, <1>2, <1>7, <1>8 DEF Local, Emitted
<1>14. Local(c)'
  BY <1>10, <1>11, <1>12, <1>13 DEF Local
<1>15. cmd'[c].steps \in Seq(StepNames) /\ cmd'[c].value \in Nat
  BY <1>2, <1>7
<1> QED  BY <1>0, <1>6, <1>7, <1>14, <1>15, QuietInv, Zenon
-----------------------------------------------------------------------------
\* Sending: the pool takes the transaction, and drops those it replaces.
LEMMA SendStep ==
  ASSUME IInv, NEW c \in Commands, SendTransaction(c)
  PROVE  IInv'
<1> DEFINE s == cmd[c].steps
           m == Method(c)
           R == Rivals(c)
<1>0. /\ UNCHANGED contract /\ event' = event /\ fee' = fee /\ burned' = burned /\ held' = held
      /\ delegationIdCounter' = delegationIdCounter /\ nonces' = nonces /\ balance' = balance
  BY DEF SendTransaction, contract
<1>1. s # <<>> /\ Head(s) = "send"
  BY DEF SendTransaction, At
<1>2. /\ DOMAIN cmd = Commands /\ DOMAIN mined = Commands /\ DOMAIN event = Commands
      /\ DOMAIN cmd[c] = Fields /\ s \in Seq(StepNames) /\ cmd[c].value \in Nat
      /\ pool \subseteq Commands /\ \A d \in Commands : Local(d)
  BY DEF IInv, Typed
<1>3. CASE ~PoolTakes(c)
  <2>1. Return(c) /\ pool' = pool /\ mined' = mined
    BY <1>3 DEF SendTransaction
  <2>2. UNCHANGED <<contract, external>>
    BY <1>0, <2>1 DEF external
  <2> QED  BY <1>1, <2>1, <2>2, ReturnStep
<1>4. CASE PoolTakes(c)
  <2>1. /\ pool' = (pool \ R) \union {c}
        /\ mined' = [d \in Commands |-> IF d \in R THEN "replaced" ELSE mined[d]]
        /\ \/ Continue(c, cmd[c])
           \/ cmd' = [cmd EXCEPT ![c].steps = <<>>, ![c].outcome = "error", ![c].lost = TRUE]
    BY <1>4 DEF SendTransaction
  <2>2. R \subseteq pool
    BY Zenon DEF Rivals, Queued
  <2>3. /\ InOrder(m, s) /\ cmd[c].request \in Requests[c] /\ cmd[c].outcome = None
        /\ ~cmd[c].lost /\ (Sent(c) <=> Len(s) <= Rest(m))
    BY <1>1, <1>2 DEF Local, Running
  <2>4. Len(s) = Rest(m) + 1 /\ Rest(m) \in 1 .. 2 /\ (Rest(m) = 2 <=> IsStake(m))
    <3>1. Len(s) = Rest(m) + 1
      BY <1>1, <1>2, <2>3, HeadPosition
    <3>2. Rest(m) \in 1 .. 2 /\ (Rest(m) = 2 <=> IsStake(m))
      BY DEF Rest
    <3> QED  BY <3>1, <3>2
  <2>5. c \notin pool /\ mined[c] = None
    BY <2>3, <2>4 DEF Sent
  <2>6. /\ None # "ok" /\ None # "success" /\ None # "error" /\ None # "reverted"
        /\ None # "replaced"
    BY RequestConstants, ZenonT(30)
  <2>7. event[c] = None /\ cmd[c].printed = 0
    BY <1>2, <2>3, <2>5, <2>6 DEF Local, Receipt, Finished
  <2>8. /\ DOMAIN cmd' = Commands /\ \A d \in Commands \ {c} : cmd'[d] = cmd[d]
        /\ DOMAIN cmd'[c] = Fields /\ cmd'[c].steps \in Seq(StepNames)
        /\ cmd'[c].request = cmd[c].request /\ cmd'[c].value = cmd[c].value
        /\ cmd'[c].printed = 0
        /\ \/ /\ cmd'[c].steps = Tail(s) /\ cmd'[c].outcome = None /\ ~cmd'[c].lost
              /\ Len(Tail(s)) = Rest(m) /\ InOrder(m, Tail(s)) /\ Tail(s) # <<>>
           \/ cmd'[c].steps = <<>> /\ cmd'[c].outcome = "error" /\ cmd'[c].lost
    <3>1. CASE Continue(c, cmd[c])
      <4>1. /\ DOMAIN cmd' = Commands /\ \A d \in Commands \ {c} : cmd'[d] = cmd[d]
            /\ DOMAIN cmd'[c] = Fields
            /\ cmd'[c].steps = Tail(s)
            /\ cmd'[c].outcome = IF Len(s) = 1 THEN "success" ELSE cmd[c].outcome
            /\ cmd'[c].request = cmd[c].request /\ cmd'[c].value = cmd[c].value
            /\ cmd'[c].printed = cmd[c].printed /\ cmd'[c].lost = cmd[c].lost
        BY <3>1, <1>2, ContinueFields, ZenonT(30)
      <4>2. /\ Tail(s) \in Seq(StepNames) /\ Len(Tail(s)) = Len(s) - 1 /\ InOrder(m, Tail(s))
            /\ Tail(s) = <<>> <=> Len(s) = 1
        BY <1>1, <1>2, <2>3, TailInOrder, Zenon
      <4>3. Len(s) # 1 /\ Len(Tail(s)) = Rest(m)
        BY <2>4, <4>2
      <4> QED  BY <2>3, <2>7, <4>1, <4>2, <4>3, ZenonT(30)
    <3>2. CASE cmd' = [cmd EXCEPT ![c].steps = <<>>, ![c].outcome = "error", ![c].lost = TRUE]
      <4> DEFINE k1 == [cmd[c] EXCEPT !.steps = <<>>]
                 k2 == [k1 EXCEPT !.outcome = "error"]
                 k3 == [k2 EXCEPT !.lost = TRUE]
      <4>1. /\ DOMAIN k1 = Fields /\ k1.steps = <<>> /\ k1.request = cmd[c].request
            /\ k1.value = cmd[c].value /\ k1.printed = cmd[c].printed
        BY <1>2 DEF Fields
      <4>2. cmd' = [cmd EXCEPT ![c] = k3]
        BY <3>2, <1>2, Zenon
      <4> HIDE DEF k1
      <4>3. /\ DOMAIN k2 = Fields /\ k2.steps = <<>> /\ k2.request = cmd[c].request
            /\ k2.value = cmd[c].value /\ k2.printed = cmd[c].printed /\ k2.outcome = "error"
        BY <4>1 DEF Fields
      <4> HIDE DEF k2
      <4>4. /\ DOMAIN k3 = Fields /\ k3.steps = <<>> /\ k3.request = cmd[c].request
            /\ k3.value = cmd[c].value /\ k3.printed = cmd[c].printed /\ k3.outcome = "error"
            /\ k3.lost = TRUE
        BY <4>3 DEF Fields
      <4> HIDE DEF k3
      <4>5. /\ DOMAIN cmd' = Commands /\ \A d \in Commands \ {c} : cmd'[d] = cmd[d]
            /\ cmd'[c] = k3
        BY <4>2, <1>2
      <4>6. <<>> \in Seq(StepNames)
        OBVIOUS
      <4> QED  BY <2>7, <4>4, <4>5, <4>6, Zenon
    <3> QED  BY <2>1, <3>1, <3>2
  <2> HIDE DEF s, m, R
  <2>9. /\ DOMAIN mined' = Commands /\ pool' \subseteq Commands /\ c \in pool'
        /\ mined'[c] = None
        /\ \A d \in R : d \notin pool' /\ mined'[d] = "replaced" /\ mined[d] = None
        /\ \A d \in Commands \ {c} : d \notin R => mined'[d] = mined[d] /\ (d \in pool' <=> d \in pool)
    BY <1>2, <2>1, <2>2, <2>5 DEF Local, Receipt
  <2>10. Typed'
    BY <1>0, <1>2, <2>8, <2>9, ZenonT(30) DEF IInv, Typed
  <2>11. Local(c)'
    <3>1. Method(c)' = m /\ Sent(c)'
      BY <2>8, <2>9, ZenonT(30) DEF Method, Sent, m
    <3>2. Running(c)'
      <4>1. CASE cmd'[c].steps = <<>>
        BY <4>1 DEF Running
      <4>2. CASE cmd'[c].steps # <<>>
        <5> DEFINE q == Rest(m)
        <5>1. /\ cmd'[c].outcome = None /\ ~cmd'[c].lost /\ Len(cmd'[c].steps) = q
              /\ InOrder(m, cmd'[c].steps) /\ cmd'[c].request \in Requests[c]
          BY <2>3, <2>8, <4>2, ZenonT(30)
        <5>2. q \in 1 .. 2 /\ (q = 2 <=> IsStake(m))
          BY <2>4
        <5> HIDE DEF q
        <5>3. q <= q /\ ~(IsStake(m) /\ q = 1)
          BY <5>2
        <5> QED  BY <3>1, <5>1, <5>3 DEF Running, q
      <4> QED  BY <4>1, <4>2
    <3>3. Receipt(c)'
      BY <1>0, <2>3, <2>6, <2>7, <2>8, <2>9 DEF Receipt
    <3>4. Finished(c)'
      BY <2>6, <2>8, <2>9, ZenonT(30) DEF Finished
    <3>5. Emitted(c)'
      BY <2>6, <2>9 DEF Emitted
    <3> QED  BY <3>2, <3>3, <3>4, <3>5 DEF Local
  <2>12. ASSUME NEW d \in R PROVE Local(d)'
    <3>1. d \in Commands \ {c} /\ d \in pool /\ Local(d)
      BY <1>2, <2>2, <2>5
    <3>2. /\ cmd'[d] = cmd[d] /\ mined[d] = None /\ mined'[d] = "replaced" /\ event'[d] = event[d]
          /\ d \notin pool'
      BY <1>0, <2>8, <2>9, <3>1, Zenon
    <3>3. Method(d)' = Method(d) /\ Sent(d) /\ Sent(d)'
      BY <2>6, <3>1, <3>2, Zenon DEF Method, Sent
    <3>4. Running(d)'
      BY <2>6, <3>1, <3>2, <3>3, Zenon DEF Local, Running
    <3>5. Receipt(d)'
      BY <2>6, <3>1, <3>2, <3>3, ZenonT(30) DEF Local, Receipt
    <3>6. Finished(d)'
      BY <2>6, <3>1, <3>2, <3>3 DEF Local, Finished
    <3>7. Emitted(d)'
      BY <3>2 DEF Emitted
    <3> QED  BY <3>4, <3>5, <3>6, <3>7 DEF Local
  <2>13. ASSUME NEW d \in Commands, d # c, d \notin R PROVE Local(d)'
    BY <1>0, <1>2, <2>8, <2>9, <2>13, FrameLocal, Zenon
  <2>14. \A d \in Commands : mined'[d] = "ok" => mined[d] = "ok"
    BY <2>6, <2>9
  <2>15. Distinct'
    BY <1>0, <2>14, Zenon DEF IInv, Distinct
  <2>16. Units' = Units
    <3>1. \A d \in Commands : event[d] # None => Worth(d)' = Worth(d)
      BY <1>0, <2>7, <2>8 DEF Worth
    <3> QED  BY <1>0, <3>1, ZenonT(30) DEF Units
  <2>17. StakeIsBurned'
    BY <1>0, <2>16 DEF IInv, StakeIsBurned
  <2> QED  BY <2>10, <2>11, <2>12, <2>13, <2>15, <2>17 DEF IInv
<1> QED  BY <1>3, <1>4
-----------------------------------------------------------------------------
\* One event is worth as many units as its amount.
LEMMA UnitsOfOne ==
  ASSUME NEW c, NEW b \in Nat
  PROVE  IsFiniteSet({c} \X (1 .. b)) /\ Cardinality({c} \X (1 .. b)) = b
<1>1. IsFiniteSet({c}) /\ Cardinality({c}) = 1
  BY FS_Singleton, Zenon
<1>2. IsFiniteSet(1 .. b) /\ Cardinality(1 .. b) = b
  BY FS_Interval
<1>3. /\ IsFiniteSet({c} \X (1 .. b))
      /\ Cardinality({c} \X (1 .. b)) = Cardinality({c}) * Cardinality(1 .. b)
  BY <1>1, <1>2, FS_Product, ZenonT(30)
<1> QED  BY <1>1, <1>2, <1>3

\* Disjoint finite sets have together as many elements as the two have.
LEMMA DisjointUnion ==
  ASSUME NEW S, NEW T, IsFiniteSet(S), IsFiniteSet(T), S \cap T = {}
  PROVE  Cardinality(S \union T) = Cardinality(S) + Cardinality(T)
<1>1. Cardinality(S \union T) = Cardinality(S) + Cardinality(T) - Cardinality(S \cap T)
  BY FS_Union
<1>2. Cardinality(S \cap T) = 0
  BY FS_EmptySet
<1>3. Cardinality(S) \in Nat /\ Cardinality(T) \in Nat
  BY FS_CardinalityType
<1> QED  BY <1>1, <1>2, <1>3

\* Events are finite in number and in worth.
LEMMA UnitsFinite ==
  ASSUME IInv
  PROVE  IsFiniteSet(Units) /\ \A d \in Commands : event[d] # None => Worth(d) \in Nat
<1>1. ASSUME NEW d \in Commands, event[d] # None PROVE Worth(d) \in Nat
  <2>1. Local(d) /\ cmd[d].value \in Nat
    BY DEF IInv, Typed
  <2>2. event[d].amount \in Nat
    BY <1>1, <2>1 DEF Local, Receipt, Emitted
  <2> QED  BY <2>1, <2>2 DEF Worth
<1> DEFINE D == {d \in Commands : event[d] # None}
           Part(d) == {d} \X (1 .. Worth(d))
           P == {Part(d) : d \in D}
<1>2. IsFiniteSet(D)
  <2>1. D \subseteq Commands
    OBVIOUS
  <2> QED  BY <2>1, RequestConstants, FS_Subset
<1>3. IsFiniteSet(P)
  <2> DEFINE f == [d \in D |-> Part(d)]
  <2>1. f \in Surjection(D, P)
    BY Zenon DEF Surjection
  <2> HIDE DEF D, P, f
  <2> QED  BY <1>2, <2>1, FS_Surjection
<1>4. ASSUME NEW p \in P PROVE IsFiniteSet(p)
  <2>1. PICK d \in D : p = {d} \X (1 .. Worth(d))
    OBVIOUS
  <2>2. Worth(d) \in Nat
    BY <1>1
  <2>3. IsFiniteSet({d})
    BY FS_Singleton, Zenon
  <2>4. IsFiniteSet(1 .. Worth(d))
    BY <2>2, FS_Interval
  <2> QED  BY <2>1, <2>3, <2>4, FS_Product, Zenon
<1>5. IsFiniteSet(UNION P)
  BY <1>3, <1>4, FS_UNION, Zenon
<1> QED  BY <1>1, <1>5 DEF Units

\* The record that a transaction of a request emits.
LEMMA EventOfRequest ==
  ASSUME Typed, NEW c \in Commands, cmd[c].request \in Requests[c]
  PROVE  LET e == Event(Transaction(c))
         IN  /\ e # None /\ e.method = Method(c) /\ e.operator = From(c)
             /\ e.amount \in Nat /\ e.id \in Nat
             /\ e.amount = roundedStakeAmount(IF Method(c) \in Deposits THEN cmd[c].value
                                              ELSE cmd[c].request.amount)
             /\ IsStake(Method(c)) =>
                  e.id = IF cmd[c].request.period = FLEXIBLE THEN 0 ELSE delegationIdCounter + 1
<1> DEFINE r == cmd[c].request
           t == Transaction(c)
           a == roundedStakeAmount(IF r.method \in Deposits THEN cmd[c].value ELSE r.amount)
           i == IF IsStake(r.method)
                THEN IF r.period = FLEXIBLE THEN 0 ELSE delegationIdCounter + 1
                ELSE r.id
           w == IF r.method \in OnBehalf THEN r.delegator ELSE r.from
<1>1. /\ r.method \in DOMAIN Validation /\ r.from \in Accounts
      /\ r.delegator \in Accounts \union {NoAccount}
      /\ r.amount \in Nat /\ r.period \in Nat /\ r.id \in Nat
  BY RequestConstants
<1>2. cmd[c].value \in Nat /\ delegationIdCounter \in Nat
  BY DEF Typed
<1>3. ASSUME NEW n \in Nat PROVE roundedStakeAmount(n) \in Nat
  <2>1. n % STAKE_ROUNDING \in 0 .. n
    <3>1. /\ n % STAKE_ROUNDING \in Nat /\ n \div STAKE_ROUNDING \in Nat
          /\ n = STAKE_ROUNDING * (n \div STAKE_ROUNDING) + (n % STAKE_ROUNDING)
      BY StakingConstants
    <3>2. STAKE_ROUNDING * (n \div STAKE_ROUNDING) \in Nat
      BY <3>1, StakingConstants
    <3> QED  BY <3>1, <3>2
  <2> QED  BY <2>1 DEF roundedStakeAmount, remainder
<1>4. a \in Nat
  BY <1>1, <1>2, <1>3
<1>5. i \in Nat
  BY <1>1, <1>2
<1>6. /\ t.method = r.method /\ t.from = r.from /\ t.value = cmd[c].value
      /\ t.amount = r.amount /\ t.delegator = r.delegator /\ t.period = r.period /\ t.id = r.id
  BY Zenon DEF Transaction
<1>7. Event(t) = [method |-> r.method, operator |-> r.from, delegator |-> w,
                  amount |-> a, id |-> i]
  <2> HIDE DEF t
  <2>1. (CASE t.method \in Deposits -> roundedStakeAmount(t.value)
           [] OTHER -> roundedStakeAmount(t.amount)) = a
    BY <1>6
  <2>2. (CASE t.method \in {"stake", "stakeOnBehalf"} -> IdOf(t) [] OTHER -> t.id) = i
    BY <1>6 DEF IdOf, IsStake
  <2>3. (IF t.method \in OnBehalf THEN t.delegator ELSE t.from) = w
    BY <1>6
  <2> HIDE DEF a, i, w
  <2> QED  BY <1>6, <2>1, <2>2, <2>3 DEF Event
<1>8. w \in Accounts \union {NoAccount}
  BY <1>1
<1>9. Event(t) # None
  <2> HIDE DEF a, i, w, r, t
  <2>1. Event(t) \in [method : DOMAIN Validation, operator : Accounts,
                      delegator : Accounts \union {NoAccount}, amount : Nat, id : Nat]
    BY <1>1, <1>4, <1>5, <1>7, <1>8
  <2> QED  BY <2>1, RequestConstants
<1>10. /\ Event(t).method = Method(c) /\ Event(t).operator = From(c)
       /\ Event(t).amount = a /\ Event(t).id = i
  <2> HIDE DEF a, i, w, t
  <2> QED  BY <1>7 DEF Method, From
<1> QED  BY <1>4, <1>5, <1>9, <1>10, Zenon DEF Method

\* The contract burns what a transaction's event is worth and keeps nothing.
LEMMA BurnsItsWorth ==
  ASSUME Typed, NEW c \in Commands, cmd[c].request \in Requests[c]
  PROVE  LET t == Transaction(c)
         IN  /\ Burns(t) = IF Method(c) \in Deposits THEN Event(t).amount ELSE cmd[c].value
             /\ Burns(t) \in Nat /\ t.value - Burns(t) - refundRemainder(t) = 0
<1> DEFINE t == Transaction(c)
           v == cmd[c].value
           q == remainder(v)
<1>1. t.method = Method(c) /\ t.value = v
  BY Zenon DEF Transaction, Method
<1>2. v \in Nat /\ q \in Int /\ roundedStakeAmount(v) = v - q
  BY StakingConstants DEF Typed, roundedStakeAmount, remainder
<1>3. /\ Event(t).amount \in Nat
      /\ Method(c) \in Deposits => Event(t).amount = roundedStakeAmount(v)
  BY EventOfRequest
<1> HIDE DEF t, v, q
<1>4. CASE Method(c) \in Deposits
  <2>1. Burns(t) = roundedStakeAmount(v) /\ refundRemainder(t) = q
    BY <1>1, <1>4 DEF Burns, refundRemainder, q
  <2> QED  BY <1>1, <1>2, <1>3, <1>4, <2>1 DEF t
<1>5. CASE Method(c) \notin Deposits
  <2>1. Burns(t) = v /\ refundRemainder(t) = 0
    BY <1>1, <1>5, Zenon DEF Burns, refundRemainder
  <2> QED  BY <1>1, <1>2, <1>5, <2>1 DEF t, v
<1> QED  BY <1>4, <1>5

\* A mined transaction: one that is not accepted leaves a failed receipt, one
\* that is leaves an event worth what was burned.
LEMMA MineStep ==
  ASSUME IInv, NEW c \in Commands, Mine(c)
  PROVE  IInv'
<1> DEFINE t == Transaction(c)
           e == Event(t)
           b == Burns(t)
<1>1. c \in pool /\ pool' = pool \ {c} /\ cmd' = cmd
  BY DEF Mine
<1>2. /\ DOMAIN cmd = Commands /\ DOMAIN mined = Commands /\ DOMAIN event = Commands
      /\ pool \subseteq Commands /\ \A d \in Commands : Local(d)
      /\ fee \in Nat /\ delegationIdCounter \in Nat /\ burned \in Nat
  BY DEF IInv, Typed
<1>3. /\ None # "ok" /\ None # "success" /\ None # "error" /\ None # "reverted"
  BY RequestConstants
<1>4. mined[c] = None /\ event[c] = None /\ Sent(c) /\ cmd[c].request \in Requests[c]
  <2>1. mined[c] = None /\ Sent(c)
    BY <1>1, <1>2 DEF Local, Receipt, Sent
  <2> QED  BY <2>1, <1>2, <1>3, ZenonT(30) DEF Local, Receipt
<1>5. /\ cmd[c].outcome # "success" /\ cmd[c].printed = 0
      /\ cmd[c].outcome = "error" => cmd[c].lost
      /\ ~(cmd[c].steps # <<>> /\ IsStake(Method(c)) /\ Len(cmd[c].steps) = 1)
      /\ cmd[c].steps = <<>> => cmd[c].outcome # None
  <2>1. cmd[c].outcome # "success"
    BY <1>2, <1>3, <1>4, ZenonT(30) DEF Local, Finished
  <2>2. cmd[c].printed = 0
    BY <1>2, <2>1 DEF Local, Finished
  <2>3. cmd[c].outcome = "error" => cmd[c].lost
    BY <1>1, <1>2, <1>3, ZenonT(30) DEF Local, Running, Receipt
  <2>4. ~(cmd[c].steps # <<>> /\ IsStake(Method(c)) /\ Len(cmd[c].steps) = 1)
    BY <1>2, <1>3, <1>4 DEF Local, Running
  <2>5. cmd[c].steps = <<>> => cmd[c].outcome # None
    BY <1>2, <1>4, Zenon DEF Local, Receipt
  <2> QED  BY <2>1, <2>2, <2>3, <2>4, <2>5, Zenon
<1>6. ASSUME NEW x \in {"ok", "reverted"}, mined' = [mined EXCEPT ![c] = x]
      PROVE  /\ DOMAIN mined' = Commands /\ mined'[c] = x
             /\ \A d \in Commands \ {c} : mined'[d] = mined[d] /\ (d \in pool' <=> d \in pool)
             /\ c \notin pool' /\ Running(c)' /\ Sent(c)'
             /\ cmd'[c].steps = <<>> => cmd'[c].outcome # None
  <2>1. /\ DOMAIN mined' = Commands /\ mined'[c] = x
        /\ \A d \in Commands \ {c} : mined'[d] = mined[d]
    BY <1>2, <1>6
  <2>2. c \notin pool' /\ \A d \in Commands \ {c} : d \in pool' <=> d \in pool
    BY <1>1
  <2>3. Sent(c)' /\ Method(c)' = Method(c)
    BY <1>1, <1>3, <2>1 DEF Sent, Method
  <2>4. Running(c)'
    BY <1>1, <1>2, <1>4, <1>5, <2>3, Zenon DEF Local, Running
  <2> QED  BY <1>1, <1>5, <2>1, <2>2, <2>3, <2>4
<1>7. CASE /\ ~Accepts(t) /\ mined' = [mined EXCEPT ![c] = "reverted"]
           /\ UNCHANGED <<contract, event>>
  <2>0. /\ fee' = fee /\ delegationIdCounter' = delegationIdCounter /\ burned' = burned
        /\ held' = held /\ event' = event
    BY <1>7 DEF contract
  <2>1. /\ DOMAIN mined' = Commands /\ mined'[c] = "reverted"
        /\ \A d \in Commands \ {c} : mined'[d] = mined[d] /\ (d \in pool' <=> d \in pool)
        /\ c \notin pool' /\ Running(c)'
        /\ cmd'[c].steps = <<>> => cmd'[c].outcome # None
    BY <1>6, <1>7, ZenonT(30)
  <2>2. Typed'
    BY <1>1, <1>2, <2>0, <2>1, Zenon DEF IInv, Typed
  <2>3. Receipt(c)'
    BY <1>1, <1>3, <1>4, <2>0, <2>1 DEF Receipt
  <2>4. Finished(c)' /\ Emitted(c)'
    BY <1>1, <1>5, <2>1, Zenon DEF Finished, Emitted
  <2>5. ASSUME NEW d \in Commands PROVE Local(d)'
    <3>1. CASE d = c
      BY <3>1, <2>1, <2>3, <2>4 DEF Local
    <3>2. CASE d # c
      BY <3>2, <1>1, <1>2, <2>0, <2>1, FrameLocal, ZenonT(30)
    <3> QED  BY <3>1, <3>2, Zenon
  <2>6. \A d \in Commands : mined'[d] = "ok" => mined[d] = "ok"
    BY <2>1
  <2>7. Distinct'
    BY <2>0, <2>6 DEF IInv, Distinct
  <2>8. StakeIsBurned'
    BY <1>1, <2>0 DEF IInv, StakeIsBurned, Units, Worth
  <2> QED  BY <2>2, <2>5, <2>7, <2>8 DEF IInv
<1>8. CASE /\ Execute(t) /\ mined' = [mined EXCEPT ![c] = "ok"]
           /\ event' = [event EXCEPT ![c] = e]
  <2> DEFINE n == delegationIdCounter
             m == Method(c)
  <2>0. /\ e # None /\ e.method = m /\ e.operator = From(c) /\ e.amount \in Nat /\ e.id \in Nat
        /\ IsStake(m) => e.id = IF cmd[c].request.period = FLEXIBLE THEN 0 ELSE n + 1
    BY <1>4, EventOfRequest, ZenonT(30) DEF IInv
  <2>1. /\ DOMAIN mined' = Commands /\ mined'[c] = "ok"
        /\ \A d \in Commands \ {c} : mined'[d] = mined[d] /\ (d \in pool' <=> d \in pool)
        /\ c \notin pool' /\ Running(c)'
        /\ cmd'[c].steps = <<>> => cmd'[c].outcome # None
    BY <1>6, <1>8, ZenonT(30)
  <2>2. /\ b = IF m \in Deposits THEN e.amount ELSE cmd[c].value
        /\ b \in Nat /\ t.value - b - refundRemainder(t) = 0
    BY <1>4, BurnsItsWorth, Zenon DEF IInv
  <2>3. t.method = m /\ t.period = cmd[c].request.period /\ t.value = cmd[c].value
    BY DEF Transaction, Method
  <2>4. /\ burned' = burned + b /\ held' = held + t.value - b - refundRemainder(t) /\ fee' = fee
        /\ n' = IF IsStake(m) /\ cmd[c].request.period # FLEXIBLE THEN n + 1 ELSE n
    BY <1>8, <2>3, Zenon DEF Execute, settings, IsStake
  <2> HIDE DEF e, b, t
  <2>5. /\ DOMAIN event' = Commands /\ event'[c] = e
        /\ \A d \in Commands \ {c} : event'[d] = event[d]
    BY <1>2, <1>8
  <2>6. n' \in Nat /\ n <= n' /\ n \in Nat
    BY <1>2, <2>4
  <2>7. Typed'
    BY <1>1, <1>2, <2>1, <2>2, <2>4, <2>5, <2>6 DEF IInv, Typed
  <2>8. Receipt(c)'
    BY <1>1, <1>3, <1>4, <2>0, <2>1, <2>5, ZenonT(30) DEF Receipt
  <2>9. Finished(c)'
    BY <1>1, <1>5, <2>1, ZenonT(30) DEF Finished
  <2>10. Emitted(c)'
    <3>1. Method(c)' = m /\ From(c)' = From(c)
      BY <1>1 DEF Method, From
    <3>2. IsStake(m) => /\ e.id <= n'
                        /\ e.id = 0 <=> cmd[c].request.period = FLEXIBLE
      BY <2>0, <2>4, <2>6
    <3> HIDE DEF m, n
    <3> QED  BY <1>1, <2>0, <2>5, <3>1, <3>2, ZenonT(30) DEF Emitted, n
  <2>11. ASSUME NEW d \in Commands PROVE Local(d)'
    <3>1. CASE d = c
      BY <3>1, <2>1, <2>8, <2>9, <2>10 DEF Local
    <3>2. CASE d # c
      BY <3>2, <1>1, <1>2, <2>1, <2>5, <2>6, FrameLocal, ZenonT(30)
    <3> QED  BY <3>1, <3>2
  <2>12. ASSUME NEW d \in Commands \ {c}, mined'[d] = "ok", IsStake(event'[d].method),
                IsStake(event'[c].method), event'[c].id = event'[d].id
         PROVE  event'[c].id = 0
    <3>1. mined[d] = "ok" /\ event'[d] = event[d] /\ event'[c] = e
      BY <2>1, <2>5, <2>12, ZenonT(30)
    <3>2. event[d].id <= n /\ event[d].id \in Nat
      BY <1>2, <2>12, <3>1, ZenonT(30) DEF Local, Emitted
    <3>3. e.id \in {0, n + 1}
      BY <2>0, <2>5, <2>12
    <3> QED  BY <2>6, <2>12, <3>1, <3>2, <3>3
  <2>13. Distinct'
    <3> SUFFICES ASSUME NEW x \in Commands, NEW y \in Commands \ {x},
                        mined'[x] = "ok", IsStake(event'[x].method),
                        mined'[y] = "ok", IsStake(event'[y].method), event'[x].id = event'[y].id
                 PROVE  event'[x].id = 0
      BY DEF Distinct
    <3>1. CASE x = c
      BY <3>1, <2>12
    <3>2. CASE y = c
      <4>1. event'[c].id = 0
        BY <3>2, <2>12
      <4> QED  BY <3>2, <4>1
    <3>3. CASE x # c /\ y # c
      BY <3>3, <2>1, <2>5, ZenonT(30) DEF IInv, Distinct
    <3> QED  BY <3>1, <3>2, <3>3
  <2>14. StakeIsBurned'
    <3> DEFINE N == {c} \X (1 .. b)
    <3>1. Worth(c)' = b /\ \A d \in Commands \ {c} : Worth(d)' = Worth(d)
      BY <1>1, <2>0, <2>2, <2>5, ZenonT(30) DEF Worth
    <3>2. Units' = Units \union N /\ Units \cap N = {}
      <4>1. \A d \in Commands : event'[d] # None <=> event[d] # None \/ d = c
        BY <2>0, <2>5
      <4>2. \A d \in Commands \ {c} : {d} \X (1 .. Worth(d)') = {d} \X (1 .. Worth(d))
        BY <3>1
      <4>3. Units' = Units \union N
        BY <1>4, <3>1, <4>1, <4>2 DEF Units
      <4>4. \A u \in Units : u[1] # c
        BY <1>4 DEF Units
      <4>5. \A u \in N : u[1] = c
        OBVIOUS
      <4> QED  BY <4>3, <4>4, <4>5
    <3>3. IsFiniteSet(N) /\ Cardinality(N) = b
      <4>1. b \in Nat
        BY <2>2, Zenon
      <4> QED  BY <4>1, UnitsOfOne, Zenon
    <3>4. IsFiniteSet(Units)
      BY UnitsFinite
    <3> HIDE DEF N
    <3>5. Cardinality(Units \union N) = Cardinality(Units) + Cardinality(N)
      BY <3>2, <3>3, <3>4, DisjointUnion, Zenon
    <3>6. held = 0 /\ burned = Cardinality(Units)
      BY DEF IInv, StakeIsBurned
    <3>7. burned' = Cardinality(Units')
      BY <2>4, <3>2, <3>3, <3>5, <3>6, Zenon
    <3>8. held' = 0
      <4>1. t.value \in Nat /\ refundRemainder(t) \in Int
        BY <2>3, StakingConstants, SMTT(30) DEF IInv, Typed, refundRemainder, remainder
      <4> QED  BY <2>2, <2>4, <3>6, <4>1
    <3> QED  BY <3>7, <3>8 DEF StakeIsBurned
  <2> QED  BY <2>7, <2>11, <2>13, <2>14 DEF IInv
<1> QED  BY <1>7, <1>8, Zenon DEF Mine

\* The owner's setters leave the commands and the money alone.
LEMMA OwnerStep ==
  ASSUME IInv, Owner
  PROVE  IInv'
<1>1. cmd' = cmd /\ pool' = pool /\ mined' = mined /\ event' = event
  BY DEF Owner, external
<1>2. PICK new \in Settings : \/ setFee(new) \/ setMinStakeAmount(new)
                              \/ setMinUnstakeAmount(new) \/ setMinCommissionRate(new)
  BY DEF Owner
<1>3. /\ delegationIdCounter' = delegationIdCounter /\ burned' = burned /\ held' = held
      /\ fee' \in Nat
  BY <1>2, RequestConstants, ZenonT(30)
     DEF setFee, setMinStakeAmount, setMinUnstakeAmount, setMinCommissionRate, IInv, Typed
<1>4. Typed'
  BY <1>1, <1>3 DEF IInv, Typed
<1>5. \A d \in Commands : Local(d)'
  BY <1>1, <1>3, FrameLocal DEF IInv
<1>6. Distinct' /\ StakeIsBurned'
  BY <1>1, <1>3, Zenon DEF IInv, Distinct, StakeIsBurned, Units, Worth
<1> QED  BY <1>4, <1>5, <1>6 DEF IInv

\* Nothing happens.
LEMMA StutterStep ==
  ASSUME IInv, UNCHANGED vars
  PROVE  IInv'
<1>1. /\ cmd' = cmd /\ pool' = pool /\ mined' = mined /\ event' = event
      /\ delegationIdCounter' = delegationIdCounter /\ burned' = burned /\ held' = held
      /\ fee' = fee
  BY DEF vars, external, contract
<1>2. Typed'
  BY <1>1 DEF IInv, Typed
<1>3. \A d \in Commands : Local(d)'
  BY <1>1, FrameLocal DEF IInv
<1>4. Distinct' /\ StakeIsBurned'
  BY <1>1, Zenon DEF IInv, Distinct, StakeIsBurned, Units, Worth
<1> QED  BY <1>2, <1>3, <1>4 DEF IInv

\* No command has started.
LEMMA InitInv == Init => IInv
<1> SUFFICES ASSUME Init PROVE IInv  OBVIOUS
<1>1. /\ cmd = [c \in Commands |-> Idle] /\ pool = {} /\ delegationIdCounter = 0
      /\ burned = 0 /\ held = 0 /\ fee \in Nat
      /\ mined = [c \in Commands |-> None] /\ event = [c \in Commands |-> None]
  BY RequestConstants DEF Init, initialize
<1>2. /\ DOMAIN Idle = Fields /\ Idle.steps = <<>> /\ Idle.value = 0 /\ Idle.printed = 0
      /\ Idle.outcome = None
  BY Zenon DEF Idle, Fields
<1>3. <<>> \in Seq(StepNames)
  OBVIOUS
<1>4. None # "ok" /\ None # "success" /\ None # "error"
  BY RequestConstants
<1> HIDE DEF Idle
<1>5. Typed
  <2>1. DOMAIN Idle = Fields /\ Idle.steps \in Seq(StepNames) /\ Idle.value \in Nat
    BY <1>2, <1>3, SMTT(30)
  <2>2. \A c \in Commands : cmd[c] = Idle
    BY <1>1
  <2>3. \A c \in Commands :
          DOMAIN cmd[c] = Fields /\ cmd[c].steps \in Seq(StepNames) /\ cmd[c].value \in Nat
    BY <2>1, <2>2, ZenonT(30)
  <2> QED  BY <1>1, <2>3, Zenon DEF Typed
<1>6. ASSUME NEW c \in Commands PROVE Local(c)
  <2>1. cmd[c] = Idle /\ c \notin pool /\ mined[c] = None /\ event[c] = None
    BY <1>1
  <2> QED  BY <1>2, <1>4, <2>1, Zenon DEF Local, Running, Receipt, Finished, Emitted, Sent
<1>7. Distinct
  BY <1>1, <1>4 DEF Distinct
<1>8. StakeIsBurned
  <2>1. Units = {}
    BY <1>1 DEF Units
  <2> QED  BY <1>1, <2>1, FS_EmptySet DEF StakeIsBurned
<1> QED  BY <1>5, <1>6, <1>7, <1>8 DEF IInv

\* The inductive invariant holds for any number of commands of any accounts,
\* with any flags, in every order of their steps, of blocks and of changes by
\* the owner.
THEOREM Invariance == Spec => []IInv
<1>1. IInv /\ [Next]_vars => IInv'
  <2> SUFFICES ASSUME IInv, [Next]_vars PROVE IInv'  OBVIOUS
  <2>1. ASSUME NEW c \in Commands, NEW r \in Requests[c], Invoke(c, r) PROVE IInv'
    BY <2>1, InvokeStep
  <2>2. ASSUME NEW c \in Commands, Command(c) \/ CallFails(c) PROVE IInv'
    BY <2>2, EarlySteps, SendStep, WaitStep, PrintStep DEF Command
  <2>3. ASSUME NEW c \in Commands, Mine(c) PROVE IInv'
    BY <2>3, MineStep
  <2>4. CASE Owner
    BY <2>4, OwnerStep
  <2>5. CASE UNCHANGED vars
    BY <2>5, StutterStep
  <2> QED  BY <2>1, <2>2, <2>3, <2>4, <2>5 DEF Next
<1> QED  BY <1>1, InitInv, PTL DEF Spec

\* What the contract burned is what its events are worth, unit for unit, and
\* it keeps nothing: refundRemainder and the burning of stake and fees add up
\* for every amount and every rounding.
THEOREM WorthIsBurned == Spec => []StakeIsBurned
<1>1. IInv => StakeIsBurned
  BY DEF IInv
<1> QED  BY <1>1, Invariance, PTL

\* A command reports success only when its own transaction emitted its event,
\* and an error only when it did not, unless the answer to an accepted
\* transaction was lost.
THEOREM OutcomesAreTrue == Spec => []OutcomeIsTrue
<1>1. IInv => OutcomeIsTrue
  <2> SUFFICES ASSUME IInv, NEW c \in Commands
               PROVE  /\ cmd[c].outcome = "success" => /\ event[c] # None
                                                       /\ event[c].method = cmd[c].request.method
                                                       /\ event[c].operator = From(c)
                      /\ cmd[c].outcome = "error" /\ event[c] # None => cmd[c].lost
    BY DEF OutcomeIsTrue
  <2>1. Receipt(c) /\ Finished(c) /\ Emitted(c)
    BY DEF IInv, Local
  <2> QED  BY <2>1, ZenonT(30) DEF Receipt, Finished, Emitted, Method
<1> QED  BY <1>1, Invariance, PTL

\* The number that stake prints is that of the delegation its transaction
\* opened, and no other command prints it, whatever is mined in between.
THEOREM PrintsOwn == Spec => []PrintsOwnDelegation
<1>1. IInv => PrintsOwnDelegation
  <2> SUFFICES ASSUME IInv, NEW c \in Commands, cmd[c].outcome = "success",
                      cmd[c].request.method \in {"stake", "stakeOnBehalf"}
               PROVE  /\ cmd[c].printed = event[c].id
                      /\ cmd[c].printed > 0 <=> cmd[c].request.period # FLEXIBLE
                      /\ \A d \in Commands \ {c} :
                           cmd[d].printed = cmd[c].printed => cmd[c].printed = 0
    BY DEF PrintsOwnDelegation
  <2>1. \A d \in Commands : Finished(d) /\ Emitted(d)
    BY ZenonT(30) DEF IInv, Local
  <2>2. IsStake(Method(c)) /\ mined[c] = "ok"
    BY <2>1 DEF IsStake, Method, Finished
  <2>3. /\ cmd[c].printed = event[c].id /\ event[c].id \in Nat /\ event[c].method = Method(c)
        /\ event[c].id = 0 <=> cmd[c].request.period = FLEXIBLE
    BY <2>1, <2>2, ZenonT(30) DEF Finished, Emitted
  <2>4. cmd[c].printed > 0 <=> cmd[c].request.period # FLEXIBLE
    BY <2>3, SMTT(30)
  <2>5. ASSUME NEW d \in Commands \ {c}, cmd[d].printed = cmd[c].printed, cmd[c].printed # 0
        PROVE  FALSE
    <3>1. cmd[d].outcome = "success" /\ IsStake(Method(d))
      BY <2>1, <2>5, ZenonT(30) DEF Finished
    <3>2. mined[d] = "ok" /\ cmd[d].printed = event[d].id
      BY <2>1, <3>1, Zenon DEF Finished
    <3>3. event[d].method = Method(d)
      BY <2>1, <3>2 DEF Emitted
    <3> QED  BY <2>2, <2>3, <2>5, <3>1, <3>2, <3>3, ZenonT(30) DEF IInv, Distinct
  <2> QED  BY <2>3, <2>4, <2>5
<1> QED  BY <1>1, Invariance, PTL
===========================================================================
