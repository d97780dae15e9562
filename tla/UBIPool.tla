------------------------------ MODULE UBIPool ------------------------------
(***************************************************************************)
(* The UBIPool contract: the consensus layer pays the UBI share of the     *)
(* emission to it, its owner splits what has arrived into distributions,   *)
(* and validators claim their part.                                        *)
(*                                                                         *)
(* A claim hands control to the claimer's account before it lowers         *)
(* totalPendingClaims, so it is two steps, between which the same          *)
(* transaction can enter the contract again; a claim whose call fails is   *)
(* reverted and is no step at all.                                         *)
(***************************************************************************)
EXTENDS Sums

CONSTANTS Keys,              \* compressed public keys of validators
          MaxAmount,         \* bound: the largest single amount
          MaxEntries,        \* bound: entries of a distribution
          MaxDistributions,  \* bound: distributions
          MaxUbiPercentage   \* MAX_UBI_PERCENTAGE, in basis points

ASSUME PoolConstants ==
  /\ IsFiniteSet(Keys)
  /\ {MaxAmount, MaxEntries, MaxDistributions, MaxUbiPercentage} \subseteq Nat

VARIABLES balance, currentDistributionId, validatorUBIAmounts, totalPendingClaims,
          emitted,   \* percentages in the UBIPercentageSet logs of this EL block
          calls,     \* claims that are calling their claimer, the innermost last
          promised,  \* history: what each distribution sets for a key
          paid       \* history: what a key was paid from a distribution

poolVars == <<balance, currentDistributionId, validatorUBIAmounts, totalPendingClaims,
              emitted, calls, promised, paid>>

Ids == 1 .. MaxDistributions

Zero == [id \in Ids |-> [k \in Keys |-> 0]]

Total(amounts) == Sum([id \in Ids |-> Sum(amounts[id])])

PoolInit ==
  /\ balance = 0 /\ currentDistributionId = 0 /\ totalPendingClaims = 0
  /\ validatorUBIAmounts = Zero
  /\ calls = <<>> /\ emitted = <<>>
  /\ promised = Zero /\ paid = Zero
-----------------------------------------------------------------------------
\* A withdrawal of the consensus layer arrives.
ReceiveUBI(amount) ==
  /\ balance' = balance + amount
  /\ UNCHANGED <<currentDistributionId, validatorUBIAmounts, totalPendingClaims,
                 calls, promised, paid>>

\* The contract keeps no percentage: it only checks and logs it.  At most two
\* logs to an EL block (bound).
setUBIPercentage(percentage) ==
  /\ percentage <= MaxUbiPercentage /\ Len(emitted) < 2
  /\ emitted' = Append(emitted, percentage)
  /\ UNCHANGED <<balance, currentDistributionId, validatorUBIAmounts, totalPendingClaims,
                 calls, promised, paid>>

\* The loop of setUBIDistribution: the last entry of a key overwrites the ones
\* before it, and accAmount counts them all.
DistributionLoop(entries) ==
  LET step[i \in 0 .. Len(entries)] ==
        IF i = 0
        THEN [amounts |-> [k \in Keys |-> 0], accAmount |-> 0]
        ELSE LET e == entries[i]
             IN  [amounts   |-> [step[i - 1].amounts EXCEPT ![e.key] = e.amount],
                  accAmount |-> step[i - 1].accAmount + e.amount]
  IN  step[Len(entries)]

notEnoughBalance(totalUBI) == totalUBI + totalPendingClaims > balance

setUBIDistribution(totalUBI, entries) ==
  /\ currentDistributionId < MaxDistributions
  /\ ~notEnoughBalance(totalUBI)
  /\ \A i \in 1 .. Len(entries) : entries[i].amount > 0
  /\ DistributionLoop(entries).accAmount = totalUBI
  /\ totalPendingClaims' = totalPendingClaims + totalUBI
  /\ LET id == currentDistributionId + 1
     IN  /\ currentDistributionId' = id
         /\ validatorUBIAmounts' =
              [validatorUBIAmounts EXCEPT ![id] = DistributionLoop(entries).amounts]
         /\ promised' = [promised EXCEPT ![id] = DistributionLoop(entries).amounts]
  /\ UNCHANGED <<balance, emitted, calls, paid>>

\* claimUBI to the point where the claimer has the money and the control.
claimUBIAgain(id, k) ==   \* mutant: the amount is cleared after the call, without nonReentrant
  LET amount == validatorUBIAmounts[id][k]
  IN  /\ Len(calls) < 2
      /\ amount > 0 /\ amount <= balance
      /\ balance' = balance - amount
      /\ calls' = Append(calls, amount)
      /\ paid' = [paid EXCEPT ![id][k] = @ + amount]
      /\ UNCHANGED <<currentDistributionId, validatorUBIAmounts, totalPendingClaims,
                     emitted, promised>>

claimUBI(id, k) ==
  LET amount == validatorUBIAmounts[id][k]
  IN  /\ calls = <<>>   \* nonReentrant
      /\ amount > 0 /\ amount <= balance
      /\ validatorUBIAmounts' = [validatorUBIAmounts EXCEPT ![id][k] = 0]
      /\ balance' = balance - amount
      /\ calls' = Append(calls, amount)
      /\ paid' = [paid EXCEPT ![id][k] = @ + amount]
      /\ UNCHANGED <<currentDistributionId, totalPendingClaims, emitted, promised>>

\* The call returns; the subtraction is checked.
claimUBIReturnsKeepingPending ==   \* mutant: the counter is not lowered
  /\ calls # <<>>
  /\ calls' = SubSeq(calls, 1, Len(calls) - 1)
  /\ UNCHANGED <<balance, currentDistributionId, validatorUBIAmounts,
                 totalPendingClaims, emitted, promised, paid>>

claimUBIReturns ==
  /\ calls # <<>> /\ calls[Len(calls)] <= totalPendingClaims
  /\ totalPendingClaims' = totalPendingClaims - calls[Len(calls)]
  /\ calls' = SubSeq(calls, 1, Len(calls) - 1)
  /\ UNCHANGED <<balance, currentDistributionId, validatorUBIAmounts,
                 emitted, promised, paid>>

Entries ==
  UNION {[1 .. n -> [key : Keys, amount : 0 .. MaxAmount]] : n \in 1 .. MaxEntries}

\* What transactions do; the consensus layer is in Emission.
PoolNext ==
  \/ \E entries \in Entries, totalUBI \in 0 .. MaxEntries * MaxAmount :
       setUBIDistribution(totalUBI, entries)
  \/ \E id \in Ids, k \in Keys : claimUBI(id, k)
  \/ claimUBIReturns
-----------------------------------------------------------------------------
\* Not counting claims that have paid and are about to lower it, the counter
\* covers every amount that can still be claimed, and the pool's money covers
\* the counter: setUBIDistribution never promises money twice, also when it is
\* reached from inside a claim, the checked subtraction at the end of claimUBI
\* never reverts, and a finished claim holds back nothing.
Solvent ==
  LET open == totalPendingClaims - Sum(calls)
  IN  Total(validatorUBIAmounts) <= open /\ open <= balance

\* A claim never pays more than its distribution set for the key, and what a
\* key has not been paid it can still claim: entry by entry, promised is paid
\* or claimable.
PromisedIsPaidOrClaimable ==
  \A id \in Ids, k \in Keys :
    paid[id][k] + validatorUBIAmounts[id][k] = promised[id][k]
=============================================================================
