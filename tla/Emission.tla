------------------------------ MODULE Emission ------------------------------
(***************************************************************************)
(* From the emission to the UBI pool: every block mints, the distribution  *)
(* module sets the UBI share of it aside, the end of the block queues that *)
(* share as a withdrawal, a later block pays the withdrawal to the UBIPool *)
(* contract, and the contract's owner sets the share, which the block      *)
(* after learns from the log.                                              *)
(*                                                                         *)
(* Coins are whole tokens.  What the distribution module holds is decimal  *)
(* and is counted in Parts of a token.                                     *)
(***************************************************************************)
EXTENDS UBIPool

CONSTANTS InflationsPerYear, BlocksPerYear,
          SingularityHeight,      \* the first height that mints
          Parts,                  \* parts of a token, and 100% as a percentage
          Percentages,            \* percentages the owner may try
          MinPartialWithdrawalAmount,
          MaxHeight               \* bound: blocks

VARIABLES height,
          percentage,  \* the share in the distribution parameters
          minted,      \* history: everything minted, in tokens
          rest, ubi,   \* the stakers' part and the UBI part of it, in Parts
          queued,      \* UBI withdrawals in the queue
          logs         \* percentages logged in the EL block of the last height
consensus == <<height, percentage, minted, rest, ubi, queued, logs>>

\* The parameters of x/mint that genesis may have.
Validate == InflationsPerYear \in Nat /\ BlocksPerYear \in Nat \ {0}

ASSUME EmissionConstants ==
  /\ Validate
  /\ Parts \in Nat \ {0} /\ MaxUbiPercentage <= Parts /\ Percentages \subseteq Nat
  /\ {SingularityHeight, MinPartialWithdrawalAmount, MaxHeight} \subseteq Nat

EmissionInit ==
  /\ PoolInit /\ height = 0 /\ percentage = 0 /\ minted = 0 /\ rest = 0 /\ ubi = 0
  /\ queued = <<>> /\ logs = <<>>

\* The quotient, of which BeginBlocker keeps the whole tokens (TruncateInt);
\* nothing during singularity.
DefaultInflationCalculationFn == InflationsPerYear \div BlocksPerYear
BeginBlockerMints(h) == IF h < SingularityHeight THEN 0 ELSE DefaultInflationCalculationFn

\* distribution (external): the UBI part of the collected fees.
UbiPart(fees) == fees * percentage

\* A log whose percentage the distribution module refuses changes nothing
\* (the cached context is dropped) and the ones after it are processed.
ProcessUBIPercentageSet(p, now) == IF p <= Parts THEN p ELSE now
ProcessUBIEvents ==
  LET after[i \in 0 .. Len(logs)] ==
        IF i = 0 THEN percentage ELSE ProcessUBIPercentageSet(logs[i], after[i - 1])
  IN  after[Len(logs)]

\* The whole tokens of the UBI part, if they are worth a withdrawal.
ProcessUbiWithdrawalAll(u) ==   \* mutant: the fraction is taken out with the tokens
  LET tokens == u \div Parts
  IN IF tokens < MinPartialWithdrawalAmount THEN [ubi |-> u, add |-> <<>>]
     ELSE [ubi |-> 0, add |-> <<tokens>>]
ProcessUbiWithdrawal(u) ==
  LET tokens == u \div Parts
  IN IF tokens < MinPartialWithdrawalAmount THEN [ubi |-> u, add |-> <<>>]
     ELSE [ubi |-> u - tokens * Parts, add |-> <<tokens>>]

\* Block height + 1.  The mint and distribution modules begin it, its payload
\* carries the withdrawal that heads the queue and delivers the logs of the
\* EL block before, and evmstaking ends it.
Block ==
  LET fees == BeginBlockerMints(height + 1)
      out  == ProcessUbiWithdrawal(ubi + UbiPart(fees))
      pays == IF queued = <<>> THEN 0 ELSE Head(queued)
  IN /\ calls = <<>> /\ height < MaxHeight
     /\ height' = height + 1
     /\ minted' = minted + fees
     /\ rest' = rest + fees * Parts - UbiPart(fees)
     /\ ubi' = out.ubi
     /\ queued' = (IF queued = <<>> THEN <<>> ELSE Tail(queued)) \o out.add
     /\ percentage' = ProcessUBIEvents
     /\ logs' = emitted /\ emitted' = <<>>
     /\ ReceiveUBI(pays)

SetPercentage(p) == setUBIPercentage(p) /\ UNCHANGED consensus

EmissionNext == \/ Block
                \/ \E p \in Percentages : SetPercentage(p)
                \/ PoolNext /\ UNCHANGED consensus

EmissionSpec == EmissionInit /\ [][EmissionNext]_<<poolVars, consensus>>
-----------------------------------------------------------------------------
\* Blocks since the singularity ended.
MintingBlocks == IF height < SingularityHeight THEN 0 ELSE height + 1 - SingularityHeight

\* Every minted token is with the stakers, in the UBI part, in the withdrawal
\* queue, in the contract or paid to a claimer, with fractions and all:
\* BeginBlocker, ProcessUbiWithdrawal and the contract neither lose nor make
\* any; and the chain never mints more than its yearly inflation allows.
EmissionAccounted ==
  /\ minted * Parts = rest + ubi + Parts * (Sum(queued) + balance + Total(paid))
  /\ minted * BlocksPerYear <= InflationsPerYear * MintingBlocks
=============================================================================
