---------------------------- MODULE MCEvmStaking ---------------------------
(***************************************************************************)
(* Account 1 is a genesis validator, 2 may become one, 3 only delegates.   *)
(* A validator keeps part of the rewards as its commission, or all.        *)
(***************************************************************************)
EXTENDS EvmStaking

MCAddresses == {1, 2, 3}
MCValidators == {1, 2}
MCGenesisValidators == {1}
MCAmounts == {1}
MCNamed == {3}
MCRates == {5, 100}
=============================================================================
