---------------------------- MODULE CommitQuorum ---------------------------
(***************************************************************************)
(* The test of makeProcessProposalHandler that a proposal carries a quorum *)
(* of the last block's votes, in the integer arithmetic of the code.       *)
(***************************************************************************)
EXTENDS Integers

MissesQuorumRoundingUp(total, voted) == (total * 2 + 2) \div 3 > voted   \* mutant: two thirds are enough

MissesQuorum(total, voted) == (total * 2) \div 3 >= voted
=============================================================================
