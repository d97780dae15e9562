---------------------------- MODULE RewardSweep ----------------------------
(***************************************************************************)
(* The circular sweep of ProcessRewardWithdrawals (x/evmstaking): from a   *)
(* cursor (validator index, delegation index) kept in the store it visits  *)
(* at most `bound` delegations per block, validator by validator, and      *)
(* saves where the next block goes on.                                     *)
(*                                                                         *)
(* Addresses are numbers, so that the key order in which the staking store *)
(* lists validators and a validator's delegations is their order.          *)
(***************************************************************************)
EXTENDS Integers, Sequences, FiniteSets

\* GetAllValidators and GetValidatorDelegations list by key.
InKeyOrder(S) ==
  [i \in 1 .. Cardinality(S) |->
     CHOOSE x \in S : Cardinality({y \in S : y < x}) = i - 1]

\* The cursor a block starts from: one past the end of the set restarts.
StartCursorKeepingDel(vals, cursor) ==   \* mutant: only the validator index is reset
  IF cursor.val >= Len(vals) THEN [cursor EXCEPT !.val = 0] ELSE cursor

StartCursor(vals, cursor) ==
  IF cursor.val >= Len(vals) THEN [val |-> 0, del |-> 0] ELSE cursor

\* The loop carries s: the cursor, how many delegations the validators it is
\* done with had, the delegations visited and whether it was broken off.
\* Going on to the next validator, circularly:
AdvanceUncounted(n, s, visits) ==   \* mutant: swept is not increased
  [s EXCEPT !.val = (@ + 1) % n, !.del = 0, !.visited = @ \o visits]

Advance(n, s, visits) ==
  [s EXCEPT !.val = (@ + 1) % n, !.del = 0,
            !.swept = @ + Len(visits), !.visited = @ \o visits]

\* Stopping in the middle of a validator because the bound is reached.
StopWithoutCursor(s, visits) ==   \* mutant: nextValDelIndex++ is missing
  [s EXCEPT !.visited = @ \o visits, !.stop = TRUE]

StopPrematurely(s, visits) ==
  [s EXCEPT !.del = @ + Len(visits), !.visited = @ \o visits, !.stop = TRUE]

\* One iteration of the loop over the validator set.
SweepValidator(vals, jailed, dels, bound, s) ==
  LET v    == vals[s.val + 1]
      rest == SubSeq(dels[v], s.del + 1, Len(dels[v]))
      left == bound - s.swept
      Visits(n) == [i \in 1 .. n |-> [val |-> v, del |-> rest[i]]]
  IN  IF s.stop THEN s
      ELSE IF v \in jailed \/ s.del >= Len(dels[v])
           THEN Advance(Len(vals), s, << >>)
      ELSE IF Len(rest) > left
           THEN StopPrematurely(s, Visits(left))
           ELSE Advance(Len(vals), s, Visits(Len(rest)))

\* The whole loop: as many iterations as there are validators.  Its result
\* holds the delegations visited and the cursor to be saved.
SweepLoop(vals, jailed, dels, bound, cursor) ==
  LET start == StartCursor(vals, cursor)
      step[i \in 0 .. Len(vals)] ==
        IF i = 0
        THEN [val |-> start.val, del |-> start.del, swept |-> 0,
              visited |-> << >>, stop |-> FALSE]
        ELSE SweepValidator(vals, jailed, dels, bound, step[i - 1])
  IN  step[Len(vals)]
=============================================================================
