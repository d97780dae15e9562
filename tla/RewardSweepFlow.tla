-------------------------- MODULE RewardSweepFlow --------------------------
(***************************************************************************)
(* The reward sweep over many blocks, while validators are created,        *)
(* removed, jailed and unjailed and delegations come and go between two    *)
(* blocks.  The cursor is a pair of positions in lists that may have       *)
(* changed since it was saved.                                             *)
(***************************************************************************)
EXTENDS RewardSweep

CONSTANTS Validators,       \* operator addresses, numbers
          Delegators,       \* delegator addresses, numbers
          MaxSweepPerBlock  \* the parameter of x/evmstaking

ASSUME SweepAssumption ==
  /\ Validators \subseteq Nat /\ Delegators \subseteq Nat
  /\ IsFiniteSet(Validators) /\ Validators # {}
  /\ IsFiniteSet(Delegators) /\ Delegators # {}
  /\ MaxSweepPerBlock \in Nat \ {0}

VARIABLES vals,     \* the validators of the staking store
          jailed,   \* those that are jailed
          dels,     \* the delegators of each validator
          cursor,   \* ValidatorSweepIndex
          visited   \* what the last EndBlock visited, in order

vars == <<vals, jailed, dels, cursor, visited>>
\* What the sweep reads; only the sweep leaves all of it alone.
sets == <<vals, jailed, dels>>

Init ==
  /\ vals = {} /\ jailed = {}
  /\ dels = [v \in Validators |-> {}]
  /\ cursor = [val |-> 0, del |-> 0]
  /\ visited = << >>

\* Changes of the staking store between two sweeps (external).
CreateValidator(v) ==
  /\ v \notin vals
  /\ vals' = vals \cup {v}
  /\ dels' = [dels EXCEPT ![v] = {v} \cap Delegators]
  /\ UNCHANGED <<jailed, cursor, visited>>

RemoveValidator(v) ==
  /\ v \in vals /\ dels[v] = {}
  /\ vals' = vals \ {v} /\ jailed' = jailed \ {v}
  /\ UNCHANGED <<dels, cursor, visited>>

Jail(v) ==
  /\ v \in vals \ jailed
  /\ jailed' = jailed \cup {v}
  /\ UNCHANGED <<vals, dels, cursor, visited>>

Unjail(v) ==
  /\ v \in jailed
  /\ jailed' = jailed \ {v}
  /\ UNCHANGED <<vals, dels, cursor, visited>>

Delegate(d, v) ==
  /\ v \in vals /\ d \notin dels[v]
  /\ dels' = [dels EXCEPT ![v] = @ \cup {d}]
  /\ UNCHANGED <<vals, jailed, cursor, visited>>

Undelegate(d, v) ==
  /\ d \in dels[v]
  /\ dels' = [dels EXCEPT ![v] = @ \ {d}]
  /\ UNCHANGED <<vals, jailed, cursor, visited>>

ProcessRewardWithdrawals ==
  \E s \in {SweepLoop(InKeyOrder(vals), jailed,
                     [v \in Validators |-> InKeyOrder(dels[v])],
                     MaxSweepPerBlock, cursor)} :
      /\ cursor' = [val |-> s.val, del |-> s.del]
      /\ visited' = s.visited
      /\ UNCHANGED sets

Next ==
  \/ \E v \in Validators :
       CreateValidator(v) \/ RemoveValidator(v) \/ Jail(v) \/ Unjail(v)
  \/ \E v \in Validators, d \in Delegators : Delegate(d, v) \/ Undelegate(d, v)
  \/ ProcessRewardWithdrawals

Spec == Init /\ [][Next]_vars

\* Every block runs EndBlock, so the sweep is taken again and again.
FairSpec == Spec /\ WF_vars(ProcessRewardWithdrawals)
-----------------------------------------------------------------------------
\* One block never visits a delegation twice, never more delegations than
\* MaxSweepPerBlock, and none of a jailed validator, wherever the saved
\* cursor points in the present lists (withdraw.go, the loop's bound
\* arithmetic with a first validator taken from the middle).
OneSweepPerBlock ==
  [][UNCHANGED sets =>
       /\ Len(visited') <= MaxSweepPerBlock
       /\ \A i, j \in 1 .. Len(visited') : visited'[i] = visited'[j] => i = j
       /\ \A i \in 1 .. Len(visited') :
            /\ visited'[i].val \in vals \ jailed
            /\ visited'[i].del \in dels[visited'[i].val]]_vars

\* Blocks do not leave room unused: a block that visits fewer delegations
\* than the bound has visited every delegation of every unjailed validator,
\* but for those before the saved cursor in the validator it points at; a
\* cursor past the end of a shrunken validator set excuses none.
ShortSweepIsComplete ==
  [][UNCHANGED sets /\ Len(visited') < MaxSweepPerBlock =>
       \A v \in vals \ jailed : \A d \in dels[v] :
         \/ \E i \in 1 .. Len(visited') : visited'[i] = [val |-> v, del |-> d]
         \/ /\ cursor.val = Cardinality({w \in vals : w < v})
            /\ cursor.del > Cardinality({e \in dels[v] : e < d})]_vars

\* Once validators and delegations stop changing, every delegation of an
\* unjailed validator is visited again and again: no position of the cursor
\* makes the sweep skip one for ever.
EverySettledDelegationSwept ==
  <>[][UNCHANGED sets]_vars =>
    \A v \in Validators, d \in Delegators :
      []<>(\/ v \notin vals \ jailed \/ d \notin dels[v]
           \/ \E i \in 1 .. Len(visited) : visited[i] = [val |-> v, del |-> d])
=============================================================================
