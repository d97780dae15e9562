------------------------ MODULE MCStakingRequests -------------------------
EXTENDS StakingRequests

A == "a"
B == "b"
OffCurve == "offcurve"

Flags(method, from) ==
  [method |-> method, from |-> from, complete |-> TRUE, storyAPI |-> FALSE,
   amount |-> 4, validator |-> from, dst |-> NoAccount, delegator |-> NoAccount,
   address |-> NoAccount, period |-> 0, id |-> 0, rate |-> 1, maxRate |-> 2,
   maxChange |-> 1, moniker |-> 1]

\* Every kind of request ...
AllRequests ==
  {[Flags("stake", A) EXCEPT !.amount = n, !.period = p] : n \in {1, 5}, p \in {0, 1}}
    \union {[Flags("createValidator", A) EXCEPT !.storyAPI = TRUE],
       [Flags("createValidator", A) EXCEPT !.moniker = 3],
       [Flags("createValidator", A) EXCEPT !.rate = 3],
       [Flags("stakeOnBehalf", B) EXCEPT !.delegator = A, !.period = 3, !.storyAPI = TRUE],
       [Flags("stakeOnBehalf", B) EXCEPT !.complete = FALSE],
       [Flags("unstake", A) EXCEPT !.amount = 3, !.id = 1],
       [Flags("unstake", A) EXCEPT !.validator = OffCurve],
       [Flags("unstakeOnBehalf", B) EXCEPT !.delegator = A, !.storyAPI = TRUE],
       [Flags("redelegate", A) EXCEPT !.dst = B, !.amount = 5],
       [Flags("redelegateOnBehalf", B) EXCEPT !.dst = A, !.delegator = A, !.id = 1, !.storyAPI = TRUE],
       [Flags("setOperator", A) EXCEPT !.address = B],
       Flags("setOperator", A), Flags("unsetOperator", A),
       [Flags("setWithdrawalAddress", A) EXCEPT !.address = B],
       [Flags("setRewardsAddress", A) EXCEPT !.address = B],
       [Flags("unjail", A) EXCEPT !.storyAPI = TRUE],
       [Flags("unjailOnBehalf", B) EXCEPT !.validator = A],
       [Flags("updateValidatorCommission", A) EXCEPT !.storyAPI = TRUE]}

\* ... next to one of the same account or of another that moves what it depends on.
Others == {[Flags("stake", A) EXCEPT !.amount = 3, !.period = 1],
           [Flags("stakeOnBehalf", B) EXCEPT !.delegator = A, !.period = 2]}

MCRequests == <<AllRequests, Others>>

Known == [exists |-> TRUE, rate |-> 1, maxRate |-> 2, maxChange |-> 1, updatedHoursAgo |-> 24,
          self |-> 1, minSelf |-> 1]

MCApiAnswers == {Known, [Known EXCEPT !.exists = FALSE], [Known EXCEPT !.updatedHoursAgo = 23],
                 [Known EXCEPT !.self = 0]}

MCInitial == [stakeMin |-> 3, unstakeMin |-> 2, rate |-> 1, fee |-> 1]
===========================================================================
