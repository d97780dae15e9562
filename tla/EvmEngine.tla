----------------------------- MODULE EvmEngine -----------------------------
(***************************************************************************)
(* x/evmengine on a network of validators: the ABCI++ handlers that drive  *)
(* each node's execution layer (EL) through the Engine API, with consensus *)
(* rounds, crashes of the node between any two external calls, restarts    *)
(* of the EL that lose blocks and payload builds, and proposers that send  *)
(* anything.                                                               *)
(*                                                                         *)
(* CometBFT and the EL are external.  CometBFT decides at most one block   *)
(* per height, one that a quorum of validators accepted in ProcessProposal *)
(* and replays decided blocks into a restarted node.  The EL answers VALID *)
(* for a block whose parent it has, SYNCING for one whose parent it lacks  *)
(* and INVALID for one that does not extend its parent.                    *)
(*                                                                         *)
(* A hash is modelled by the block it identifies, an app hash by the       *)
(* height of the state it commits to.  The staking module is reduced to    *)
(* the batch of withdrawals it enqueues at the end of a block.             *)
(***************************************************************************)
EXTENDS WithdrawalQueue

CONSTANTS
  None,                    \* no proposal, no message, no payload
  Nodes,                   \* the validators
  Quorums,                 \* the sets of validators with more than 2/3 of the power
  Withdrawals,             \* what a queued withdrawal pays
  LogKinds,                \* what the transactions of an execution block may do
  Batches,                 \* what EndBlock may enqueue: [stake, reward], sequences
  MaxWithdrawalPerBlock,   \* parameter of x/evmstaking
  TerenceHeight,           \* first height of the Terence upgrade
  MaxHeight,               \* bound: consensus heights
  MaxTime,                 \* bound: block times, in seconds
  MaxCrashes,              \* bound: node crashes
  MaxElRestarts            \* bound: restarts of an EL

ASSUME QuorumAssumption == Quorums \subseteq (SUBSET Nodes) /\ {} \notin Quorums

ASSUME EngineConstants ==
  /\ MaxWithdrawalPerBlock \in Nat \ {0}
  /\ TerenceHeight \in Nat
  /\ MaxTime \in Nat
  /\ MaxHeight \in Nat
  /\ \A b \in Batches : b.stake \in Seq(Withdrawals) /\ b.reward \in Seq(Withdrawals)

\* The EL's genesis block.  The keeper's head has time 0 for it
\* (InsertGenesisHead skips the timestamp).
GenesisBlock == [number |-> 0, parent |-> None, time |-> 0, root |-> 0,
                 wds |-> << >>, logs |-> << >>]

VARIABLES
  chain,      \* decided blocks: [msg, time, due] at heights 1, 2, ...
  ledger,     \* history: ledger[h + 1] is the state a fault-free node has after h
  proposals,  \* the proposal each node made for the next height, or None
  accepted,   \* the proposals for the next height each node voted for
  app,        \* committed application state of each node
  work,       \* the block a node is finalising: [pc, ok, app]
  opt,        \* mutablePayload: [height, payload], in memory
  syncing,    \* isExecEngSyncing, in memory
  el,         \* the EL: [known, head, target, builds]; builds holds the last
              \* payload built for the keeper, lost when the EL restarts
  crashes,    \* number of node crashes so far
  elRestarts  \* number of EL restarts so far

vars == <<chain, ledger, proposals, accepted, app, work, opt, syncing, el, crashes, elRestarts>>

Height == Len(chain) + 1            \* the height consensus is working on

LastTime == IF chain = << >> THEN 0 ELSE chain[Len(chain)].time

\* The execution blocks of the decided chain.
Decided ==
  {GenesisBlock} \cup {chain[h].msg.payload : h \in {i \in 1 .. Len(chain) : chain[i].msg # None}}

IsTerence(h) == h >= TerenceHeight

Idle == [pc |-> "idle", ok |-> TRUE, app |-> None]

GenesisApp ==
  [height |-> 0,
   head   |-> [number |-> 0, hash |-> GenesisBlock, time |-> 0],
   wq |-> Initialize, rq |-> Initialize,
   delivered |-> << >>,                               \* history: events processed by each block
   dueStake |-> << >>, dueReward |-> << >>,           \* history: withdrawals enqueued
   paidStake |-> << >>, paidReward |-> << >>]         \* history: withdrawals executed

Init ==
  /\ chain = << >>
  /\ ledger = <<GenesisApp>>
  /\ proposals = [n \in Nodes |-> None]
  /\ accepted = [n \in Nodes |-> {}]
  /\ app = [n \in Nodes |-> GenesisApp]
  /\ work = [n \in Nodes |-> Idle]
  /\ opt = [n \in Nodes |-> [height |-> 0, payload |-> None]]
  /\ syncing = [n \in Nodes |-> FALSE]
  /\ el = [n \in Nodes |-> [known |-> {GenesisBlock}, head |-> GenesisBlock,
                            target |-> GenesisBlock, builds |-> {}]]
  /\ crashes = 0
  /\ elRestarts = 0
-----------------------------------------------------------------------------
(* The execution layer, as the keeper meets it through the Engine API.     *)

ValidChild(b, root) ==
  /\ b.root = root
  /\ b.number = b.parent.number + 1
  /\ b.time > b.parent.time

NewPayload(e, b, root) ==
  IF b.parent \notin e.known THEN "SYNCING"
  ELSE IF ValidChild(b, root) THEN "VALID"
  ELSE "INVALID"

\* A head the EL has becomes its head, except that a canonical block below
\* the head is ignored; a head it lacks becomes the target of a sync.  Head
\* and finalized are the same block, so its siblings are dropped.
ForkchoiceUpdated(e, b) == IF b \in e.known THEN "VALID" ELSE "SYNCING"

WithHead(e, b) ==
  IF b \notin e.known THEN [e EXCEPT !.target = b]
  ELSE IF b.number < e.head.number THEN e
  ELSE [e EXCEPT !.head = b, !.target = b,
                 !.known = {x \in @ : x.number # b.number} \cup {b}]

\* With payload attributes, a payload id is returned unless the head is old.
CanBuild(e, b) == b \in e.known /\ b.number >= e.head.number
-----------------------------------------------------------------------------
(* Checks and state changes of the keeper.                                 *)

isInvalidOrSyncing(status) == status # "VALID"   \* mutant: SYNCING is an error

isInvalid(status) == status = "INVALID"

pushPayloadAndHead(e, b) == WithHead([e EXCEPT !.known = @ \cup {b}], b)   \* mutant

\* A valid payload is imported; the head does not move.
pushPayload(e, b) == [e EXCEPT !.known = @ \cup {b}]

\* parseAndVerifyProposedPayload.  ok stands for the fields that are compared
\* with fixed or parent values: authority, Random, Withdrawals, BlobGasUsed
\* and ExcessBlobGas present, no witness, no unknown JSON field.
parseAndVerify(a, h, blockTime, msg) ==
  LET p   == msg.payload
      min == a.head.time + 1
      max == IF blockTime < min THEN min ELSE blockTime
  IN  /\ msg.ok
      /\ msg.fmt = (IF IsTerence(h) THEN "proto" ELSE "json")
      /\ p.number = a.head.number + 1
      /\ p.parent = a.head.hash
      /\ min <= p.time /\ p.time <= max

ExpectedWithdrawals(a) == PayloadWithdrawals(a.wq, a.rq, MaxWithdrawalPerBlock)

\* Only the number of withdrawals is compared with what is dequeued.
DequeueMatches(a, p) == Len(ExpectedWithdrawals(a)) = Len(p.wds)

startBuildAtTime(a, timestamp, logs) ==   \* mutant: head time not respected
  [number |-> a.head.number + 1, parent |-> a.head.hash, time |-> timestamp,
   root |-> a.height, wds |-> ExpectedWithdrawals(a), logs |-> logs]

\* startBuild's payload attributes, with what the EL fills in (logs).
startBuild(a, timestamp, logs) ==
  [number |-> a.head.number + 1,
   parent |-> a.head.hash,
   time   |-> IF timestamp <= a.head.time THEN a.head.time + 1 ELSE timestamp,
   root   |-> a.height,
   wds    |-> ExpectedWithdrawals(a),
   logs   |-> logs]

\* The logs of the predeploys the keeper listens to that a block emits.
Logs(number) == {<<number, kind>> : kind \in LogKinds}

\* The finalising ExecutionPayload, once the EL has taken the payload: both
\* queues dequeued, events of the previous block processed, head updated.
Execute(a, msg) ==
  LET p  == msg.payload
      ns == Eligible(a.wq, MaxWithdrawalPerBlock)
      b  == RewardBudget(a.wq, MaxWithdrawalPerBlock)
  IN  [a EXCEPT !.head = [number |-> p.number, hash |-> p, time |-> p.time],
                !.wq = AfterDequeue(a.wq, MaxWithdrawalPerBlock),
                !.rq = AfterDequeue(a.rq, b),
                !.delivered = Append(@, msg.events),
                !.paidStake = @ \o SubSeq(p.wds, 1, ns),
                !.paidReward = @ \o SubSeq(p.wds, ns + 1, Len(p.wds))]

EndBlock(a, due) ==
  [a EXCEPT !.height = @ + 1,
            !.wq = EnqueueAll(a.wq, due.stake),
            !.rq = EnqueueAll(a.rq, due.reward),
            !.dueStake = @ \o due.stake,
            !.dueReward = @ \o due.reward]

\* The state after a block.  A failed transaction is rolled back (ok is
\* FALSE); the block of height 1 has none.
Finalized(a, block, ok) ==
  EndBlock(IF ok /\ block.msg # None THEN Execute(a, block.msg) ELSE a, block.due)
-----------------------------------------------------------------------------
(* Consensus on the next height.                                           *)

AtTip(n) == app[n].height = Len(chain) /\ work[n].pc = "idle"

Message(h, p) == [payload |-> p, events |-> p.parent.logs, ok |-> TRUE,
                  fmt |-> IF IsTerence(h) THEN "proto" ELSE "json"]

Propose(n, msg, t) == proposals' = [proposals EXCEPT ![n] = [msg |-> msg, time |-> t]]

\* A call that fails (EL syncing, unknown payload, timeout) proposes an empty
\* block, which every validator rejects above height 1: it is not recorded.
PrepareProposal(n) ==
  /\ Height <= MaxHeight
  /\ AtTip(n)
  /\ ~syncing[n]
  /\ proposals[n] = None
  /\ \E t \in LastTime .. MaxTime :
       \/ /\ Height = 1
          /\ Propose(n, None, t)
          /\ UNCHANGED el
       \/ /\ Height > 1 /\ opt[n].height = Height
          /\ opt[n].payload \in el[n].builds
          /\ Propose(n, Message(Height, opt[n].payload), t)
          /\ UNCHANGED el
       \/ /\ Height > 1 /\ opt[n].height # Height
          /\ CanBuild(el[n], app[n].head.hash)
          /\ \E logs \in Logs(app[n].head.number + 1) :
               LET p == startBuild(app[n], t, logs)
               IN  /\ Propose(n, Message(Height, p), t)
                   /\ el' = [el EXCEPT ![n] = WithHead(@, app[n].head.hash)]
  /\ UNCHANGED <<chain, ledger, accepted, app, work, opt, syncing, crashes, elRestarts>>

\* The same call while the EL lacks the head: the forkchoice update starts
\* a sync and the proposal is abandoned.
PrepareProposalAborts(n) == FALSE /\ UNCHANGED vars   \* mutant: no forkchoice update

PrepareProposalSyncing(n) ==
  /\ Height \in 2 .. MaxHeight
  /\ AtTip(n)
  /\ ~syncing[n]
  /\ opt[n].height # Height
  /\ app[n].head.hash \notin el[n].known
  /\ el' = [el EXCEPT ![n] = WithHead(@, app[n].head.hash)]
  /\ UNCHANGED <<chain, ledger, proposals, accepted, app, work, opt, syncing, crashes, elRestarts>>

\* What a proposer that does not run this code may send: the message node n
\* would expect, with one part of it wrong.
Malformed(n) ==
  LET a == app[n]
      p == startBuild(a, LastTime, CHOOSE logs \in Logs(a.head.number + 1) : TRUE)
      m == Message(Height, p)
      Wrong(q) == [m EXCEPT !.payload = q]
      w == p.wds
      extra == [index |-> a.wq.rear, w |-> None]
  IN  {[msg |-> x, time |-> LastTime] : x \in
        { [m EXCEPT !.ok = FALSE],
          [m EXCEPT !.fmt = IF IsTerence(Height) THEN "json" ELSE "proto"],
          [m EXCEPT !.events = << >>],
          [m EXCEPT !.events = Append(@, a.head.number)],
          Wrong([p EXCEPT !.number = @ + 1]),
          Wrong([p EXCEPT !.root = @ + 1]),
          Wrong([p EXCEPT !.time = a.head.time]),
          Wrong([p EXCEPT !.time = @ + 1]),
          Wrong([p EXCEPT !.wds = Append(@, extra)]),
          Wrong([p EXCEPT !.wds = Tail(Append(@, extra))]),
          Wrong([p EXCEPT !.wds = IF @ = << >> THEN @ ELSE [@ EXCEPT ![1].index = @ + 1]]),
          Wrong([p EXCEPT !.wds = IF Len(@) < 2 THEN @ ELSE [i \in 1 .. Len(w) |-> w[Len(w) + 1 - i]]]) }
        \cup (IF a.head.number = 0 THEN {}
              ELSE {Wrong([p EXCEPT !.parent = a.head.hash.parent])})}

\* compareWithdrawals: the local peek, equal in count, index, type, address
\* and amount, stake withdrawals before rewards.
compareNothing(a, actual) == TRUE                                      \* mutant

compareCounts(a, actual) == Len(actual) = Len(ExpectedWithdrawals(a))  \* mutant

compareWithdrawals(a, actual) ==
  LET expected == PeekEligible(a.wq, MaxWithdrawalPerBlock)
      rewards  == PeekEligible(a.rq, MaxWithdrawalPerBlock - Len(expected))
  IN  /\ Len(expected) <= Len(actual)
      /\ Len(expected) + Len(rewards) = Len(actual)
      /\ \A i \in 1 .. Len(expected) : actual[i] = expected[i]
      /\ \A i \in 1 .. Len(rewards) : actual[Len(expected) + i] = rewards[i]

\* The router's and the proposal server's checks before the EL is asked.
ProposalPassesWhileSyncing(n, p) ==   \* mutant: the flag is not read
  IF Height = 1 THEN p.msg = None
  ELSE /\ p.msg # None
       /\ parseAndVerify(app[n], Height, p.time, p.msg)
       /\ compareWithdrawals(app[n], p.msg.payload.wds)

ProposalPasses(n, p) ==
  IF Height = 1 THEN p.msg = None
  ELSE /\ p.msg # None
       /\ ~syncing[n]
       /\ parseAndVerify(app[n], Height, p.time, p.msg)
       /\ compareWithdrawals(app[n], p.msg.payload.wds)

evmEventsAny(a, b) == TRUE   \* mutant

evmEventsEqual(a, b) == a = b

Vote(n, p) == accepted' = [accepted EXCEPT ![n] = @ \cup {p}]

\* A proposal is accepted, or rejected leaving no trace but a payload that
\* the EL has imported.
ProcessProposal(n) ==
  /\ Height <= MaxHeight
  /\ AtTip(n)
  /\ \E p \in {proposals[m] : m \in Nodes} \cup (IF Height = 1 THEN {} ELSE Malformed(n)) :
       /\ p # None
       /\ p \notin accepted[n]
       /\ ProposalPasses(n, p)
       /\ IF Height = 1 THEN Vote(n, p) /\ UNCHANGED el
          ELSE LET b == p.msg.payload
               IN  /\ NewPayload(el[n], b, app[n].height) = "VALID"
                   /\ el' = [el EXCEPT ![n] = pushPayload(@, b)]
                   /\ IF evmEventsEqual(b.parent.logs, p.msg.events)
                        THEN Vote(n, p)
                        ELSE UNCHANGED accepted
  /\ UNCHANGED <<chain, ledger, proposals, app, work, opt, syncing, crashes, elRestarts>>

\* CometBFT: a quorum accepted the same block, which is then final.  The
\* staking module's EndBlock will enqueue the same batch on every node.
Decide ==
  \E p \in UNION {accepted[n] : n \in Nodes}, Q \in Quorums, due \in Batches :
    /\ \A n \in Q : p \in accepted[n]
    /\ LET block == [msg |-> p.msg, time |-> p.time, due |-> due]
       IN  /\ chain' = Append(chain, block)
           /\ ledger' = Append(ledger, Finalized(ledger[Len(ledger)], block, TRUE))
    /\ proposals' = [n \in Nodes |-> None]
    /\ accepted' = [n \in Nodes |-> {}]
    /\ UNCHANGED <<app, work, opt, syncing, el, crashes, elRestarts>>
-----------------------------------------------------------------------------
(* FinalizeBlock, Commit and PostFinalize, one step per external call.     *)

NextBlock(n) == chain[app[n].height + 1]

\* FinalizeBlock is due: the node has not committed every decided block.
Behind(n) == app[n].height < Len(chain)

Working(n, pc, ok) == work' = [work EXCEPT ![n] = [pc |-> pc, ok |-> ok, app |-> None]]

\* ExecutionPayload up to NewPayloadV3, which is retried until it answers.
\* SYNCING raises the flag, VALID lowers it; INVALID fails the transaction,
\* as do the checks before the call.
FinalizePush(n) ==
  /\ Behind(n)
  /\ work[n].pc = "idle"
  /\ LET block == NextBlock(n)
         msg   == block.msg
         b     == msg.payload
         a     == app[n]
     IN  \/ /\ msg = None
            /\ Working(n, "executed", TRUE)
            /\ UNCHANGED <<syncing, el>>
         \/ /\ msg # None
            /\ LET passes == parseAndVerify(a, a.height + 1, block.time, msg) /\ DequeueMatches(a, b)
                   status == IF passes THEN NewPayload(el[n], b, a.height) ELSE "INVALID"
               IN  /\ IF isInvalid(status) THEN Working(n, "executed", FALSE)
                                           ELSE Working(n, "pushed", TRUE)
                   /\ syncing' = [syncing EXCEPT ![n] =
                                    IF isInvalid(status) THEN @ ELSE status = "SYNCING"]
                   /\ el' = [el EXCEPT ![n] = IF status = "VALID" THEN pushPayload(@, b) ELSE @]
  /\ UNCHANGED <<chain, ledger, proposals, accepted, app, opt, crashes, elRestarts>>

\* ForkchoiceUpdatedV3 to the finalised payload; SYNCING is not an error.
FinalizeForkchoice(n) ==
  /\ work[n].pc = "pushed"
  /\ el' = [el EXCEPT ![n] = WithHead(@, NextBlock(n).msg.payload)]
  /\ Working(n, "executed", TRUE)
  /\ UNCHANGED <<chain, ledger, proposals, accepted, app, opt, syncing, crashes, elRestarts>>

NextHeight(a) == a.height + 1

\* The rest of FinalizeBlock, then PostFinalize on the state it leaves: the
\* node that takes itself for the next proposer starts a payload build.  Any
\* failure there leaves the optimistic payload as it was.
FinalizeEnd(n) ==
  /\ work[n].pc = "executed"
  /\ LET block == NextBlock(n)
         a     == Finalized(app[n], block, work[n].ok)
     IN  /\ work' = [work EXCEPT ![n] = [pc |-> "finalized", ok |-> @.ok, app |-> a]]
         /\ \/ UNCHANGED <<opt, el>>
            \/ /\ ~syncing[n]
               /\ ~CanBuild(el[n], a.head.hash)
               /\ el' = [el EXCEPT ![n] = WithHead(@, a.head.hash)]
               /\ UNCHANGED opt
            \/ /\ ~syncing[n]
               /\ CanBuild(el[n], a.head.hash)
               /\ \E logs \in Logs(a.head.number + 1) :
                    LET p == startBuild(a, block.time, logs)
                    IN  /\ opt' = [opt EXCEPT ![n] = [height |-> NextHeight(a), payload |-> p]]
                        /\ el' = [el EXCEPT ![n] = [WithHead(@, a.head.hash) EXCEPT !.builds = {p}]]
  /\ UNCHANGED <<chain, ledger, proposals, accepted, app, syncing, crashes, elRestarts>>

Commit(n) ==
  /\ work[n].pc = "finalized"
  /\ app' = [app EXCEPT ![n] = work[n].app]
  /\ work' = [work EXCEPT ![n] = Idle]
  /\ UNCHANGED <<chain, ledger, proposals, accepted, opt, syncing, el, crashes, elRestarts>>

\* The consensus client restarts: everything in memory is lost, the state is
\* the last committed one; CometBFT will replay the decided blocks.
Crash(n) ==
  /\ crashes < MaxCrashes
  /\ crashes' = crashes + 1
  /\ work' = [work EXCEPT ![n] = Idle]
  /\ opt' = [opt EXCEPT ![n] = [height |-> 0, payload |-> None]]
  /\ syncing' = [syncing EXCEPT ![n] = FALSE]
  /\ UNCHANGED <<chain, ledger, proposals, accepted, app, el, elRestarts>>

\* The EL restarts on an older block: it keeps what is below it and loses
\* the payload it was building.
ElRestart(n) ==
  /\ elRestarts < MaxElRestarts
  /\ elRestarts' = elRestarts + 1
  /\ \E number \in 0 .. el[n].head.number :
       LET kept == {b \in el[n].known : b.number <= number}
           old  == CHOOSE b \in kept : b.number = number /\ b \in Decided
       IN  el' = [el EXCEPT ![n] = [known |-> kept, head |-> old, target |-> old, builds |-> {}]]
  /\ UNCHANGED <<chain, ledger, proposals, accepted, app, work, opt, syncing, crashes>>

\* The EL fetches its target and what leads to it from another EL.
ElSync(n) ==
  /\ el[n].target \notin el[n].known
  /\ \E m \in Nodes : el[n].target \in el[m].known
  /\ LET t == el[n].target
         e == [el[n] EXCEPT !.known = @ \cup {t} \cup {b \in Decided : b.number < t.number},
                            !.head = t]
     IN  el' = [el EXCEPT ![n] = e]
  /\ UNCHANGED <<chain, ledger, proposals, accepted, app, work, opt, syncing, crashes, elRestarts>>

Next ==
  \/ Decide
  \/ \E n \in Nodes :
       \/ PrepareProposal(n) \/ PrepareProposalSyncing(n) \/ ProcessProposal(n)
       \/ FinalizePush(n) \/ FinalizeForkchoice(n) \/ FinalizeEnd(n) \/ Commit(n)
       \/ Crash(n) \/ ElRestart(n) \/ ElSync(n)

Spec == Init /\ [][Next]_vars
-----------------------------------------------------------------------------
(* Properties.                                                             *)

AppStates == {app[n] : n \in Nodes} \cup {work[n].app : n \in {m \in Nodes : work[m].pc = "finalized"}}

\* "FinalizeBlock contains unexpected failed transaction [BUG]" (app/abci.go)
\* and "This should never happen" (msg_server.go): whatever proposers send,
\* whichever nodes and ELs restart, a block that a quorum accepted passes
\* every check of the finalising ExecutionPayload on every node.
NoFailedTransaction == \A n \in Nodes : work[n].ok

\* Crashes, replays, EL restarts and the order in which nodes make their
\* Engine API calls leave no trace in the application state: every node that
\* committed height h has the state of a node that executed h blocks
\* without a fault.
LedgerAgreement == \A n \in Nodes : app[n] = ledger[app[n].height + 1]

\* Every withdrawal ever enqueued is executed by the EL exactly once, in
\* order and with its own index, or is still in the queue: what the decided
\* payloads list (not what FinalizeBlock dequeues, which only compares
\* lengths) followed by the queue is what EndBlock enqueued.
QueueHistory(q, due, paid) ==
  /\ q.front = Len(paid)
  /\ q.rear = Len(due)
  /\ \A k \in q.front .. (q.rear - 1) : q.elements[k] = due[k + 1]
  /\ \A i \in 1 .. Len(paid) : paid[i] = [index |-> i - 1, w |-> due[i]]

PaidExactlyOnce ==
  \A a \in AppStates :
    /\ QueueHistory(a.wq, a.dueStake, a.paidStake)
    /\ QueueHistory(a.rq, a.dueReward, a.paidReward)

\* Block h processes the logs of the execution block below the one it
\* carries, and nothing else: the logs of every block below the execution
\* head are processed once and in block order (evmengine/README.md: "execution
\* events from EL block n-1 are processed at CL block n").
LogsBelow(a) == [i \in 1 .. a.height - 1 |-> chain[i + 1].msg.payload.parent.logs]

EventsDeliveredOnce == \A n \in Nodes : app[n].delivered = LogsBelow(app[n])

\* ProcessProposal pushes payloads but never moves the EL's head: the EL
\* follows the decided chain, and is at most the one block ahead of the
\* committed state that a crash between the forkchoice update and Commit
\* leaves behind and the replay makes good.
ElFollowsDecided ==
  \A n \in Nodes :
    /\ el[n].head \in Decided
    /\ el[n].head.number <= app[n].head.number + 1
    /\ el[n].head.number > app[n].head.number => Behind(n)

\* What a node proposes, from a payload built optimistically during the
\* previous block or from a new one, passes every check of every node that
\* is at the same height, in whatever round it is voted on.
HonestProposalPasses ==
  \A m, n \in Nodes :
    (Height > 1 /\ proposals[m] # None /\ AtTip(n)) =>
      LET p == proposals[m]
          b == p.msg.payload
      IN  /\ parseAndVerify(app[n], Height, p.time, p.msg)
          /\ compareWithdrawals(app[n], b.wds)
          /\ NewPayload(el[n], b, app[n].height) # "INVALID"
          /\ p.msg.events = b.parent.logs

\* A node at the tip that votes for nothing whatever its EL does from here
\* on.  isExecEngSyncing is read by both proposal handlers but written by
\* FinalizeBlock only; and a node that holds an optimistic payload for this
\* height never sends the forkchoice update that would make an EL without
\* the head block sync.
Deaf(n) ==
  /\ AtTip(n) /\ Height > 1 /\ accepted[n] = {}
  /\ \/ syncing[n]
     \/ app[n].head.hash \notin el[n].known \cup {el[n].target} /\ opt[n].height = Height

Trapped == \A Q \in Quorums : \E n \in Q : Deaf(n)

\* Once every quorum has a deaf member, nothing is decided any more until a
\* consensus client restarts, however well the ELs have synced meanwhile.
TrapNeedsRestart == [][Trapped /\ crashes' = crashes => Trapped' /\ chain' = chain]_vars
-----------------------------------------------------------------------------
\* CometBFT keeps starting rounds and delivering proposals and votes, and
\* calls its application one handler at a time; calls to the EL are retried
\* until answered, and the ELs sync from each other.
Handlers(n) ==
  \/ PrepareProposal(n) \/ PrepareProposalSyncing(n) \/ ProcessProposal(n)
  \/ FinalizePush(n) \/ FinalizeForkchoice(n) \/ FinalizeEnd(n) \/ Commit(n)

Fairness ==
  /\ WF_vars(Decide)
  /\ \A n \in Nodes : WF_vars(Handlers(n)) /\ WF_vars(ElSync(n))

FairSpec == Spec /\ Fairness

\* Restarts of nodes and ELs permitting, every height is decided and every
\* node catches up, unless the network ends in the trap above: it is the
\* only way to stop.
AdvancesOrTrapped ==
  <>(\A n \in Nodes : app[n].height = MaxHeight) \/ <>[]Trapped
=============================================================================
