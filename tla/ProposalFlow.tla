---------------------------- MODULE ProposalFlow ---------------------------
(***************************************************************************)
(* A message on its way from the node that marshals it to the one that     *)
(* unmarshals it: a proposal that carries the payload of the proposer's    *)
(* execution client, a value written to the store, a query and its answer. *)
(* During a rolling upgrade the sender may run a newer release, whose      *)
(* messages have fields that the receiver does not know.                   *)
(*                                                                         *)
(* As in Codec, a sequence of at most one element is a pointer, here also  *)
(* a slice that may be nil.                                                *)
(***************************************************************************)
EXTENDS Messages, CommitQuorum, FiniteSetsExt

CONSTANTS Samples(_),    \* messages of a type
          Payloads,      \* what GetPayloadV3 returns (external)
          EventLists,    \* logs of the parent block
          NewFields,     \* encoded fields with numbers of a newer release
          Power,         \* the voting power of each validator
          Authority,     \* the address of the module, as bytes
          MaxTxBytes

Proposal == "MsgExecutionPayload"

VARIABLES stage,    \* "build", "sent", "panic", "done"
          height, type, payload, events,
          sent,     \* the message
          txs,      \* how many transactions the proposal has
          wire,     \* its bytes
          newer,    \* the sender runs a newer release
          result

vars == <<stage, height, type, payload, events, sent, txs, wire, newer, result>>

Init ==
  /\ stage = "build" /\ wire = <<>> /\ newer = FALSE /\ txs = 0 /\ result = Error
  /\ \/ /\ type \in Types \ {Proposal} /\ sent \in Samples(type)
        /\ payload = Error /\ events = <<>> /\ height = 1
     \/ /\ type = Proposal /\ sent = Zero(MsgExecutionPayload)
        /\ payload \in Payloads /\ events \in EventLists /\ height \in {1, 2}
-----------------------------------------------------------------------------
\* big.Int.FillBytes and SetBytes
BigEndian[v \in Nat, n \in Nat] ==
  IF n = 0 THEN <<>> ELSE Append(BigEndian[v \div 256, n - 1], v % 256)

FromBigEndian(b) == FoldLeft(LAMBDA v, d : v * 256 + d, 0, b)

WithdrawalToProto(w) == <<w.Index, w.Validator, w.Address, w.Amount>>

WithdrawalFromProto(m) == [Index |-> m[1], Validator |-> m[2], Address |-> m[3], Amount |-> m[4]]

Elements(slice) == IF slice = <<>> THEN <<>> ELSE slice[1]

PayloadToProtoFails(p) == p.BlobGasUsed = <<>> \/ p.ExcessBlobGas = <<>> \/ p.ExecutionWitness

PayloadToProto(p) ==
  <<p.ParentHash, p.FeeRecipient, p.StateRoot, p.ReceiptsRoot, p.LogsBloom, p.Random,
    p.Number, p.GasLimit, p.GasUsed, p.Timestamp,
    p.ExtraData, BigEndian[p.BaseFeePerGas, HashLength], p.BlockHash,
    Elements(p.Transactions),
    [i \in 1 .. Len(Elements(p.Withdrawals)) |-> WithdrawalToProto(p.Withdrawals[1][i])],
    p.BlobGasUsed[1], p.ExcessBlobGas[1]>>

PayloadFromProtoFails(m) == Len(m[12]) # HashLength

PayloadFromProtoShifted(m) ==   \* mutant: state and receipts root are mixed up
  [ParentHash |-> m[1], FeeRecipient |-> m[2], StateRoot |-> m[4], ReceiptsRoot |-> m[3],
   LogsBloom |-> m[5], Random |-> m[6], Number |-> m[7], GasLimit |-> m[8],
   GasUsed |-> m[9], Timestamp |-> m[10], ExtraData |-> m[11],
   BaseFeePerGas |-> FromBigEndian(m[12]), BlockHash |-> m[13], Transactions |-> <<m[14]>>,
   Withdrawals |-> <<[i \in 1 .. Len(m[15]) |-> WithdrawalFromProto(m[15][i])]>>,
   BlobGasUsed |-> <<m[16]>>, ExcessBlobGas |-> <<m[17]>>, ExecutionWitness |-> FALSE]

PayloadFromProto(m) ==
  [ParentHash |-> m[1], FeeRecipient |-> m[2], StateRoot |-> m[3], ReceiptsRoot |-> m[4],
   LogsBloom |-> m[5], Random |-> m[6], Number |-> m[7], GasLimit |-> m[8],
   GasUsed |-> m[9], Timestamp |-> m[10], ExtraData |-> m[11],
   BaseFeePerGas |-> FromBigEndian(m[12]), BlockHash |-> m[13], Transactions |-> <<m[14]>>,
   Withdrawals |-> <<[i \in 1 .. Len(m[15]) |-> WithdrawalFromProto(m[15][i])]>>,
   BlobGasUsed |-> <<m[16]>>, ExcessBlobGas |-> <<m[17]>>, ExecutionWitness |-> FALSE]

\* EVMEvent.Verify
Verify(e) ==
  /\ Len(e[1]) = AddressLength /\ e[2] # <<>> /\ Len(e[4]) = HashLength
  /\ \A i \in 1 .. Len(e[2]) : Len(e[2][i]) = HashLength
-----------------------------------------------------------------------------
\* The tail of PrepareProposal, from Terence on.  Where it returns an error
\* the application proposes an empty block; so it does at height 1.
ProposedMessage == <<Authority, <<>>, events, <<PayloadToProto(payload)>>>>

PrepareProposal ==
  /\ stage = "build" /\ type = Proposal
  /\ LET fails   == \/ height = 1 \/ PayloadToProtoFails(payload)
                    \/ \E i \in 1 .. Len(events) : ~Verify(events[i])
         m       == ProposedMessage
         encoded == Marshal(type, m)
     IN  IF fails
         THEN stage' = "sent" /\ UNCHANGED <<sent, wire, txs>>
         ELSE IF ~encoded.ok
         THEN stage' = "panic" /\ sent' = m /\ UNCHANGED <<wire, txs>>
         ELSE IF Len(encoded.bytes) > MaxTxBytes
         THEN stage' = "sent" /\ UNCHANGED <<sent, wire, txs>>
         ELSE stage' = "sent" /\ sent' = m /\ wire' = encoded.bytes /\ txs' = 1
  /\ UNCHANGED <<height, type, payload, events, newer, result>>

\* cdc.Marshal of any other message.
Send ==
  /\ stage = "build" /\ type # Proposal
  /\ LET encoded == Marshal(type, sent)
     IN  IF encoded.ok THEN stage' = "sent" /\ wire' = encoded.bytes
         ELSE stage' = "panic" /\ UNCHANGED wire
  /\ UNCHANGED <<height, type, payload, events, sent, txs, newer, result>>

\* The same message as a newer release writes it: one field more, anywhere
\* between the fields (external).
AddField(field, i) ==
  LET before == Len(FlattenSeq(SubSeq(Chunks(type, sent), 1, i)))
  IN  /\ stage = "sent" /\ ~newer /\ (type # Proposal \/ txs = 1)
      /\ before <= Len(wire)
      /\ newer' = TRUE
      /\ wire' = SubSeq(wire, 1, before) \o field \o SubSeq(wire, before + 1, Len(wire))
      /\ UNCHANGED <<stage, height, type, payload, events, sent, txs, result>>

\* cdc.Unmarshal
Receive ==
  /\ stage = "sent" /\ type # Proposal
  /\ result' = Unmarshal(Tables[type], wire)
  /\ stage' = "done"
  /\ UNCHANGED <<height, type, payload, events, sent, txs, wire, newer>>

\* makeProcessProposalHandler, down to the payload that parseAndVerifyProposedPayload
\* pushes to the execution client.  The transaction decoder of the SDK
\* (external) refuses a message with unknown fields.  signers: who voted for
\* the parent in the commit that the proposal carries.
ProcessProposal(signers) ==
  /\ stage = "sent" /\ type = Proposal
  /\ LET total   == MapThenSumSet(LAMBDA v : Power[v], DOMAIN Power)
         voted   == MapThenSumSet(LAMBDA v : Power[v], signers)
         decoded == Unmarshal(MsgExecutionPayload, wire)
         parsed  == /\ ~newer /\ decoded.ok
                    /\ decoded.message[1] = Authority
                    /\ decoded.message[2] = <<>>
                    /\ decoded.message[4] # <<>>
                    /\ ~PayloadFromProtoFails(decoded.message[4][1])
         accept  == IF height = 1 THEN txs = 0
                    ELSE txs = 1 /\ ~MissesQuorum(total, voted) /\ parsed
     IN  result' = IF accept /\ txs = 1
                   THEN [ok |-> TRUE, quorum |-> 3 * voted > 2 * total,
                         payload |-> PayloadFromProto(decoded.message[4][1]),
                         events |-> decoded.message[3]]
                   ELSE [ok |-> accept, quorum |-> 3 * voted > 2 * total]
  /\ stage' = "done"
  /\ UNCHANGED <<height, type, payload, events, sent, txs, wire, newer>>

Next ==
  \/ PrepareProposal
  \/ Send
  \/ \E field \in NewFields, i \in 0 .. Len(Chunks(type, sent)) : AddField(field, i)
  \/ Receive
  \/ \E signers \in SUBSET DOMAIN Power : ProcessProposal(signers)

Spec == Init /\ [][Next]_vars
-----------------------------------------------------------------------------
\* What is marshalled is read back as it was: Size is exact for every message
\* (a buffer that is too short panics, one that is too long returns zeros and
\* cuts off the end), and Unmarshal agrees with Marshal on numbers, wire types
\* and nesting.  A field of a newer release does no harm: what a store or a
\* query returns is read as if the field were not there, and a proposal with
\* it is refused, not executed in part.
DecodedIsSent ==
  /\ stage # "panic"
  /\ stage = "done" /\ type # Proposal => result = [ok |-> TRUE, message |-> sent]
  /\ stage = "done" /\ type = Proposal /\ newer => ~result.ok

\* The payload that validators give to their execution clients is the one the
\* proposer's client built, with its events (a nil list comes out empty), so
\* its block hash still fits.
PayloadSurvives ==
  stage = "done" /\ type = Proposal /\ result.ok /\ txs = 1 =>
    /\ result.payload = [payload EXCEPT !.Transactions = <<Elements(@)>>,
                                        !.Withdrawals  = <<Elements(@)>>]
    /\ result.events = events

\* After the first block a proposal passes only with more than two thirds of
\* the power behind its parent, and for a proposer of the same release whose
\* payload converts that is all it takes.
PassesWithQuorum ==
  stage = "done" /\ type = Proposal /\ height > 1 =>
    /\ result.ok => result.quorum /\ txs = 1
    /\ result.quorum /\ txs = 1 /\ ~newer => result.ok
=============================================================================
