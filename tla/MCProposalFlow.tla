--------------------------- MODULE MCProposalFlow --------------------------
(***************************************************************************)
(* Per type the zero message, every message with one field set and the one *)
(* with all of them set; numbers of one and two bytes, and a byte string   *)
(* whose length takes two.  Words have 16 bits, hashes two bytes.          *)
(***************************************************************************)
EXTENDS ProposalFlow

CONSTANTS a, b, c

MCNumbers == {1, 127, 128, 300, 65535}
MCLong == [i \in 1 .. 130 |-> 7]

\* Values of a field that are not zero.
RECURSIVE MCValues(_)
MCAll(table) ==
  [i \in 1 .. Len(table) |-> CHOOSE v \in MCValues(table[i]) : v # Zero(<<table[i]>>)[1]]

MCValues(f) ==
  CASE f.kind = "varint"   -> MCNumbers
    [] f.kind = "bytes"    -> {<<0>>, <<255, 1>>, MCLong}
    [] f.kind = "dec"      -> {<<48>>, <<50, 53>>}
    [] f.kind = "fixed"    -> {[i \in 1 .. f.length |-> 9]}
    [] f.kind = "message"  -> {MCAll(f.table)}
    [] f.kind = "pointer"  -> {<<Zero(f.table)>>, <<MCAll(f.table)>>}
    [] f.kind = "repeated" ->
         LET es == MCValues(f.of) \cup
                   IF f.of.kind = "message" THEN {Zero(f.of.table)} ELSE {<<>>}
         IN  {<<e>> : e \in es} \cup {<<d, e>> : d, e \in es}

MCZero(table) ==
  [i \in 1 .. Len(table) |-> IF table[i].kind = "dec" THEN <<48>> ELSE Zero(<<table[i]>>)[1]]

MCSamples(t) ==
  LET table == Tables[t]
  IN  {MCZero(table), MCAll(table)} \cup
      UNION {{[MCZero(table) EXCEPT ![i] = v] : v \in MCValues(table[i])} : i \in 1 .. Len(table)}

MCPayload ==
  [ParentHash |-> <<1, 2>>, FeeRecipient |-> <<3>>, StateRoot |-> <<4, 0>>,
   ReceiptsRoot |-> <<0, 5>>, LogsBloom |-> <<>>, Random |-> <<1, 2>>, Number |-> 128,
   GasLimit |-> 300, GasUsed |-> 0, Timestamp |-> 127, ExtraData |-> <<6>>,
   BaseFeePerGas |-> 7, BlockHash |-> <<8, 8>>, Transactions |-> <<>>, Withdrawals |-> <<>>,
   BlobGasUsed |-> <<0>>, ExcessBlobGas |-> <<300>>, ExecutionWitness |-> FALSE]

MCWithdrawal == [Index |-> 0, Validator |-> 2, Address |-> <<9>>, Amount |-> 128]

MCPayloads ==
  LET fee == {[MCPayload EXCEPT !.BaseFeePerGas = v] : v \in {0, 255, 256}}
      lists == {[MCPayload EXCEPT !.Transactions = t, !.Withdrawals = w] :
                  t \in {<<>>, << <<>> >>, << << <<1>>, <<>> >> >>, << <<MCLong>> >>},
                  w \in {<<>>, << <<>> >>, << <<MCWithdrawal, MCWithdrawal>> >>}}
      odd == {[MCPayload EXCEPT !.BlobGasUsed = <<>>], [MCPayload EXCEPT !.ExcessBlobGas = <<>>],
              [MCPayload EXCEPT !.ExecutionWitness = TRUE]}
  IN  fee \cup lists \cup odd

MCEvent == << <<1>>, << <<2, 2>>, <<3, 3>> >>, <<>>, <<4, 4>> >>

MCEventLists ==
  {<<>>, <<MCEvent>>, <<MCEvent, [MCEvent EXCEPT ![3] = MCLong]>>, <<[MCEvent EXCEPT ![2] = <<>>]>>}

MCNewFields ==
  {Tag(30, 0) \o <<200, 1>>, Tag(30, 1) \o Zeros(8), Tag(30, 2) \o <<2, 10, 10>>,
   Tag(30, 5) \o Zeros(4), Tag(30, 3) \o Tag(1, 0) \o <<5>> \o Tag(30, 4)}

MCAuthority == <<97>>

MCPower == [v \in {a, b, c} |-> IF v = a THEN 1 ELSE IF v = b THEN 2 ELSE 3]
=============================================================================
