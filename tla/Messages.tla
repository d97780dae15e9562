------------------------------ MODULE Messages -----------------------------
(***************************************************************************)
(* The messages of x/evmengine, x/evmstaking and x/mint.  Each has the     *)
(* table its Unmarshal reads, the chunks its MarshalToSizedBuffer writes   *)
(* and its Size.                                                           *)
(***************************************************************************)
EXTENDS Codec

\* Messages of the SDK (external), of which only the framing matters here:
\* x/upgrade's Plan and the requests and responses of pagination.
Opaque == <<Bytes>>
OpaqueMarshal(m) == PutBytes(1, m[1])
OpaqueSize(m) == SizeBytes(1, m[1])

\* A message that has no fields.
Empty == <<>>
EmptyMarshal(m) == <<>>
EmptySize(m) == 0
-----------------------------------------------------------------------------
\* x/evmengine: a proposal

EVMEvent == <<Bytes, Repeated(Bytes), Bytes, Bytes>>   \* address, topics, data, tx_hash

EVMEventMarshal(m) ==
  PutBytes(1, m[1]) \o PutEach(2, m[2]) \o PutBytes(3, m[3]) \o PutBytes(4, m[4])

EVMEventSize(m) ==
  SizeBytes(1, m[1]) + SizeEach(1, Len, m[2]) + SizeBytes(1, m[3]) + SizeBytes(1, m[4])

WithdrawalEVM == <<Varint, Varint, Address, Varint>>   \* index, validator_index, address, amount

WithdrawalEVMMarshal(m) ==
  PutVarint(1, m[1]) \o PutVarint(2, m[2]) \o PutValue(3, m[3]) \o PutVarint(4, m[4])

WithdrawalEVMSize(m) ==
  SizeVarint(1, m[1]) + SizeVarint(1, m[2]) + SizeLength(1, AddressLength) + SizeVarint(1, m[4])

\* parent_hash, fee_recipient, state_root, receipts_root, logs_bloom, prev_randao
DenebHeader == <<Hash, Address, Hash, Hash, Bytes, Hash>>
\* block_number, gas_limit, gas_used, timestamp
DenebNumbers == <<Varint, Varint, Varint, Varint>>
\* extra_data, base_fee_per_gas, block_hash, transactions
DenebBody == <<Bytes, Bytes, Hash, Repeated(Bytes)>>
\* withdrawals, blob_gas_used, excess_blob_gas
DenebTail == <<Repeated(Message(WithdrawalEVM)), Varint, Varint>>

ExecutionPayloadDeneb == DenebHeader \o DenebNumbers \o DenebBody \o DenebTail

ExecutionPayloadDenebMarshal(m) ==
  PutValue(1, m[1]) \o PutValue(2, m[2]) \o PutValue(3, m[3]) \o PutValue(4, m[4])
    \o PutBytes(5, m[5]) \o PutValue(6, m[6])
    \o PutVarint(7, m[7]) \o PutVarint(8, m[8]) \o PutVarint(9, m[9]) \o PutVarint(10, m[10])
    \o PutBytes(11, m[11]) \o PutBytes(12, m[12]) \o PutValue(13, m[13])
    \o PutEach(14, m[14]) \o PutMessages(15, WithdrawalEVMMarshal, m[15])
    \o PutVarint(16, m[16]) \o PutVarint(17, m[17])

ExecutionPayloadDenebSize(m) ==
  SizeLength(1, HashLength) + SizeLength(1, AddressLength)
    + SizeLength(1, HashLength) + SizeLength(1, HashLength)
    + SizeBytes(1, m[5]) + SizeLength(1, HashLength)
    + SizeVarint(1, m[7]) + SizeVarint(1, m[8]) + SizeVarint(1, m[9]) + SizeVarint(1, m[10])
    + SizeBytes(1, m[11]) + SizeBytes(1, m[12]) + SizeLength(1, HashLength)
    + SizeEach(1, Len, m[14]) + SizeEach(1, WithdrawalEVMSize, m[15])
    + SizeVarint(2, m[16]) + SizeVarint(2, m[17])

MsgHead == <<Bytes, Bytes>>   \* authority, execution_payload (JSON)
\* prev_payload_events, execution_payload_deneb
MsgBody == <<Repeated(Message(EVMEvent)), Pointer(ExecutionPayloadDeneb)>>

MsgExecutionPayload == MsgHead \o MsgBody

MsgExecutionPayloadMarshal(m) ==
  PutBytes(1, m[1]) \o PutBytes(2, m[2]) \o PutMessages(3, EVMEventMarshal, m[3])
    \o PutMessages(4, ExecutionPayloadDenebMarshal, m[4])

MsgExecutionPayloadSize(m) ==
  SizeBytes(1, m[1]) + SizeBytes(1, m[2]) + SizeEach(1, EVMEventSize, m[3])
    + SizeEach(1, ExecutionPayloadDenebSize, m[4])

ExecutionPayloadResponse == Empty
-----------------------------------------------------------------------------
\* x/evmengine: parameters, genesis, queries

EngineParams == <<Bytes>>   \* execution_block_hash
EngineParamsMarshal(m) == PutBytes(1, m[1])
EngineParamsSize(m) == SizeBytes(1, m[1])

EngineGenesis == <<Message(EngineParams)>>
EngineGenesisMarshal(m) == PutMessage(1, EngineParamsMarshal(m[1]))
EngineGenesisSize(m) == SizeLength(1, EngineParamsSize(m[1]))

QueryGetPendingUpgradeRequest == Empty
QueryGetPendingUpgradeResponse == <<Message(Opaque)>>   \* plan
QueryGetPendingUpgradeResponseMarshal(m) == PutMessage(1, OpaqueMarshal(m[1]))
QueryGetPendingUpgradeResponseSize(m) == SizeLength(1, OpaqueSize(m[1]))
-----------------------------------------------------------------------------
\* x/evmstaking: what its store holds

\* creation_height, execution_address, amount, withdrawal_type, validator_address
Withdrawal == <<Varint, Bytes, Varint, Varint, Bytes>>

WithdrawalMarshal(m) ==
  PutVarint(1, m[1]) \o PutBytes(2, m[2]) \o PutVarint(3, m[3]) \o PutVarint(4, m[4])
    \o PutBytes(5, m[5])

WithdrawalSize(m) ==
  SizeVarint(1, m[1]) + SizeBytes(1, m[2]) + SizeVarint(1, m[3]) + SizeVarint(1, m[4])
    + SizeBytes(1, m[5])

ValidatorSweepIndex == <<Varint, Varint>>   \* next_val_index, next_val_del_index
ValidatorSweepIndexMarshal(m) == PutVarint(1, m[1]) \o PutVarint(2, m[2])
ValidatorSweepIndexSize(m) == SizeVarint(1, m[1]) + SizeVarint(1, m[2])

\* max_withdrawal_per_block, max_sweep_per_block, min_partial_withdrawal_amount,
\* ubi_withdraw_address
StakingParams == <<Varint, Varint, Varint, Bytes>>

StakingParamsMarshal(m) ==
  PutVarint(1, m[1]) \o PutVarint(2, m[2]) \o PutVarint(3, m[3]) \o PutBytes(4, m[4])

StakingParamsSize(m) ==
  SizeVarint(1, m[1]) + SizeVarint(1, m[2]) + SizeVarint(1, m[3]) + SizeBytes(1, m[4])

StakingGenesis == <<Message(StakingParams), Message(ValidatorSweepIndex)>>

StakingGenesisMarshal(m) ==
  PutMessage(1, StakingParamsMarshal(m[1])) \o PutMessage(2, ValidatorSweepIndexMarshal(m[2]))

StakingGenesisSize(m) ==
  SizeLength(1, StakingParamsSize(m[1])) + SizeLength(1, ValidatorSweepIndexSize(m[2]))
-----------------------------------------------------------------------------
\* x/evmstaking: queries

QueryParamsRequest == Empty
QueryParamsResponse == <<Message(StakingParams)>>
QueryParamsResponseMarshal(m) == PutMessage(1, StakingParamsMarshal(m[1]))
QueryParamsResponseSize(m) == SizeLength(1, StakingParamsSize(m[1]))

QueryGetWithdrawalQueueRequest == <<Pointer(Opaque)>>   \* pagination
QueryGetWithdrawalQueueRequestMarshal(m) == PutMessages(1, OpaqueMarshal, m[1])
QueryGetWithdrawalQueueRequestSize(m) == SizeEach(1, OpaqueSize, m[1])

QueryGetWithdrawalQueueResponse == <<Repeated(Message(Withdrawal)), Pointer(Opaque)>>
QueryGetWithdrawalQueueResponseMarshal(m) ==
  PutMessages(1, WithdrawalMarshal, m[1]) \o PutMessages(2, OpaqueMarshal, m[2])
QueryGetWithdrawalQueueResponseSize(m) ==
  SizeEach(1, WithdrawalSize, m[1]) + SizeEach(1, OpaqueSize, m[2])

QueryGetRewardWithdrawalQueueRequest == <<Pointer(Opaque)>>
QueryGetRewardWithdrawalQueueRequestMarshal(m) == PutMessages(1, OpaqueMarshal, m[1])
QueryGetRewardWithdrawalQueueRequestSize(m) == SizeEach(1, OpaqueSize, m[1])

QueryGetRewardWithdrawalQueueResponse == <<Repeated(Message(Withdrawal)), Pointer(Opaque)>>
QueryGetRewardWithdrawalQueueResponseMarshal(m) ==
  PutMessages(1, WithdrawalMarshal, m[1]) \o PutMessages(2, OpaqueMarshal, m[2])
QueryGetRewardWithdrawalQueueResponseSize(m) ==
  SizeEach(1, WithdrawalSize, m[1]) + SizeEach(1, OpaqueSize, m[2])

\* The six requests and responses that carry one address.
QueryGetOperatorAddressRequest == <<Bytes>>
QueryGetOperatorAddressResponse == <<Bytes>>
QueryGetWithdrawAddressRequest == <<Bytes>>
QueryGetWithdrawAddressResponse == <<Bytes>>
QueryGetRewardAddressRequest == <<Bytes>>
QueryGetRewardAddressResponse == <<Bytes>>
AddressMarshal(m) == PutBytes(1, m[1])
AddressSize(m) == SizeBytes(1, m[1])
-----------------------------------------------------------------------------
\* x/mint

MintParams == <<Bytes, Dec, Varint>>   \* mint_denom, inflations_per_year, blocks_per_year

MintParamsMarshal(m) == PutBytes(1, m[1]) \o PutValue(2, m[2]) \o PutVarint(3, m[3])

MintParamsSize(m) == SizeBytes(1, m[1]) + SizeLength(1, Len(m[2])) + SizeVarint(1, m[3])

MintGenesis == <<Message(MintParams)>>
MintGenesisMarshal(m) == PutMessage(1, MintParamsMarshal(m[1]))
MintGenesisSize(m) == SizeLength(1, MintParamsSize(m[1]))

MintQueryParamsRequest == Empty
MintQueryParamsResponse == <<Message(MintParams)>>
MintQueryParamsResponseMarshal(m) == PutMessage(1, MintParamsMarshal(m[1]))
MintQueryParamsResponseSize(m) == SizeLength(1, MintParamsSize(m[1]))
-----------------------------------------------------------------------------
\* Dispatch on the Go type.
Tables ==
  [MsgExecutionPayload |-> MsgExecutionPayload,
   ExecutionPayloadResponse |-> ExecutionPayloadResponse,
   EngineGenesis |-> EngineGenesis,
   QueryGetPendingUpgradeRequest |-> QueryGetPendingUpgradeRequest,
   QueryGetPendingUpgradeResponse |-> QueryGetPendingUpgradeResponse,
   Withdrawal |-> Withdrawal,
   ValidatorSweepIndex |-> ValidatorSweepIndex,
   StakingGenesis |-> StakingGenesis,
   QueryParamsRequest |-> QueryParamsRequest,
   QueryParamsResponse |-> QueryParamsResponse,
   QueryGetWithdrawalQueueRequest |-> QueryGetWithdrawalQueueRequest,
   QueryGetWithdrawalQueueResponse |-> QueryGetWithdrawalQueueResponse,
   QueryGetRewardWithdrawalQueueRequest |-> QueryGetRewardWithdrawalQueueRequest,
   QueryGetRewardWithdrawalQueueResponse |-> QueryGetRewardWithdrawalQueueResponse,
   QueryGetOperatorAddressRequest |-> QueryGetOperatorAddressRequest,
   QueryGetOperatorAddressResponse |-> QueryGetOperatorAddressResponse,
   QueryGetWithdrawAddressRequest |-> QueryGetWithdrawAddressRequest,
   QueryGetWithdrawAddressResponse |-> QueryGetWithdrawAddressResponse,
   QueryGetRewardAddressRequest |-> QueryGetRewardAddressRequest,
   QueryGetRewardAddressResponse |-> QueryGetRewardAddressResponse,
   MintGenesis |-> MintGenesis,
   MintQueryParamsRequest |-> MintQueryParamsRequest,
   MintQueryParamsResponse |-> MintQueryParamsResponse]

Types == DOMAIN Tables

AddressTypes ==
  {"QueryGetOperatorAddressRequest", "QueryGetOperatorAddressResponse",
   "QueryGetWithdrawAddressRequest", "QueryGetWithdrawAddressResponse",
   "QueryGetRewardAddressRequest", "QueryGetRewardAddressResponse"}

Chunks(type, m) ==
  CASE type = "MsgExecutionPayload" -> MsgExecutionPayloadMarshal(m)
    [] type = "EngineGenesis" -> EngineGenesisMarshal(m)
    [] type = "QueryGetPendingUpgradeResponse" -> QueryGetPendingUpgradeResponseMarshal(m)
    [] type = "Withdrawal" -> WithdrawalMarshal(m)
    [] type = "ValidatorSweepIndex" -> ValidatorSweepIndexMarshal(m)
    [] type = "StakingGenesis" -> StakingGenesisMarshal(m)
    [] type = "QueryParamsResponse" -> QueryParamsResponseMarshal(m)
    [] type = "QueryGetWithdrawalQueueRequest" -> QueryGetWithdrawalQueueRequestMarshal(m)
    [] type = "QueryGetWithdrawalQueueResponse" -> QueryGetWithdrawalQueueResponseMarshal(m)
    [] type = "QueryGetRewardWithdrawalQueueRequest" -> QueryGetRewardWithdrawalQueueRequestMarshal(m)
    [] type = "QueryGetRewardWithdrawalQueueResponse" -> QueryGetRewardWithdrawalQueueResponseMarshal(m)
    [] type \in AddressTypes -> AddressMarshal(m)
    [] type = "MintGenesis" -> MintGenesisMarshal(m)
    [] type = "MintQueryParamsResponse" -> MintQueryParamsResponseMarshal(m)
    [] Tables[type] = Empty -> EmptyMarshal(m)

Size(type, m) ==
  CASE type = "MsgExecutionPayload" -> MsgExecutionPayloadSize(m)
    [] type = "EngineGenesis" -> EngineGenesisSize(m)
    [] type = "QueryGetPendingUpgradeResponse" -> QueryGetPendingUpgradeResponseSize(m)
    [] type = "Withdrawal" -> WithdrawalSize(m)
    [] type = "ValidatorSweepIndex" -> ValidatorSweepIndexSize(m)
    [] type = "StakingGenesis" -> StakingGenesisSize(m)
    [] type = "QueryParamsResponse" -> QueryParamsResponseSize(m)
    [] type = "QueryGetWithdrawalQueueRequest" -> QueryGetWithdrawalQueueRequestSize(m)
    [] type = "QueryGetWithdrawalQueueResponse" -> QueryGetWithdrawalQueueResponseSize(m)
    [] type = "QueryGetRewardWithdrawalQueueRequest" -> QueryGetRewardWithdrawalQueueRequestSize(m)
    [] type = "QueryGetRewardWithdrawalQueueResponse" -> QueryGetRewardWithdrawalQueueResponseSize(m)
    [] type \in AddressTypes -> AddressSize(m)
    [] type = "MintGenesis" -> MintGenesisSize(m)
    [] type = "MintQueryParamsResponse" -> MintQueryParamsResponseSize(m)
    [] Tables[type] = Empty -> EmptySize(m)

Marshal(type, m) == MarshalBuffer(Chunks(type, m), Size(type, m))
=============================================================================
