CONSTANTS
  WordBits = 16
  HashLength = 2
  AddressLength = 1
  Samples <- MCSamples
  Payloads <- MCPayloads
  EventLists <- MCEventLists
  NewFields <- MCNewFields
  Power <- MCPower
  Authority <- MCAuthority
  MaxTxBytes = 150
  a = a
  b = b
  c = c
SPECIFICATION Spec
INVARIANTS
  DecodedIsSent
  PayloadSurvives
  PassesWithQuorum
CHECK_DEADLOCK FALSE
