\* check_value with correct reads when the initial value of every key is
\* the value before the block, as the spec words the Initial-Value Oracle.
CONSTANTS
  TxLogIndexBits = 2
  TxLogFieldTagBits = 2
  Addrs <- MC_Addrs
  Slots <- MC_Slots
  AccountFields <- MC_NoAccount
  MemAddrs <- MC_MemAddrs
  FreshLocs <- MC_NoFresh
  Vals <- MC_Vals
  MaxOps = 3
  MaxTx = 2
  MaxCalls = 2
  StartOps = 1
  FaultyReads = FALSE
  OracleMode = "PreBatch"
  TargetLens <- MC_AutoTarget
SPECIFICATION Spec
INVARIANT CheckValueExact
\* The pipeline ends once the table is padded or padding_len panics.
CHECK_DEADLOCK FALSE
