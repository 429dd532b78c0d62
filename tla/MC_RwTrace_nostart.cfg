\* check_value when the container holds no StartOp, over a memory byte (no
\* MPT key: its initial value is 0): the first canonical row is then a real
\* access, and check_value never looks at row 0.
CONSTANTS
  TxLogIndexBits = 2
  TxLogFieldTagBits = 2
  Addrs <- MC_Addrs
  Slots <- MC_NoSlots
  AccountFields <- MC_NoAccount
  MemAddrs <- MC_MemAddrs
  FreshLocs <- MC_NoFresh
  Vals <- MC_Vals
  MaxOps = 3
  MaxTx = 2
  MaxCalls = 2
  StartOps = 0
  FaultyReads = TRUE
  OracleMode = "MockFromRows"
  TargetLens <- MC_AutoTarget
SPECIFICATION Spec
INVARIANT CheckValueExact
\* The pipeline ends once the table is padded or padding_len panics.
CHECK_DEADLOCK FALSE
