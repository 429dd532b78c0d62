\* check_value and the refinement over a stack slot and two call-context
\* fields of each tx's call, wrong reads allowed.
CONSTANTS
  TxLogIndexBits = 2
  TxLogFieldTagBits = 2
  Addrs <- MC_Addrs
  Slots <- MC_NoSlots
  AccountFields <- MC_NoAccount
  MemAddrs <- MC_NoMem
  FreshLocs <- MC_CallLocs
  Vals <- MC_Vals
  MaxOps = 3
  MaxTx = 2
  MaxCalls = 2
  StartOps = 1
  FaultyReads = TRUE
  OracleMode = "MockFromRows"
  TargetLens <- MC_AutoTarget
SPECIFICATION Spec
INVARIANTS CheckValueExact
\* The pipeline ends once the table is padded or padding_len panics.
CHECK_DEADLOCK FALSE
