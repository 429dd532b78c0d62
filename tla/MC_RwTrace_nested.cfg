\* check_value over nested calls: one tx whose root call may start two
\* further calls (nested or one after the other), each with its own memory
\* byte and stack slot; wrong reads allowed.
CONSTANTS
  TxLogIndexBits = 2
  TxLogFieldTagBits = 2
  Addrs <- MC_Addrs
  Slots <- MC_NoSlots
  AccountFields <- MC_NoAccount
  MemAddrs <- MC_MemAddrs
  FreshLocs <- MC_StackLoc
  Vals <- MC_Vals
  MaxOps = 3
  MaxTx = 1
  MaxCalls = 3
  StartOps = 1
  FaultyReads = TRUE
  OracleMode = "MockFromRows"
  TargetLens <- MC_AutoTarget
SPECIFICATION Spec
INVARIANTS CheckValueExact
\* The pipeline ends once the table is padded or padding_len panics.
CHECK_DEADLOCK FALSE
