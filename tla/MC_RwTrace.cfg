\* check_value over every trace of up to three accesses to a storage slot and
\* a memory byte in up to two transactions, reads possibly wrong, every
\* HashMap order; a StartOp is in the container and the initial values come
\* from the rows (MptUpdates::mock_from).
CONSTANTS
  TxLogIndexBits = 2
  TxLogFieldTagBits = 2
  Addrs <- MC_Addrs
  Slots <- MC_Slots
  AccountFields <- MC_NoAccount
  MemAddrs <- MC_MemAddrs
  FreshLocs <- MC_NoFresh
  Vals <- MC_Vals
  MaxOps = 3
  MaxTx = 2
  MaxCalls = 2
  StartOps = 1
  FaultyReads = TRUE
  OracleMode = "MockFromRows"
  TargetLens <- MC_AutoTarget
SPECIFICATION Spec
INVARIANTS TypeOK CheckValueSound
\* The pipeline ends once the table is padded or padding_len panics.
CHECK_DEADLOCK FALSE
