\* Padding of the canonical rows of every trace of up to three accesses to
\* a slot, a balance and a memory byte (values do not matter here), for
\* every target_len from auto (0) to two more than the longest trace.
CONSTANTS
  TxLogIndexBits = 2
  TxLogFieldTagBits = 2
  Addrs <- MC_Addrs
  Slots <- MC_Slots
  AccountFields <- MC_AccountFields
  MemAddrs <- MC_MemAddrs
  FreshLocs <- MC_NoFresh
  Vals <- MC_Zero
  MaxOps = 3
  MaxTx = 2
  MaxCalls = 2
  StartOps = 1
  FaultyReads = FALSE
  OracleMode = "MockFromRows"
  TargetLens <- MC_TargetLens
SPECIFICATION Spec
INVARIANT PaddedTable
\* The pipeline ends once the table is padded or padding_len panics.
CHECK_DEADLOCK FALSE
