\* The spec's first-access law (RwTableSpec) over a storage slot, with the
\* initial values check_value really uses (MptUpdates::mock_from(&rows)):
\* up to three accesses in one transaction, wrong reads allowed.
CONSTANTS
  TxLogIndexBits = 2
  TxLogFieldTagBits = 2
  Addrs <- MC_Addrs
  Slots <- MC_Slots
  AccountFields <- MC_NoAccount
  MemAddrs <- MC_NoMem
  FreshLocs <- MC_NoFresh
  Vals <- MC_Vals
  MaxOps = 3
  MaxTx = 1
  MaxCalls = 1
  StartOps = 1
  FaultyReads = TRUE
  OracleMode = "MockFromRows"
  TargetLens <- MC_AutoTarget
SPECIFICATION Spec
PROPERTY TableSpec
\* The pipeline ends once the table is padded or padding_len panics.
CHECK_DEADLOCK FALSE
