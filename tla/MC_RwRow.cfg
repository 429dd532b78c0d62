\* table_assignment and rlc for every sample record and every challenge.
CONSTANTS
  TxLogIndexBits = 2
  TxLogFieldTagBits = 2
  W <- MC_W
  P <- MC_P
  Records <- MC_Records
SPECIFICATION Spec
INVARIANTS TypeOK RlcIsPolynomial EncodingInjective
\* One record is encoded and digested once; then the encoder is done.
CHECK_DEADLOCK FALSE
