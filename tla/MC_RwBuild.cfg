\* RwMap::from, Index and the value accessors over every pair of operations.
CONSTANTS
  TxLogIndexBits = 2
  TxLogFieldTagBits = 2
  Ops <- MC_Ops
  MaxOps = 2
  IndexPanic = IndexPanic
  Unreachable = Unreachable
  AssertFailed = AssertFailed
SPECIFICATION Spec
INVARIANTS TypeOK ValueKeySeparatesResources LookupsResolve CanonicalOrderDeterministic
\* The builder runs once; after RwMap::from nothing is left to do.
CHECK_DEADLOCK FALSE
