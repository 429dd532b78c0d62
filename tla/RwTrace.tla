------------------------------ MODULE RwTrace ------------------------------
(***************************************************************************)
(* The life of one block's RW trace through src/witness/rw.rs.            *)
(*                                                                         *)
(* An execution (the bus-mapping trace producer, outside src/) performs    *)
(* reads and writes of storage slots, account fields, call memory, and    *)
(* the tx's access list and refund counter, one counter per access, and   *)
(* fills an OperationContainer.  Then the code of                          *)
(* rw.rs runs in the order block conversion calls it:                      *)
(*   RwMap::from(&container)        Build                                  *)
(*   check_rw_counter_sanity        CheckRwCounterSanity                   *)
(*   check_value                    CheckValue                             *)
(*   table_assignments_prepad       Prepad / PrepadOverflow                *)
(* HashMap iteration order, which table_assignments flattens in, is left  *)
(* open: every order of the groups is explored.                            *)
(***************************************************************************)
EXTENDS RwMap, TLC

CONSTANTS
  Addrs,          \* account addresses
  Slots,          \* storage keys
  AccountFields,  \* bus_mapping AccountField names used ("Nonce", ...)
  MemAddrs,       \* memory offsets
  FreshLocs,      \* traced locations that start afresh with every tx (its call)
  Vals,           \* values a word or a byte may hold; 0 is the default
  MaxOps,         \* bound on the number of accesses (counters 1..MaxOps)
  MaxTx,          \* bound on the number of transactions (= root calls)
  MaxCalls,       \* bound on call ids: root calls take 1..MaxTx, nested calls the rest
  StartOps,       \* number of StartOp the producer puts in the container
  FaultyReads,    \* may a read return a value other than the current one?
  OracleMode,     \* "MockFromRows" (the code) or "PreBatch": see MockUpdates
  TargetLens      \* the target_len values a caller may pass

ASSUME 0 \in Vals /\ MaxOps \in Nat /\ MaxTx \in Nat \ {0} /\ MaxCalls >= MaxTx
ASSUME OracleMode \in {"MockFromRows", "PreBatch"}
ASSUME \A l \in FreshLocs : l.kind \in {"TxAccessListAccount", "TxRefund", "Stack", "CallContext"}
ASSUME Vals \subseteq {0, 1}

VARIABLES
  phase,      \* where the block is in the pipeline
  tx,         \* current transaction id, also the id of its root call
  call,       \* id of the running call
  lastCall,   \* the highest call id handed out so far
  callStack,  \* the suspended callers: [call, frame] with their per-call state
  rwc,        \* the next rw_counter the producer hands out
  world,      \* current value of every location
  world0,     \* value of every location before the block (history)
  committed,  \* value of every location at the start of the current tx
  container,  \* OperationContainer: Target -> Seq(operation)
  mpt,        \* the value before the block of every MPT row key accessed
  badReads,   \* counters of reads that did not return the current value
  rws,        \* RwMap.0 : Target -> Seq(Rw)
  errs,       \* errors check_value collected
  rows,       \* the caller's copy of table_assignments()
  targetLen,  \* target_len the rows were padded to
  padded,     \* rows returned by table_assignments_prepad
  padLen      \* padding length returned by table_assignments_prepad

vars == <<phase, tx, call, lastCall, callStack, rwc, world, world0, committed, container, mpt, badReads,
          rws, errs, rows, targetLen, padded, padLen>>

calls == <<call, lastCall, callStack>>

\* Targets whose state starts afresh with every transaction: memory, stack
\* and call context belong to the tx's call, the access list and the refund
\* counter to the tx.
Volatile == {"Memory"} \cup {l.kind : l \in FreshLocs}

Targets == {"Start", "Storage", "Account"} \cup Volatile

\* Targets keyed by call id (Rw::id is call_id): their state is the call's.
CallKinds == {"Memory", "Stack", "CallContext"}

\* Targets whose initial values the state commitment (MptUpdates) records.
MptTargets == {"Storage", "Account"}

Loc ==
  {[kind |-> "Storage", address |-> a, key |-> k] : a \in Addrs, k \in Slots}
  \cup {[kind |-> "Account", address |-> a, field |-> f] : a \in Addrs, f \in AccountFields}
  \cup {[kind |-> "Memory", address |-> m] : m \in MemAddrs}
  \cup FreshLocs

(***************************************************************************)
(* The trace producer.  An access to `loc` gets the next counter; a write *)
(* records the value before it as value_prev, a read records value_prev = *)
(* value.  Storage carries the tx id and the committed (tx-start) value,  *)
(* memory the call id.  For every row key of an MPT target it records the *)
(* value before the block, what the spec's Initial-Value Oracle returns.   *)
(***************************************************************************)
TargetOf(loc) == loc.kind

OpOf(loc, isWrite, v) ==
  LET rw == IF isWrite THEN "WRITE" ELSE "READ"
      prev == IF isWrite THEN world[loc] ELSE v
  IN  CASE loc.kind = "Storage" ->
             [rwc |-> rwc, rw |-> rw, tx_id |-> tx, address |-> loc.address,
              key |-> loc.key, value |-> v, value_prev |-> prev,
              committed_value |-> committed[loc]]
        [] loc.kind = "Account" ->
             [rwc |-> rwc, rw |-> rw, address |-> loc.address, field |-> loc.field,
              value |-> v, value_prev |-> prev]
        [] loc.kind = "Memory" ->
             [rwc |-> rwc, rw |-> rw, call_id |-> call, address |-> loc.address,
              value |-> v]
        [] loc.kind = "TxAccessListAccount" ->
             [rwc |-> rwc, rw |-> rw, tx_id |-> tx, address |-> loc.address,
              is_warm |-> v = 1, is_warm_prev |-> prev = 1]
        [] loc.kind = "TxRefund" ->
             [rwc |-> rwc, rw |-> rw, tx_id |-> tx, value |-> v, value_prev |-> prev]
        [] loc.kind = "Stack" ->
             [rwc |-> rwc, rw |-> rw, call_id |-> call, address |-> loc.address, value |-> v]
        [] loc.kind = "CallContext" ->
             [rwc |-> rwc, rw |-> rw, call_id |-> call, field |-> loc.field, value |-> v]

InitialValueOf(loc) == world0[loc]

Access(loc, isWrite, v) ==
  LET op  == OpOf(loc, isWrite, v)
      key == ValueKey(ToRw(TargetOf(loc), op))
  IN
  /\ phase = "trace"
  /\ rwc <= MaxOps
  /\ isWrite \/ FaultyReads \/ v = world[loc]
  /\ container' = [container EXCEPT ![TargetOf(loc)] = Append(@, op)]
  /\ world' = IF isWrite THEN [world EXCEPT ![loc] = v] ELSE world
  /\ badReads' = IF ~isWrite /\ v # world[loc] THEN badReads \cup {rwc} ELSE badReads
  /\ mpt' = IF TargetOf(loc) \in MptTargets /\ key \notin DOMAIN mpt
            THEN mpt @@ (key :> InitialValueOf(loc)) ELSE mpt
  /\ rwc' = rwc + 1
  /\ UNCHANGED <<phase, tx, calls, world0, committed, rws, errs, targetLen, padded, padLen, rows>>

\* The per-call state of a call: its memory, stack and call context.
CallLocs == {l \in Loc : l.kind \in CallKinds}

\* A call begins a nested call with a fresh id: the caller's per-call
\* state is saved, and the callee's starts at zero.
BeginCall ==
  /\ phase = "trace"
  /\ lastCall < MaxCalls
  /\ callStack' = Append(callStack, [call |-> call, frame |-> [l \in CallLocs |-> world[l]]])
  /\ call' = lastCall + 1
  /\ lastCall' = lastCall + 1
  /\ world' = [l \in Loc |-> IF l \in CallLocs THEN 0 ELSE world[l]]
  /\ UNCHANGED <<phase, tx, rwc, world0, committed, container, mpt, badReads, rws,
                 errs, targetLen, padded, padLen, rows>>

\* The callee returns: the caller resumes with its own per-call state.
EndCall ==
  /\ phase = "trace"
  /\ callStack # <<>>
  /\ call' = Last(callStack).call
  /\ world' = [l \in Loc |-> IF l \in CallLocs THEN Last(callStack).frame[l] ELSE world[l]]
  /\ callStack' = Front(callStack)
  /\ UNCHANGED <<phase, tx, lastCall, rwc, world0, committed, container, mpt, badReads,
                 rws, errs, targetLen, padded, padLen, rows>>

\* Once its root call has returned, a new transaction starts with a fresh
\* root call: per-call state, the access list and the refund counter start
\* at zero.
EndTx ==
  /\ phase = "trace"
  /\ callStack = <<>>
  /\ tx < MaxTx
  /\ tx' = tx + 1
  /\ call' = tx + 1
  /\ world' = [l \in Loc |-> IF l.kind \in Volatile THEN 0 ELSE world[l]]
  /\ committed' = world'
  /\ UNCHANGED <<phase, lastCall, callStack, rwc, world0, container, mpt, badReads, rws,
                 errs, targetLen, padded, padLen, rows>>

\* The block ends once every call has returned; its StartOp entries carry
\* the next (unused) counter.
EndBlock ==
  /\ phase = "trace"
  /\ callStack = <<>>
  /\ container' = [container EXCEPT !["Start"] = [i \in 1..StartOps |-> [rwc |-> rwc]]]
  /\ phase' = "traced"
  /\ UNCHANGED <<tx, calls, rwc, world, world0, committed, mpt, badReads, rws, errs,
                 targetLen, padded, padLen, rows>>

(***************************************************************************)
(* The code of rw.rs.                                                      *)
(***************************************************************************)
Build ==
  /\ phase = "traced"
  /\ rws' = FromContainer(container)
  /\ phase' = "built"
  /\ UNCHANGED <<tx, calls, rwc, world, world0, committed, container, mpt, badReads,
                 errs, targetLen, padded, padLen, rows>>

\* debug_assert_eq! panics on the first counter out of place.
CheckRwCounterSanity ==
  /\ phase = "built"
  /\ phase' = IF CounterSanity(rws) THEN "sane" ELSE "sanity_panic"
  /\ UNCHANGED <<tx, calls, rwc, world, world0, committed, container, mpt, badReads,
                 rws, errs, targetLen, padded, padLen, rows>>

(***************************************************************************)
(* The updates check_value looks initial values up in.  Line 59 builds    *)
(* them with MptUpdates::mock_from(&rows): one update per group of sorted *)
(* rows of an MPT target, whose old value (value_assignments().1) is the  *)
(* value_prev of the group's first row, and for a read that is the value *)
(* the read itself returned.  "PreBatch" is the spec's oracle instead:     *)
(* the value of the key before the block.                                  *)
(***************************************************************************)
MockFromRows(sorted) ==
  LET keys    == {ValueKey(sorted[i]) : i \in {i \in DOMAIN sorted : Tag(sorted[i]) \in MptTargets}}
      first(k) == sorted[SelectInSeq(sorted, LAMBDA r : ValueKey(r) = k)]
  IN  [k \in keys |-> UnwrapOrDefault(ValuePrevAssignment(first(k)))]

MockUpdates(sorted) ==
  IF OracleMode = "PreBatch"
  THEN LET keys == {ValueKey(sorted[i]) : i \in DOMAIN sorted} \cap DOMAIN mpt
       IN  [k \in keys |-> mpt[k]]
  ELSE MockFromRows(sorted)

CheckValue ==
  /\ phase = "sane"
  /\ \E order \in HashOrders(rws) :
       LET sorted == TableAssignments(rws, order)
       IN  errs' = CheckValueErrs(sorted, MockUpdates(sorted))
  /\ phase' = "checked"
  /\ UNCHANGED <<tx, calls, rwc, world, world0, committed, container, mpt, badReads,
                 rws, targetLen, padded, padLen, rows>>

\* The caller (the state circuit) takes table_assignments() ...
TakeTableAssignments ==
  /\ phase = "checked"
  /\ \E order \in HashOrders(rws) : rows' = TableAssignments(rws, order)
  /\ phase' = "sorted"
  /\ UNCHANGED <<tx, calls, rwc, world, world0, committed, container, mpt, badReads,
                 rws, errs, targetLen, padded, padLen>>

\* ... and pads them to target_len with table_assignments_prepad.
Prepad(n) ==
  LET out == TableAssignmentsPrepad(rows, n)
  IN  /\ phase = "sorted"
      /\ ~PaddingOverflow(Len(SkipLeadingStart(rows)), n)
      /\ padded' = out[1]
      /\ padLen' = out[2]
      /\ targetLen' = n
      /\ phase' = "padded"
      /\ UNCHANGED <<tx, calls, rwc, world, world0, committed, container, mpt, badReads,
                     rws, errs, rows>>

\* padding_len panics: the target cannot hold the rows.
PrepadOverflow(n) ==
  /\ phase = "sorted"
  /\ PaddingOverflow(Len(SkipLeadingStart(rows)), n)
  /\ targetLen' = n
  /\ phase' = "overflow_panic"
  /\ UNCHANGED <<tx, calls, rwc, world, world0, committed, container, mpt, badReads,
                 rws, errs, rows, padded, padLen>>

Init ==
  /\ phase = "trace"
  /\ tx = 1
  /\ call = 1
  /\ lastCall = MaxTx
  /\ callStack = <<>>
  /\ rwc = 1
  /\ world0 \in [Loc -> Vals]
  /\ \A l \in Loc : l.kind \in Volatile => world0[l] = 0
  /\ world = world0
  /\ committed = world0
  /\ container = [t \in Targets |-> <<>>]
  /\ mpt = <<>>
  /\ badReads = {}
  /\ rws = [t \in Targets |-> <<>>]
  /\ errs = {}
  /\ rows = <<>>
  /\ targetLen = 0
  /\ padded = <<>>
  /\ padLen = 0

Next ==
  \/ \E loc \in Loc, w \in BOOLEAN, v \in Vals : Access(loc, w, v)
  \/ BeginCall
  \/ EndCall
  \/ EndTx
  \/ EndBlock
  \/ Build
  \/ CheckRwCounterSanity
  \/ CheckValue
  \/ TakeTableAssignments
  \/ \E n \in TargetLens : Prepad(n) \/ PrepadOverflow(n)

Spec == Init /\ [][Next]_vars
-----------------------------------------------------------------------------
(***************************************************************************)
(* Properties.                                                             *)
(***************************************************************************)
Phases == {"trace", "traced", "built", "sane", "sanity_panic", "checked",
           "sorted", "padded", "overflow_panic"}

TypeOK ==
  /\ phase \in Phases
  /\ tx \in 1..MaxTx
  /\ call \in 1..MaxCalls /\ lastCall \in MaxTx..MaxCalls
  /\ Len(callStack) <= MaxCalls - MaxTx
  /\ rwc \in 1..(MaxOps + 1)
  /\ world \in [Loc -> Vals] /\ world0 \in [Loc -> Vals] /\ committed \in [Loc -> Vals]
  /\ DOMAIN container = Targets /\ DOMAIN rws = Targets
  /\ badReads \subseteq 1..MaxOps
  /\ errs \subseteq (1..(MaxOps + StartOps - 1)) \X {ErrFirst, ErrNonFirst}
  /\ targetLen \in Nat /\ padLen \in Nat

\* The Rw rows the container holds, Start rows aside.
RealRws == UNION {{rws[t][i] : i \in DOMAIN rws[t]} : t \in Targets \ {"Start"}}

(***************************************************************************)
(* check_value is exact on canonical rows: it reports an error if and only *)
(* if some read of the execution returned a value other than the one the   *)
(* location held at that moment (the last write before it, in counter     *)
(* order, or the value before the first access).  This needs the sort to  *)
(* keep each resource contiguous and chronological, the key closure to    *)
(* separate exactly the resources the execution separates (access lists   *)
(* and refund per tx, memory, stack and call context per call), and       *)
(* unwrap_or_default's 0 to be the right initial value.  It is checked    *)
(* on targets without an MPT key; for those with one, see MockUpdates.    *)
(***************************************************************************)
CheckValueExact ==
  phase \in {"checked", "sorted", "padded", "overflow_panic"} =>
    (errs = {} <=> badReads = {})

(***************************************************************************)
(* check_value never rejects a correct execution: when every read returned *)
(* the current value, it reports no error, whatever the HashMap order.     *)
(* Over storage this needs the per-tx key and each group's first row to    *)
(* carry the value the slot held when the tx first touched it, and over   *)
(* memory the per-call key, so that a fresh call's first read meets 0 and *)
(* not the last write of an earlier tx's call.                             *)
(***************************************************************************)
CheckValueSound ==
  phase \in {"checked", "sorted", "padded", "overflow_panic"} /\ badReads = {} =>
    errs = {}

(***************************************************************************)
(* table_assignments_prepad of the canonical rows yields the table the    *)
(* state circuit expects: exactly target_len rows (one more than the real *)
(* rows in auto mode), Start rows numbered 1..padding first, then every   *)
(* real access exactly once, strictly ordered by the composite key, and   *)
(* no Start row of the container left among them.                          *)
(***************************************************************************)
PaddedTable ==
  phase = "padded" =>
    LET real == SubSeq(padded, padLen + 1, Len(padded))
    IN  /\ Len(padded) = IF targetLen = 0 THEN Cardinality(RealRws) + 1 ELSE targetLen
        /\ padLen >= 1
        /\ \A i \in 1..padLen : padded[i] = StartRw(i)
        /\ Len(real) = Cardinality(RealRws)
        /\ Range(real) = RealRws
        /\ IsSorted(real, LAMBDA a, b : LexLess(SortKey(a), SortKey(b)))
-----------------------------------------------------------------------------
(***************************************************************************)
(* Refinement: the pipeline implements RwTableSpec.  The abstract log is  *)
(* the container's operations in counter order.  An abstract location is *)
(* a pair <<loc, scope>>: a volatile location (memory, stack and call     *)
(* context of a call, access list and refund of a tx) is one location per *)
(* call or tx and starts at zero; any other has scope 0.  The values      *)
(* before the block are world0.  The verdict is check_value's: open until *)
(* it has run, then accepted iff it reported no error.                     *)
(***************************************************************************)
\* The location an operation of target t accessed: the one whose fields it carries.
OpLoc(t, op) ==
  CHOOSE l \in Loc : l.kind = t /\ \A f \in DOMAIN l \ {"kind"} : l[f] = op[f]

\* The call or tx a volatile location belongs to.
OpScope(t, op) ==
  IF t \notin Volatile THEN 0
  ELSE IF "call_id" \in DOMAIN op THEN op.call_id ELSE op.tx_id

TableLoc(t, op) == <<OpLoc(t, op), OpScope(t, op)>>

TableVolatile == {<<l, c>> : l \in {l \in Loc : l.kind \in Volatile}, c \in 1..MaxCalls}

TableLocs == {<<l, 0>> : l \in {l \in Loc : l.kind \notin Volatile}} \cup TableVolatile

TableVal(t, op) == IF t = "TxAccessListAccount" THEN BoolWord(op.is_warm) ELSE op.value

\* The operation with counter k (the producer numbers accesses 1..rwc-1).
OpAt(k) ==
  CHOOSE p \in UNION {{<<t, op>> : op \in Range(container[t])} : t \in Targets \ {"Start"}} :
    p[2].rwc = k

TableLog ==
  [k \in 1..(rwc - 1) |->
     LET p == OpAt(k)
     IN  [loc |-> TableLoc(p[1], p[2]), write |-> p[2].rw = "WRITE", val |-> TableVal(p[1], p[2])]]

TableVerdict ==
  IF phase \in {"checked", "sorted", "padded", "overflow_panic"}
  THEN IF errs = {} THEN "accepted" ELSE "rejected"
  ELSE "open"

Table == INSTANCE RwTableSpec
           WITH Locs <- TableLocs, Volatile <- TableVolatile,
                log <- TableLog, init <- [p \in TableLocs \ TableVolatile |-> world0[p[1]]],
                verdict <- TableVerdict

(***************************************************************************)
(* Every behaviour of the pipeline is a behaviour of RwTableSpec: each     *)
(* access extends the log in counter order, and check_value over the      *)
(* sorted, grouped table gives the verdict of the replay of the log in    *)
(* time order, which is the spec's read/write and first-access law.  The  *)
(* first read of a storage slot or an account field is where the two can  *)
(* part: check_value takes that group's initial value from the rows.      *)
(***************************************************************************)
TableSpec == Table!Spec
====
