# TLA+ models of the zkEVM read-write (RW) table witness

The source is one file, `src/zkevm-circuits/src/witness/rw.rs` (860 lines). It turns
the state accesses of a block (stack, memory, storage, account fields, call context,
logs, receipts, access lists, refunds) into the RW table. The execution circuit and the
state circuit both consume that table. The file has no threads and no I/O. The hard part
is the bookkeeping. The canonical order, the padding and the value check must agree
exactly. Otherwise a correct block gets rejected, or a wrong read slips through.

## Inventory

| Component | Code | State | Operations |
|---|---|---|---|
| Access Record `Rw` + Resource Tag `Target` | `enum Rw` 162-259, projections 474-645, value-pair accessors 335-455 | immutable record per access | `rw_counter`, `is_write`, `tag`, `id`, `address`, `field_tag`, `storage_key`, `value_assignment`, `value_prev_assignment`, `committed_value_assignment` |
| Trace Container `RwMap` | 19-153 | `HashMap<Target, Vec<Rw>>` | `Index<(Target, usize)>`, `Index<OperationRef>`, `table_assignments`, `padding_len`, `table_assignments_prepad` |
| Consistency Checker | 41-109 | none (collects errors) | `check_rw_counter_sanity` (a `debug_assert` panic), `check_value` (logs errors, never aborts) |
| Row Encoder `RwRow` | 261-332, 457-472 | derived | `table_assignment`, `values`, `rlc`, `unwrap` |
| Trace Builder | 647-860 | builds the map | `From<&OperationContainer>`: one arm per operation kind, plus an enum translation for the field kinds |
| *External:* the bus-mapping trace producer and the Initial-Value Oracle (`MptUpdates::mock_from`) | not under `src/` | the world state and counters | they push operations; `mock_from` builds the initial values from the rows |

How the parts interact: the producer fills an `OperationContainer`. `RwMap::from` groups
it by `Target`. Block conversion then calls `check_rw_counter_sanity` and `check_value`.
The state circuit calls `table_assignments()` and pads it with
`table_assignments_prepad(rows, target_len)`. Each row is encoded by
`table_assignment` / `RwRow::values` / `rlc`. All of this is synchronous. The one
source of nondeterminism is the `HashMap` iteration order that `table_assignments`
flattens in (line 140).

What must be true of each part:
* **Container:** canonical rows group each resource contiguously and in counter order,
  whatever order the HashMap iterates in. The padded table holds exactly `target_len`
  rows (auto: one Start row). It starts with Start rows numbered `1..n` and then holds
  every real access once.
* **Checker:** `check_value` reports an error exactly when a read returned a value other
  than the last write to its resource, or the resource's initial value. The counter
  sanity check passes on gapless 1-based counters.
* **Encoder:** limb split and recombination are inverses. `rlc` is the Horner evaluation
  of the 14 values, highest index first.
* **Builder:** every operation becomes exactly one `Rw` of the matching variant, with its
  counter, its read/write flag and its translated field tag.

The hazards are listed, at their lines, in `PROJECT.json` ("hazards"). In short:
* row 0 is never checked;
* initial values per (tx, key) group;
* HashMap order;
* the key fields;
* counter underflow and gaps;
* the padding boundary;
* leading-only Start stripping;
* TxLog address packing;
* RLC direction and limb split.

## Modules

* `RwMap.tla`: pure operators, translated from `rw.rs`.
  * Rw records: a record per variant, with field `tag`.
  * The projections `Id`, `Address`, `FieldTag`, `StorageKey`, `ValueAssignment`. Each arm
    set is the set of variants the Rust `match` sends to that arm, and `Option` is
    `<<x>>` / `<<>>`.
  * `Tag` is `Rw::tag`: the record's tag is its Target.
  * `HashOrders(m)`: every iteration order of the non-empty groups of a HashMap.
  * `ValueKey`: the key closure of `check_value`. `SortKey`: `ValueKey` followed by the
    counter.
  * `SortByKey`: a stable sort, as `sort_by_key` is. `TableAssignments(rws, order)`:
    flatten the groups in HashMap order, then sort.
  * `CounterSanity`, `CheckValueErrs` (the error set, with Rust's 0-based indices),
    `PaddingLen` / `PaddingOverflow`, `SkipLeadingStart`, `TableAssignmentsPrepad`.
  * `RwFields`: the fields of each variant of `enum Rw`.
  * `ToRw` / `FromContainer`: `RwMap::from`, with every arm. Field kinds are names,
    translated to the table's tags; `CallContextFieldTagOf` covers all 25 arms.
  * `BuildTxLogAddress` packs `index + (field_tag << TxLogIndexBits) + (log_id <<
    (TxLogIndexBits + TxLogFieldTagBits))`. The code uses 32 and 16; the cfgs use 2 and 2.
  * `TargetOrd`, the field-tag discriminants and `BuildTxLogAddress` are taken from the
    spec and from the packing's definition, because `bus_mapping`, `table.rs` and
    `util.rs` are not under `src/`.
* `RwTrace.tla`: the block's pipeline as a state machine, `EXTENDS RwMap`.
  * *Environment (spec-modelled):*
    * `Access(loc, isWrite, v)` is one access by the producer. It takes the next counter,
      records `value_prev` and `committed_value` as bus-mapping does, updates the world,
      and records, for an MPT key (storage, account), its value before the block.
    * `BeginCall` starts a nested call with a fresh id (bounded by `MaxCalls`). It pushes
      the caller's memory, stack and call context on `callStack` and zeroes them for the
      callee. `EndCall` pops the frame, and the caller resumes with its own state. With
      `MaxCalls = MaxTx` (every run but the nested one) no nested call can begin.
    * `EndTx` (only once the root call has returned) starts a new transaction with a fresh call. Memory and every location of
      `FreshLocs` (together `Volatile`) are zeroed.
    * `FreshLocs` lists the traced locations that start afresh with each tx or call: an
      access-list entry and the refund counter (keyed by tx id), a stack slot and
      call-context fields (keyed by call id). `check_value_per_tx` traces the first two,
      `check_value_per_call` the last two; the other runs set it empty.
    * `EndBlock` adds `StartOps` StartOps, which carry the next unused counter.
    * `FaultyReads` lets a read return any value. The history variable `badReads` keeps
      the counters of reads that were wrong.
  * *Code:*
    * `Build` is `From<&OperationContainer>`.
    * `CheckRwCounterSanity`.
    * `CheckValue`: `check_value` over `table_assignments` in every HashMap order.
    * `MockUpdates` is line 59's `MptUpdates::mock_from(&rows)`. `mock_from` is outside
      `src/`, so `MockFromRows` models it: one update per group of sorted rows of an MPT
      target, whose old value is the `value_prev` of the group's first row. For a read,
      that is the value the read returned. `OracleMode = "PreBatch"` swaps in the
      spec's oracle, the key's value before the block.
    * `TakeTableAssignments`: the caller's copy of the rows.
    * `Prepad(n)` and `PrepadOverflow(n)`: `table_assignments_prepad`, and the panic in
      `padding_len`.
  * The pipeline ends in `padded` or `overflow_panic` (deadlock checking is off for that
    reason only).
* `MC_RwTrace.tla`: the model values for the runs.
* `RwBuild.tla`: the builder and the lookups, for operations of every target.
  * `Record(t, op)` is the producer. It pushes an operation under the next counter,
    and its `OperationRef` is its position.
  * `Build` is `RwMap::from`.
  * `RwIndex` is `Index<(Target, usize)>` / `Index<OperationRef>`. The model value
    `IndexPanic` stands for the panic.
  * The value accessors (335-455) are operators. The model values `Unreachable` and
    `AssertFailed` stand for `unreachable!()` and a failed `debug_assert_eq!`.
  * `Reads` is the caller side: which accessor the execution circuit uses for each kind
    of operation.
* `RwTableSpec.tla`: the abstract specification (the spec's read/write and first-access
  laws), with no groups, keys or sorting.
  * A log of accesses in counter order.
  * One verdict, given once: accepted iff every read returned the value of the last
    earlier write to its location, or the value before the block. A call's memory is
    volatile and starts at zero.
  * At the end of `RwTrace.tla`, `Table == INSTANCE RwTableSpec WITH ...` maps the
    pipeline onto it:
    * the log is the container's operations ordered by counter;
    * a location of `Volatile` (memory byte, stack slot, call-context field, access-list
      entry, refund) becomes one location per tx or call, starting at zero;
    * `init` is `world0`;
    * the verdict is "open" until `CheckValue`, then follows `errs = {}`.
  * The code does not implement it: the `first_read_blind` run shows why. Where the code
    and the abstraction agree (targets without an MPT key), `TableSpec` says no more than
    `CheckValueExact`, because the producer's `world` is the replay. So `CheckValueExact`
    is checked there instead.
* `RwRow.tla`: the Row Encoder, `EXTENDS RwMap`.
  * `TableAssignment(r)` is `Rw::table_assignment` (457-472). It uses the projections of
    `RwMap`, with `ValuePrevAssignment` (618-635) and `CommittedValueAssignment`
    (637-644), and splits every word into lo/hi limbs. Absent options become 0.
  * `Values(x)` is `RwRow::values`: the 14 field elements in the code's order.
  * `Rlc(x, r)` is `RwRow::rlc`: a fold over the reversed values, `acc * r + v`.
  * Cells are halo2 `Value`s: `Known(x)` is `Some(x)` and an unknown value is `None`.
    `IntoValue` is `word::Word::into_value`.
  * `Unwrap` is `RwRow<Value<F>>::unwrap` (305-332). `unwrap_f` takes the value out of
    each cell, and `unwrap_w` out of both limbs of a word. An unknown cell panics
    (phase `unwrap_panic`).
  * The state machine: `Init` picks a record, `Encode` builds its cells, `Unwrap` turns
    them into the row, and `Digest(r)` takes the row's RLC at a challenge `r`.
  * Scaling: `U256` is a word of `2W` bits, a limb is `W` bits, and `F` is `Z_P` with
    `2^W < P`. So every limb fits in the field without wrapping, as a 128-bit limb
    does in the code's 254-bit field. The whole word does not fit. That is why the
    code splits it.
* `MC_RwRow.tla`: `W = 4`, `P = 67`. One base record per variant, then every one-field
  variation of each:
  * words are drawn from `{0, 15, 16, 128, 255}`;
  * field tags are `1..3`;
  * TxLog addresses, packed from 2-bit fields, stay below `P`. So a 160-bit address
    stays below the code's 254-bit field.

Data is abstracted as follows:
* values are `{0, 1}` (the padding run uses `{0}`);
* one address, one slot, the `Balance` field, one memory byte, one stack slot and the
  `CallerId` and `IsSuccess` call-context fields;
* root calls take the tx id as call id; nested calls (only in
  `check_value_nested_calls`) take fresh ids above `MaxTx`. The code only needs ids to be
  unique, not ordered, so this numbering is enough.

## Runs

| Run | cfg | Expect | What it shows |
|---|---|---|---|
| `check_value` | `MC_RwTrace.cfg` | pass | `CheckValueSound`: `check_value`, with `mock_from`'s initial values, reports no error on an execution whose reads were all right. The traces: ≤3 accesses to a storage slot and a memory byte, ≤2 transactions, wrong reads allowed, every HashMap order, a StartOp present. `TypeOK` (including the 0-based error indices). |
| `prepad` | `MC_RwTrace_pad.cfg` | pass | `PaddedTable` holds for every trace of ≤3 accesses to a slot, a balance and a memory byte, and every `target_len` in `0..5`. Some of those values make `padding_len` panic. |
| `row_encoder` | `MC_RwRow.cfg` | pass | Over every variant and its one-field variations: `RlcIsPolynomial` (`rlc` equals the reference `Σ v[i]·r^(i-1) mod P` at every challenge in `Z_P`); `EncodingInjective` (no two records encode to the same 14 values). |
| `builder` | `MC_RwBuild.cfg` | pass | Every pair of operations of any target. This includes all 25 CallContext fields, every TxLog field, log ids 0..1 and indices filling their 2 bits. `ValueKeySeparatesResources`: two operations get the same check_value key iff they address the same thing. `LookupsResolve`: each recorded `OperationRef` resolves through `Index` and its accessor to the operation's values, with no panic, `unreachable!` or assert. `TypeOK`: each group holds its own variant. `CanonicalOrderDeterministic` (spec §8.3): every HashMap order of the groups and every insertion order inside a group give the same `table_assignments`. |
| `check_value_per_tx` | `MC_RwTrace_tx.cfg` | pass | An access-list entry and the refund counter over two transactions, wrong reads allowed. Both start afresh in each tx, with no MptUpdates entry. `CheckValueExact` holds: the tx id in the key and `unwrap_or_default`'s 0 give the right initial value. |
| `check_value_per_call` | `MC_RwTrace_call.cfg` | pass | A stack slot and two call-context fields, over two transactions with one call each, wrong reads allowed. `CheckValueExact` holds: the call id in the key keeps each call's stack and context apart, and two fields of one call get different field tags. |
| `check_value_nested_calls` | `MC_RwTrace_nested.cfg` | pass | One tx whose root call starts up to two more calls, nested or one after the other. Each call has its own memory byte and stack slot. Three accesses, wrong reads allowed. `CheckValueExact` holds. The caller's memory rows stay one contiguous, chronological group across the callee's accesses, and a callee's first read compares with zero (the call id in the key). |
| `check_value_no_start` | `MC_RwTrace_nostart.cfg` | violation | With no StartOp, a wrong read of fresh memory (initial value 0) that sorts first is not reported, because the loop starts at idx 1 (line 61). |
| `check_value_prebatch_oracle` | `MC_RwTrace_prebatch.cfg` | violation | The oracle returns the pre-block value, as the spec words it. Storage is keyed per tx (line 524), so a correct read in tx 2 of a slot written in tx 1 is reported as an error. |
| `first_read_blind` | `MC_RwTrace_blind.cfg` | violation | `TableSpec`, over one storage slot with the code's `mock_from(&rows)`. A single read of 0 from a slot that holds 1 is accepted: the group's initial value is the read's own `value_prev`. The spec's first-access law (§4.2, §8.5) would report it. |

Why the bounds are enough:
* Three accesses and two transactions cover every short pattern behind the hazards: a
  write then a read in the same group; a write in tx 1 then a read in tx 2, of both
  storage (grouped per tx) and memory (per call); a wrong read followed by a right one;
  a first read of fresh memory.
* The encoder samples cover 0, `2^W - 1`, `2^W` and `2^(2W) - 1`: one below and one at
  each limb boundary. They differ from each other in a single limb, so a dropped or
  duplicated limb shows up as a collision.
* The nested run's three accesses and three call ids cover the nesting hazard: a caller's
  write, a callee's read of fresh memory, then the caller's read after the return. They
  also cover two sibling calls, and a stack slot alongside the memory byte.
* The builder run compares every pair of two operations. Key aliasing, and a wrong row
  behind a reference, each involve at most two operations.
* `target_len` covers auto, panic, the exact boundary and slack.
* Every mutant in `PROJECT.json` is killed under its run's cfg.

## Fairness

None is assumed and no liveness property is stated. `rw.rs` is one synchronous call
chain: `from`, the two checks, `table_assignments`, then `table_assignments_prepad`. There
is no waiting, no retry and no scheduling. Every step is enabled exactly when the one
before it has finished, and the model bounds the trace. So a liveness property would only
restate that straight-line code returns. The one way the pipeline stops early is a panic
(`sanity_panic`, `overflow_panic`), and safety properties cover those.

## Not modelled yet, and the plan

1. **The other targets in the pipeline.** `RwTrace` runs check_value over Storage,
   Account, Memory, Stack, CallContext, TxAccessListAccount and TxRefund. TxLog,
   TxReceipt and TxAccessListAccountStorage go through the builder in `RwBuild`, but not
   through check_value. TxLog and TxReceipt rows are written and never read. Reverted
   calls are not produced: their undo writes are ordinary accesses to rw.rs, so the
   model's writes already cover them.
2. **A faulty producer.** Every run's producer numbers accesses 1..n, so
   `check_rw_counter_sanity` never meets a counter 0, a gap or a duplicate. A property
   that it never fires would only restate its assertion, and none is stated.
3. **Larger instances.** The check_value runs have at most three accesses.
   They leave out Account, and the per-tx run leaves out storage. Adding Account to the
   `check_value` run takes 4 min 52 s (219,940 states), and adding storage to the per-tx
   run takes 4 min 49 s. Both are too close to the five-minute budget. Most of the cost is
   `CheckValue` enumerating every HashMap order.
