------------------------------- MODULE RwMap -------------------------------
(***************************************************************************)
(* The Rw records of src/witness/rw.rs and the pure functions RwMap offers *)
(* over them: field projections, the canonical sort (table_assignments),  *)
(* the value check (check_value), the counter sanity check and the Start  *)
(* pre-padding (padding_len, table_assignments_prepad).                    *)
(*                                                                         *)
(* An Rw is a record whose "tag" names its bus_mapping Target and whose    *)
(* other fields are the fields of the Rust variant (AccountStorage has tag *)
(* "Storage").  Words, bytes and addresses are small naturals.             *)
(***************************************************************************)
EXTENDS Integers, Sequences, FiniteSets, SequencesExt

CONSTANTS
  TxLogIndexBits,     \* bits of a TxLog address below the field tag (32)
  TxLogFieldTagBits   \* bits of a TxLog address between index and log id (16)

ASSUME TxLogIndexBits \in Nat /\ TxLogFieldTagBits \in Nat

(***************************************************************************)
(* Target discriminants; `row.tag() as u64` is the first sort key.         *)
(***************************************************************************)
TargetOrd ==
  [Start |-> 1, Stack |-> 2, Memory |-> 3, Storage |-> 4, Account |-> 5,
   CallContext |-> 6, TxLog |-> 7, TxReceipt |-> 8,
   TxAccessListAccount |-> 9, TxAccessListAccountStorage |-> 10,
   TxRefund |-> 11]

\* Discriminants of the field tag enums of table.rs.
AccountFieldTag == [Nonce |-> 1, Balance |-> 2, CodeHash |-> 3]
TxLogFieldTag == [Address |-> 1, Topic |-> 2, Data |-> 3]
TxReceiptFieldTag == [PostStateOrStatus |-> 1, CumulativeGasUsed |-> 2, LogLength |-> 3]
CallContextFieldTag ==
  [RwCounterEndOfReversion |-> 1, CallerId |-> 2, TxId |-> 3, Depth |-> 4,
   CallerAddress |-> 5, CalleeAddress |-> 6, CallDataOffset |-> 7,
   CallDataLength |-> 8, ReturnDataOffset |-> 9, ReturnDataLength |-> 10,
   Value |-> 11, IsSuccess |-> 12, IsPersistent |-> 13, IsStatic |-> 14,
   LastCalleeId |-> 15, LastCalleeReturnDataOffset |-> 16,
   LastCalleeReturnDataLength |-> 17, IsRoot |-> 18, IsCreate |-> 19,
   CodeHash |-> 20, ProgramCounter |-> 21, StackPointer |-> 22, GasLeft |-> 23,
   MemorySize |-> 24, ReversibleWriteCounter |-> 25]

\* The fields of each variant of enum Rw (the variant itself is "tag").
RwFields ==
  [Start |-> {"rw_counter"},
   TxAccessListAccount |-> {"rw_counter", "is_write", "tx_id", "account_address",
                            "is_warm", "is_warm_prev"},
   TxAccessListAccountStorage |-> {"rw_counter", "is_write", "tx_id", "account_address",
                                   "storage_key", "is_warm", "is_warm_prev"},
   TxRefund |-> {"rw_counter", "is_write", "tx_id", "value", "value_prev"},
   Account |-> {"rw_counter", "is_write", "account_address", "field_tag", "value",
                "value_prev"},
   Storage |-> {"rw_counter", "is_write", "account_address", "storage_key", "value",
                "value_prev", "tx_id", "committed_value"},
   CallContext |-> {"rw_counter", "is_write", "call_id", "field_tag", "value"},
   Stack |-> {"rw_counter", "is_write", "call_id", "stack_pointer", "value"},
   Memory |-> {"rw_counter", "is_write", "call_id", "memory_address", "byte"},
   TxLog |-> {"rw_counter", "is_write", "tx_id", "log_id", "field_tag", "index", "value"},
   TxReceipt |-> {"rw_counter", "is_write", "tx_id", "field_tag", "value"}]

\* util::build_tx_log_address: index + (field_tag << 32) + (log_id << 48).
BuildTxLogAddress(index, fieldTag, logId) ==
  index + fieldTag * 2^TxLogIndexBits
        + logId * 2^(TxLogIndexBits + TxLogFieldTagBits)

\* Option<T>: Some(x) is <<x>>, None is <<>>.
Some(x) == <<x>>
None == <<>>
UnwrapOrDefault(o) == IF o = None THEN 0 ELSE o[1]

StartRw(c) == [tag |-> "Start", rw_counter |-> c]

(***************************************************************************)
(* Field projections of impl Rw; each arm set is the set of variants the  *)
(* Rust match sends to that arm.                                           *)
(***************************************************************************)
RwCounter(r) == r.rw_counter

IsWrite(r) == r.tag # "Start" /\ r.is_write

\* Rw::tag: the Target of the variant, which the record carries.
Tag(r) == r.tag

\* Mutant: the TxRefund arm is missing from the tx_id arm of id().
IdByTxNoRefund == {"Storage", "TxAccessListAccount", "TxAccessListAccountStorage",
                   "TxLog", "TxReceipt"}

IdByTx == {"Storage", "TxAccessListAccount", "TxAccessListAccountStorage",
           "TxRefund", "TxLog", "TxReceipt"}
\* Mutant: the call-context rows lose their call id in the key.
IdByCallNoCallContext == {"Stack", "Memory"}
\* Mutant: memory rows lose their call id in the key.
IdByCallNoMemory == {"CallContext", "Stack"}
IdByCall == {"CallContext", "Stack", "Memory"}
Id(r) ==
  IF r.tag \in IdByTx THEN Some(r.tx_id)
  ELSE IF r.tag \in IdByCall THEN Some(r.call_id)
  ELSE None

AddressByAccount == {"TxAccessListAccount", "TxAccessListAccountStorage",
                     "Account", "Storage"}
Address(r) ==
  CASE r.tag \in AddressByAccount -> Some(r.account_address)
    [] r.tag = "Memory"          -> Some(r.memory_address)
    [] r.tag = "Stack"           -> Some(r.stack_pointer)
    [] r.tag = "TxLog"           -> Some(BuildTxLogAddress(r.index, r.field_tag, r.log_id))
    [] OTHER                     -> None

FieldTag(r) ==
  IF r.tag \in {"Account", "CallContext", "TxReceipt"}
  THEN Some(r.field_tag) ELSE None

StorageKey(r) ==
  IF r.tag \in {"Storage", "TxAccessListAccountStorage"}
  THEN Some(r.storage_key) ELSE None

AccessListTags == {"TxAccessListAccount", "TxAccessListAccountStorage"}

\* A bool as the 0/1 word U256::from(b as u64).
BoolWord(b) == IF b THEN 1 ELSE 0

ValueAssignment(r) ==
  CASE r.tag = "Start"          -> 0
    [] r.tag = "Memory"         -> r.byte
    [] r.tag \in AccessListTags -> BoolWord(r.is_warm)
    [] OTHER                    -> r.value

ValuePrevAssignment(r) ==
  CASE r.tag \in {"Account", "Storage", "TxRefund"} -> Some(r.value_prev)
    [] r.tag \in AccessListTags -> Some(BoolWord(r.is_warm_prev))
    [] OTHER -> None

CommittedValueAssignment(r) ==
  IF r.tag = "Storage" THEN Some(r.committed_value) ELSE None

(***************************************************************************)
(* RwMap::from(&OperationContainer): one Rw per operation, of the variant *)
(* of its target, in the container's order.  An operation is a record of  *)
(* its bus_mapping fields: rwc, rw ("READ"/"WRITE") and the fields of its *)
(* op(); field kinds are names, translated to the table's field tags.     *)
(***************************************************************************)
\* Mutant: the LastCalleeReturnDataLength arm is a copy of the Offset arm.
CallContextFieldTagOfDup(f) ==
  IF f = "LastCalleeReturnDataLength"
  THEN CallContextFieldTag.LastCalleeReturnDataOffset ELSE CallContextFieldTag[f]

\* The match from CallContextField to CallContextFieldTag.
CallContextFieldTagOf(f) == CallContextFieldTag[f]

ToRw(t, op) ==
  LET w == op.rw = "WRITE" IN
  CASE t = "Start" -> StartRw(op.rwc)
    [] t \in AccessListTags ->
         [tag |-> t, rw_counter |-> op.rwc, is_write |-> w, tx_id |-> op.tx_id,
          account_address |-> op.address, is_warm |-> op.is_warm,
          is_warm_prev |-> op.is_warm_prev]
         @@ (IF t = "TxAccessListAccountStorage" THEN [storage_key |-> op.key] ELSE <<>>)
    [] t = "TxRefund" ->
         [tag |-> t, rw_counter |-> op.rwc, is_write |-> w, tx_id |-> op.tx_id,
          value |-> op.value, value_prev |-> op.value_prev]
    [] t = "Account" ->
         [tag |-> t, rw_counter |-> op.rwc, is_write |-> w,
          account_address |-> op.address, field_tag |-> AccountFieldTag[op.field],
          value |-> op.value, value_prev |-> op.value_prev]
    [] t = "Storage" ->
         [tag |-> t, rw_counter |-> op.rwc, is_write |-> w,
          account_address |-> op.address, storage_key |-> op.key,
          value |-> op.value, value_prev |-> op.value_prev,
          tx_id |-> op.tx_id, committed_value |-> op.committed_value]
    [] t = "CallContext" ->
         [tag |-> t, rw_counter |-> op.rwc, is_write |-> w, call_id |-> op.call_id,
          field_tag |-> CallContextFieldTagOf(op.field), value |-> op.value]
    [] t = "Stack" ->
         [tag |-> t, rw_counter |-> op.rwc, is_write |-> w, call_id |-> op.call_id,
          stack_pointer |-> op.address, value |-> op.value]
    [] t = "Memory" ->
         \* the le bytes [..8] of a 64-bit MemoryAddress: the address itself
         [tag |-> t, rw_counter |-> op.rwc, is_write |-> w, call_id |-> op.call_id,
          memory_address |-> op.address, byte |-> op.value]
    [] t = "TxLog" ->
         [tag |-> t, rw_counter |-> op.rwc, is_write |-> w, tx_id |-> op.tx_id,
          log_id |-> op.log_id, field_tag |-> TxLogFieldTag[op.field],
          index |-> op.index, value |-> op.value]
    [] t = "TxReceipt" ->
         [tag |-> t, rw_counter |-> op.rwc, is_write |-> w, tx_id |-> op.tx_id,
          field_tag |-> TxReceiptFieldTag[op.field], value |-> op.value]

\* Mutant: the TxAccessListAccountStorage group is built with the arm of
\* TxAccessListAccount.
FromContainerAccessListArm(c) ==
  [t \in DOMAIN c |->
     [i \in DOMAIN c[t] |->
        ToRw(IF t = "TxAccessListAccountStorage" THEN "TxAccessListAccount" ELSE t,
             c[t][i])]]

FromContainer(c) == [t \in DOMAIN c |-> [i \in DOMAIN c[t] |-> ToRw(t, c[t][i])]]

(***************************************************************************)
(* The resource a row accesses (the key closure of check_value) and the   *)
(* composite sort key of table_assignments, which appends the counter.    *)
(***************************************************************************)
\* Mutant: the key closure forgets the id (tx id / call id).
ValueKeyNoId(r) ==
  <<TargetOrd[Tag(r)], UnwrapOrDefault(Address(r)),
    UnwrapOrDefault(FieldTag(r)), UnwrapOrDefault(StorageKey(r))>>

ValueKey(r) ==
  <<TargetOrd[Tag(r)], UnwrapOrDefault(Id(r)), UnwrapOrDefault(Address(r)),
    UnwrapOrDefault(FieldTag(r)), UnwrapOrDefault(StorageKey(r))>>

\* Mutant: the sort key stops at the resource, without the counter.
SortKeyNoCounter(r) == ValueKey(r)

SortKey(r) == ValueKey(r) \o <<RwCounter(r)>>

\* Lexicographic order on equal-length tuples of integers (Rust tuple Ord).
LexLess(a, b) ==
  \E i \in 1..Len(a) : /\ \A j \in 1..(i - 1) : a[j] = b[j]
                       /\ a[i] < b[i]

\* slice::sort_by_key: a stable sort; position k receives the element with
\* k - 1 elements before it (smaller key, or equal key and earlier index).
SortByKey(s) ==
  LET key  == [i \in DOMAIN s |-> SortKey(s[i])]
      rank == [i \in DOMAIN s |->
                 Cardinality({j \in DOMAIN s : \/ LexLess(key[j], key[i])
                                               \/ key[j] = key[i] /\ j < i}) + 1]
  IN  [k \in DOMAIN s |-> s[CHOOSE i \in DOMAIN s : rank[i] = k]]

\* Every order in which a HashMap may iterate its groups; empty groups add
\* nothing to the flattened rows, so only the non-empty ones are ordered.
HashOrders(m) == SetToSeqs({t \in DOMAIN m : m[t] # <<>>})

(***************************************************************************)
(* table_assignments: flatten the groups in the HashMap's iteration order *)
(* `order` (a sequence of the map's tags) and sort by the composite key.  *)
(***************************************************************************)
TableAssignments(rws, order) ==
  SortByKey(FlattenSeq([i \in DOMAIN order |-> rws[order[i]]]))

(***************************************************************************)
(* check_rw_counter_sanity: the non-Start counters, sorted and enumerated *)
(* from 0, satisfy idx = rw_counter - 1, i.e. they are 1..n without a gap *)
(* or a duplicate.  `refs` are the (tag, index) pairs of non-Start rows.   *)
(***************************************************************************)
CounterSanity(rws) ==
  LET refs == UNION {{<<t, i>> : i \in DOMAIN rws[t]} : t \in DOMAIN rws \ {"Start"}}
  IN  {RwCounter(rws[p[1]][p[2]]) : p \in refs} = 1..Cardinality(refs)

(***************************************************************************)
(* check_value over the canonical rows.  A row that is not a write must   *)
(* read the value of the previous row of its resource or, when it is the  *)
(* first row of its resource, the initial value `updates` holds for it    *)
(* (0 when updates has no entry: unwrap_or_default).  The errors are the  *)
(* pairs <<idx, reason>> with the 0-based Rust index; row 0 is never      *)
(* examined because the loop starts at idx = 1.                            *)
(***************************************************************************)
ErrFirst == "first access reads don't change value"
ErrNonFirst == "non-first access reads don't change value"

IsFirst(prev, row) == ValueKey(prev) # ValueKey(row)

InitValue(updates, row) ==
  IF ValueKey(row) \in DOMAIN updates THEN updates[ValueKey(row)] ELSE 0

ExpectedRead(updates, prev, row) ==
  IF IsFirst(prev, row) THEN InitValue(updates, row) ELSE ValueAssignment(prev)

\* Mutant: errors are reported with the 1-based position of the row.
CheckValueErrsOneBased(rows, updates) ==
  { <<i, IF IsFirst(rows[i - 1], rows[i]) THEN ErrFirst ELSE ErrNonFirst>> :
      i \in { j \in 2..Len(rows) :
                /\ ~IsWrite(rows[j])
                /\ ValueAssignment(rows[j]) # ExpectedRead(updates, rows[j - 1], rows[j]) } }

CheckValueErrs(rows, updates) ==
  { <<i - 1, IF IsFirst(rows[i - 1], rows[i]) THEN ErrFirst ELSE ErrNonFirst>> :
      i \in { j \in 2..Len(rows) :
                /\ ~IsWrite(rows[j])
                /\ ValueAssignment(rows[j]) # ExpectedRead(updates, rows[j - 1], rows[j]) } }

(***************************************************************************)
(* padding_len: the number of Start rows to prepend.  It panics (reported *)
(* by PaddingOverflow) when a non-zero target cannot hold the rows.        *)
(***************************************************************************)
PaddingOverflow(rowsLen, targetLen) == targetLen <= rowsLen /\ targetLen # 0

PaddingLen(rowsLen, targetLen) ==
  IF targetLen > rowsLen THEN targetLen - rowsLen ELSE 1

\* Mutant: the leading Start rows are kept.
SkipNothing(rows) == rows

\* skip_while(|rw| matches!(rw, Rw::Start { .. })): drop the leading Start rows.
SkipLeadingStart(rows) ==
  LET k == SelectInSeq(rows, LAMBDA r : r.tag # "Start")
  IN  IF k = 0 THEN <<>> ELSE SubSeq(rows, k, Len(rows))

(***************************************************************************)
(* table_assignments_prepad: Start rows numbered 1..padding_length, then   *)
(* the rows without their leading Start rows; returns <<rows, padding>>.   *)
(***************************************************************************)
TableAssignmentsPrepad(rows, targetLen) ==
  LET real == SkipLeadingStart(rows)
      n    == PaddingLen(Len(real), targetLen)
  IN  <<[c \in 1..n |-> StartRw(c)] \o real, n>>
====
