------------------------------ MODULE RwBuild ------------------------------
(***************************************************************************)
(* The Trace Builder and the lookups of src/witness/rw.rs, for every kind *)
(* of operation.  The trace producer records operations of any target in  *)
(* the OperationContainer, each under the next counter, and remembers     *)
(* where it put it (the OperationRef (target, index)).  RwMap::from turns *)
(* the container into groups of Rw; the execution circuit then fetches    *)
(* the row of each operation through Index<OperationRef> and reads its    *)
(* value with the accessor for that kind of operation.                     *)
(***************************************************************************)
EXTENDS RwMap

CONSTANTS
  Ops,           \* Ops[t]: the operations of target t the producer may record
  MaxOps,        \* bound on the number of recorded operations
  IndexPanic,    \* model value: a lookup that panics
  Unreachable,   \* model value: an accessor that hits unreachable!()
  AssertFailed   \* model value: an accessor whose debug_assert_eq! fails

VARIABLES
  phase,      \* "trace" while the producer records, "built" after RwMap::from
  rwc,        \* the next rw_counter
  container,  \* OperationContainer: Target -> Seq(operation)
  rws         \* RwMap.0

vars == <<phase, rwc, container, rws>>

Targets == DOMAIN TargetOrd

(***************************************************************************)
(* Index<(Target, usize)> and Index<OperationRef>: the idx-th (0-based)   *)
(* Rw of a group; a missing group or index panics.                         *)
(***************************************************************************)
RwIndex(m, t, idx) ==
  IF t \in DOMAIN m /\ idx + 1 \in DOMAIN m[t] THEN m[t][idx + 1] ELSE IndexPanic

(***************************************************************************)
(* The value accessors of impl Rw (tx_access_list_value_pair ...           *)
(* memory_value).  A row of another variant hits unreachable!(); an        *)
(* Account row of another field fails the debug_assert_eq!.                *)
(***************************************************************************)
TxAccessListValuePair(r) ==
  IF r.tag \in AccessListTags THEN <<r.is_warm, r.is_warm_prev>> ELSE Unreachable

TxRefundValuePair(r) ==
  IF r.tag = "TxRefund" THEN <<r.value, r.value_prev>> ELSE Unreachable

\* The body shared by account_balance_pair, account_nonce_pair and
\* account_codehash_pair, for the field name f each asserts.
AccountFieldPair(r, f) ==
  CASE r.tag # "Account"                -> Unreachable
    [] r.field_tag # AccountFieldTag[f] -> AssertFailed
    [] OTHER                            -> <<r.value, r.value_prev>>

\* Mutant: account_nonce_pair asserts the Balance field (a copied arm).
AccountNoncePairAssertsBalance(r) == AccountFieldPair(r, "Balance")

AccountBalancePair(r) == AccountFieldPair(r, "Balance")
AccountNoncePair(r) == AccountFieldPair(r, "Nonce")
AccountCodehashPair(r) == AccountFieldPair(r, "CodeHash")

AuxPair(r) ==
  IF r.tag = "Storage" THEN <<r.tx_id, r.committed_value>> ELSE Unreachable

StorageValueAux(r) ==
  IF r.tag = "Storage"
  THEN <<r.value, r.value_prev, r.tx_id, r.committed_value>> ELSE Unreachable

CallContextValue(r) == IF r.tag = "CallContext" THEN r.value ELSE Unreachable
StackValue(r) == IF r.tag = "Stack" THEN r.value ELSE Unreachable
ReceiptValue(r) == IF r.tag = "TxReceipt" THEN r.value ELSE Unreachable
MemoryValue(r) == IF r.tag = "Memory" THEN r.byte ELSE Unreachable

(***************************************************************************)
(* The execution circuit's reads of the row of an operation of target t:  *)
(* pairs <<what the accessor returns, what the operation carried>>.  TxLog *)
(* and Start rows are only written to the table, never read back.         *)
(***************************************************************************)
AccountPairOf(f, r) ==
  CASE f = "Balance" -> AccountBalancePair(r)
    [] f = "Nonce"   -> AccountNoncePair(r)
    [] OTHER         -> AccountCodehashPair(r)

Reads(t, op, r) ==
  CASE t \in AccessListTags -> {<<TxAccessListValuePair(r), <<op.is_warm, op.is_warm_prev>>>>}
    [] t = "TxRefund"    -> {<<TxRefundValuePair(r), <<op.value, op.value_prev>>>>}
    [] t = "Account"     -> {<<AccountPairOf(op.field, r), <<op.value, op.value_prev>>>>}
    [] t = "Storage"     -> {<<AuxPair(r), <<op.tx_id, op.committed_value>>>>,
                             <<StorageValueAux(r),
                               <<op.value, op.value_prev, op.tx_id, op.committed_value>>>>}
    [] t = "CallContext" -> {<<CallContextValue(r), op.value>>}
    [] t = "Stack"       -> {<<StackValue(r), op.value>>}
    [] t = "TxReceipt"   -> {<<ReceiptValue(r), op.value>>}
    [] t = "Memory"      -> {<<MemoryValue(r), op.value>>}
    [] OTHER             -> {}

(***************************************************************************)
(* The producer records an operation of target t under the next counter;  *)
(* its OperationRef is (t, Len(container[t])) before the push.            *)
(***************************************************************************)
Record(t, op) ==
  /\ phase = "trace"
  /\ rwc <= MaxOps
  /\ container' = [container EXCEPT ![t] = Append(@, [op EXCEPT !.rwc = rwc])]
  /\ rwc' = rwc + 1
  /\ UNCHANGED <<phase, rws>>

\* RwMap::from(&container)
Build ==
  /\ phase = "trace"
  /\ rws' = FromContainer(container)
  /\ phase' = "built"
  /\ UNCHANGED <<rwc, container>>

Init ==
  /\ phase = "trace"
  /\ rwc = 1
  /\ container = [t \in Targets |-> <<>>]
  /\ rws = [t \in Targets |-> <<>>]

Next ==
  \/ \E t \in Targets : \E op \in Ops[t] : Record(t, op)
  \/ Build

Spec == Init /\ [][Next]_vars
-----------------------------------------------------------------------------
(***************************************************************************)
(* Properties.                                                             *)
(***************************************************************************)
\* Every group holds records of its own variant, with exactly its fields.
TypeOK ==
  /\ phase \in {"trace", "built"}
  /\ rwc \in 1..(MaxOps + 1)
  /\ DOMAIN container = Targets
  /\ phase = "built" =>
       /\ DOMAIN rws = Targets
       /\ \A t \in Targets : \A i \in DOMAIN rws[t] :
            rws[t][i].tag = t /\ DOMAIN rws[t][i] = RwFields[t] \cup {"tag"}

\* The positions of the container: OperationRef(t, i - 1) for each <<t, i>>.
Positions == UNION {{<<t, i>> : i \in DOMAIN container[t]} : t \in Targets}

\* What an operation addresses: every field but its counter, its direction
\* and the values it reads or writes.
Payload == {"rwc", "rw", "value", "value_prev", "committed_value", "is_warm", "is_warm_prev"}
ResourceOf(p) ==
  LET op == container[p[1]][p[2]]
  IN  <<p[1], [f \in DOMAIN op \ Payload |-> op[f]]>>

(***************************************************************************)
(* The key closure of check_value and the sort (tag, id, address,          *)
(* field_tag, storage_key) tells two operations apart exactly when they   *)
(* address different things.  Key aliasing would merge two resources in  *)
(* check_value and interleave them in the table; a key that depends on    *)
(* more would split one.  This rests on RwMap::from copying every field,  *)
(* the field-tag translations being one-to-one, the projections, and the  *)
(* TxLog address packing of (index, field_tag, log_id) into one address.  *)
(***************************************************************************)
ValueKeySeparatesResources ==
  phase = "built" =>
    \A p, q \in Positions :
      (ResourceOf(p) = ResourceOf(q))
        <=> (ValueKey(rws[p[1]][p[2]]) = ValueKey(rws[q[1]][q[2]]))

(***************************************************************************)
(* Every OperationRef the producer handed out resolves, through Index and *)
(* the accessor the execution circuit uses for that kind of operation, to *)
(* the values the operation carried: no index panic, no unreachable!(),   *)
(* no failed debug_assert, no field swapped on the way.                    *)
(***************************************************************************)
LookupsResolve ==
  phase = "built" =>
    \A p \in Positions :
      LET r == RwIndex(rws, p[1], p[2] - 1)
      IN  /\ r # IndexPanic
          /\ \A read \in Reads(p[1], container[p[1]][p[2]], r) : read[1] = read[2]

\* The orders in which a group's rows could have been inserted.
Permuted(s) == {[i \in DOMAIN s |-> s[p[i]]] : p \in SetToSeqs(DOMAIN s)}

\* Every map with the same groups as m, each in any insertion order.
Shuffles(m) ==
  LET ne == {t \in DOMAIN m : m[t] # <<>>}
  IN  {[t \in DOMAIN m |-> IF t \in ne THEN h[t] ELSE m[t]] :
         h \in {h \in [ne -> UNION {Permuted(m[t]) : t \in ne}] :
                  \A t \in ne : h[t] \in Permuted(m[t])}}

(***************************************************************************)
(* table_assignments is a function of the container's rows alone: every   *)
(* HashMap iteration order of the groups and every insertion order inside *)
(* a group give the same canonical rows.  The flattening order is left to *)
(* the HashMap, so the state circuit and the execution circuit agree on   *)
(* the layout only if the sort key (ending in rw_counter) is total over    *)
(* the rows of a block, two of which may well address the same resource. *)
(***************************************************************************)
CanonicalOrderDeterministic ==
  phase = "built" =>
    \A o \in HashOrders(rws), g \in Shuffles(rws) :
      \A p \in HashOrders(g) : TableAssignments(g, p) = TableAssignments(rws, o)
====
