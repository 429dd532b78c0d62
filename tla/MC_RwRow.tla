------------------------------ MODULE MC_RwRow ------------------------------
(***************************************************************************)
(* 8-bit words in 4-bit limbs over Z_67.  The records are one base record *)
(* per variant and every record that differs from it in one field: words  *)
(* take 0, 2^W - 1, 2^W, 2^(2W-1) and 2^(2W) - 1, booleans both values,   *)
(* field tags 1..3, counters, ids, addresses, log ids and indices 0..2.   *)
(* TxLog addresses pack 2-bit indices and field tags and stay below P, as *)
(* a 160-bit address stays below the 254-bit field of the code.           *)
(***************************************************************************)
EXTENDS RwRow

MC_W == 4
MC_P == 67

WordSamples == {0, 2^MC_W - 1, 2^MC_W, 2^(2 * MC_W - 1), 2^(2 * MC_W) - 1}

AltOf(f) ==
  CASE f \in {"value", "value_prev", "storage_key", "committed_value", "byte"} -> WordSamples
    [] f \in {"is_write", "is_warm", "is_warm_prev"} -> BOOLEAN
    [] f = "field_tag" -> 1..3
    [] OTHER -> 0..2

Bases ==
  { [tag |-> "Start", rw_counter |-> 1],
    [tag |-> "Memory", rw_counter |-> 1, is_write |-> FALSE, call_id |-> 1,
     memory_address |-> 0, byte |-> 0],
    [tag |-> "Stack", rw_counter |-> 1, is_write |-> FALSE, call_id |-> 1,
     stack_pointer |-> 0, value |-> 0],
    [tag |-> "Storage", rw_counter |-> 1, is_write |-> FALSE, account_address |-> 1,
     storage_key |-> 0, value |-> 0, value_prev |-> 0, tx_id |-> 1, committed_value |-> 0],
    [tag |-> "Account", rw_counter |-> 1, is_write |-> FALSE, account_address |-> 1,
     field_tag |-> 1, value |-> 0, value_prev |-> 0],
    [tag |-> "CallContext", rw_counter |-> 1, is_write |-> FALSE, call_id |-> 1,
     field_tag |-> 1, value |-> 0],
    [tag |-> "TxAccessListAccount", rw_counter |-> 1, is_write |-> FALSE, tx_id |-> 1,
     account_address |-> 1, is_warm |-> FALSE, is_warm_prev |-> FALSE],
    [tag |-> "TxAccessListAccountStorage", rw_counter |-> 1, is_write |-> FALSE,
     tx_id |-> 1, account_address |-> 1, storage_key |-> 0,
     is_warm |-> FALSE, is_warm_prev |-> FALSE],
    [tag |-> "TxRefund", rw_counter |-> 1, is_write |-> FALSE, tx_id |-> 1,
     value |-> 0, value_prev |-> 0],
    [tag |-> "TxLog", rw_counter |-> 1, is_write |-> TRUE, tx_id |-> 1, log_id |-> 0,
     field_tag |-> 1, index |-> 0, value |-> 0],
    [tag |-> "TxReceipt", rw_counter |-> 1, is_write |-> FALSE, tx_id |-> 1,
     field_tag |-> 1, value |-> 0] }

Variations(b) ==
  {b} \cup UNION {{[b EXCEPT ![f] = x] : x \in AltOf(f)} : f \in DOMAIN b \ {"tag"}}

MC_Records == UNION {Variations(b) : b \in Bases}
====
