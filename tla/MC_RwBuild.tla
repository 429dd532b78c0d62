----------------------------- MODULE MC_RwBuild -----------------------------
(***************************************************************************)
(* Operations of every target over one address, one storage key, two      *)
(* transactions (= calls) and value 0; every CallContext field, every     *)
(* TxLog and TxReceipt field, log ids 0..1 and TxLog indices filling the  *)
(* index bits.  Two recorded operations give every pair to compare.       *)
(***************************************************************************)
EXTENDS RwBuild

MC_Ids == {1, 2}
RW == {"READ", "WRITE"}
LogIndices == 0..(2^TxLogIndexBits - 1)

MC_Ops ==
  [Start |-> [rwc : {0}],
   TxAccessListAccount |->
     [rwc : {0}, rw : RW, tx_id : MC_Ids, address : {1}, is_warm : BOOLEAN,
      is_warm_prev : BOOLEAN],
   TxAccessListAccountStorage |->
     [rwc : {0}, rw : RW, tx_id : MC_Ids, address : {1}, key : {1}, is_warm : BOOLEAN,
      is_warm_prev : BOOLEAN],
   TxRefund |-> [rwc : {0}, rw : RW, tx_id : MC_Ids, value : {0}, value_prev : {0, 1}],
   Account |->
     [rwc : {0}, rw : RW, address : {1}, field : DOMAIN AccountFieldTag, value : {0},
      value_prev : {0, 1}],
   Storage |->
     [rwc : {0}, rw : RW, tx_id : MC_Ids, address : {1}, key : {1}, value : {0},
      value_prev : {1}, committed_value : {0, 1}],
   CallContext |->
     [rwc : {0}, rw : RW, call_id : {1}, field : DOMAIN CallContextFieldTag, value : {0}],
   Stack |-> [rwc : {0}, rw : RW, call_id : MC_Ids, address : {0, 1}, value : {0}],
   Memory |-> [rwc : {0}, rw : RW, call_id : MC_Ids, address : {0, 1}, value : {0}],
   TxLog |->
     [rwc : {0}, rw : {"WRITE"}, tx_id : {1}, log_id : {0, 1},
      field : DOMAIN TxLogFieldTag, index : LogIndices, value : {0}],
   TxReceipt |->
     [rwc : {0}, rw : RW, tx_id : MC_Ids, field : DOMAIN TxReceiptFieldTag, value : {0}]]
====
