----------------------------- MODULE MC_RwTrace -----------------------------
(***************************************************************************)
(* One address with one storage slot and the Balance field, one memory    *)
(* byte, values {0, 1}, up to two transactions.  Four accesses suffice for *)
(* a write in one tx followed by a read of the same slot in the next, a   *)
(* wrong read followed by a right one, and a read of fresh memory.        *)
(***************************************************************************)
EXTENDS RwTrace

MC_Addrs == {1}
MC_Slots == {1}
MC_AccountFields == {"Balance"}
MC_NoAccount == {}
MC_MemAddrs == {0}
MC_NoMem == {}
MC_NoSlots == {}
MC_NoFresh == {}
MC_TxLocs == {[kind |-> "TxAccessListAccount", address |-> 1], [kind |-> "TxRefund"]}
MC_CallLocs == {[kind |-> "Stack", address |-> 0], [kind |-> "CallContext", field |-> "CallerId"],
                [kind |-> "CallContext", field |-> "IsSuccess"]}
MC_StackLoc == {[kind |-> "Stack", address |-> 0]}
MC_Vals == {0, 1}
MC_Zero == {0}
MC_TargetLens == 0..(MaxOps + 2)
MC_AutoTarget == {0}
====
