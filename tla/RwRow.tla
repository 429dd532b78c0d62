------------------------------- MODULE RwRow -------------------------------
(***************************************************************************)
(* The Row Encoder of src/witness/rw.rs: Rw::table_assignment projects a  *)
(* record into an RwRow of field elements, RwRow::values lists its 14     *)
(* elements and RwRow::rlc folds them into one digest.                     *)
(*                                                                         *)
(* The field is Z_P for a small prime P and a word has 2W bits, split in  *)
(* two W-bit limbs (W = 128 in the code).                                  *)
(***************************************************************************)
EXTENDS RwMap

CONSTANTS
  P,        \* the field modulus, a prime above every limb and small value
  W,        \* limb width in bits
  Records   \* the Rw records that are encoded

ASSUME P \in Nat /\ P > 2^W /\ W \in Nat \ {0}

VARIABLES
  phase,      \* "rw", "cells" (assigned), "row" (unwrapped), "digest" or "unwrap_panic"
  rw,         \* the record being encoded
  cells,      \* its RwRow<Value<F>>
  row,        \* the RwRow<F> unwrap gives
  challenge,  \* the randomness rlc was called with
  digest      \* the rlc result

vars == <<phase, rw, cells, row, challenge, digest>>

LimbBase == 2^W
Field == 0..(P - 1)

\* F::from(x as u64)
F(x) == x % P

\* Mutant: the word is split one bit too low.
WordLimbsShifted(w) == [lo |-> F(w % (LimbBase \div 2)), hi |-> F(w \div (LimbBase \div 2))]
\* word::Word::from(U256): low and high limbs of a 2W-bit word.
WordLimbs(w) == [lo |-> F(w % LimbBase), hi |-> F(w \div LimbBase)]

(***************************************************************************)
(* A halo2 Value<F> is Some(x) when known and None when unknown.           *)
(***************************************************************************)
Known(x) == Some(x)

\* word::Word::into_value: a word of known limbs.
IntoValue(w) == [lo |-> Known(w.lo), hi |-> Known(w.hi)]

(***************************************************************************)
(* Rw::table_assignment: every absent field is encoded as zero, every     *)
(* cell is known.                                                          *)
(***************************************************************************)
TableAssignment(r) ==
  [rw_counter  |-> Known(F(RwCounter(r))),
   is_write    |-> Known(F(BoolWord(IsWrite(r)))),
   tag         |-> Known(F(TargetOrd[Tag(r)])),
   id          |-> Known(F(UnwrapOrDefault(Id(r)))),
   address     |-> Known(F(UnwrapOrDefault(Address(r)))),
   field_tag   |-> Known(F(UnwrapOrDefault(FieldTag(r)))),
   storage_key |-> IntoValue(WordLimbs(UnwrapOrDefault(StorageKey(r)))),
   value       |-> IntoValue(WordLimbs(ValueAssignment(r))),
   value_prev  |-> IntoValue(WordLimbs(UnwrapOrDefault(ValuePrevAssignment(r)))),
   init_val    |-> IntoValue(WordLimbs(UnwrapOrDefault(CommittedValueAssignment(r))))]

(***************************************************************************)
(* RwRow<Value<F>>::unwrap: unwrap_f takes the value out of every cell    *)
(* (inner.unwrap() panics on an unknown one), unwrap_w both limbs of a    *)
(* word, lo then hi.                                                       *)
(***************************************************************************)
CellFields == {"rw_counter", "is_write", "tag", "id", "address", "field_tag"}
WordFields == {"storage_key", "value", "value_prev", "init_val"}

AllKnown(x) ==
  /\ \A f \in CellFields : x[f] # None
  /\ \A f \in WordFields : x[f].lo # None /\ x[f].hi # None

UnwrapF(v) == v[1]
UnwrapW(w) == [lo |-> UnwrapF(w.lo), hi |-> UnwrapF(w.hi)]

Unwrapped(x) ==
  [f \in CellFields \cup WordFields |->
     IF f \in CellFields THEN UnwrapF(x[f]) ELSE UnwrapW(x[f])]

\* Mutant: value_prev's low limb is listed twice.
ValuesPrevLoTwice(x) ==
  <<x.rw_counter, x.is_write, x.tag, x.id, x.address, x.field_tag,
    x.storage_key.lo, x.storage_key.hi, x.value.lo, x.value.hi,
    x.value_prev.lo, x.value_prev.lo, x.init_val.lo, x.init_val.hi>>

\* RwRow::values
Values(x) ==
  <<x.rw_counter, x.is_write, x.tag, x.id, x.address, x.field_tag,
    x.storage_key.lo, x.storage_key.hi, x.value.lo, x.value.hi,
    x.value_prev.lo, x.value_prev.hi, x.init_val.lo, x.init_val.hi>>

\* Mutant: the fold runs over the values without .rev().
RlcForward(x, r) ==
  FoldLeft(LAMBDA acc, v : (acc * r + v) % P, 0, Values(x))

\* RwRow::rlc: values().iter().rev().fold(ZERO, |acc, v| acc * r + v)
Rlc(x, r) ==
  FoldLeft(LAMBDA acc, v : (acc * r + v) % P, 0, Reverse(Values(x)))

(***************************************************************************)
(* The encoder applied to one record, unwrapped, then the digest at one    *)
(* challenge.                                                              *)
(***************************************************************************)
Init ==
  /\ phase = "rw"
  /\ rw \in Records
  /\ cells = TableAssignment(StartRw(0))
  /\ row = [f \in CellFields \cup WordFields |->
             IF f \in CellFields THEN 0 ELSE [lo |-> 0, hi |-> 0]]
  /\ challenge = 0
  /\ digest = 0

Encode ==
  /\ phase = "rw"
  /\ cells' = TableAssignment(rw)
  /\ phase' = "cells"
  /\ UNCHANGED <<rw, row, challenge, digest>>

Unwrap ==
  /\ phase = "cells"
  /\ phase' = IF AllKnown(cells) THEN "row" ELSE "unwrap_panic"
  /\ row' = IF AllKnown(cells) THEN Unwrapped(cells) ELSE row
  /\ UNCHANGED <<rw, cells, challenge, digest>>

Digest(r) ==
  /\ phase = "row"
  /\ challenge' = r
  /\ digest' = Rlc(row, r)
  /\ phase' = "digest"
  /\ UNCHANGED <<rw, cells, row>>

Next == Encode \/ Unwrap \/ \E r \in Field : Digest(r)

Spec == Init /\ [][Next]_vars
-----------------------------------------------------------------------------
Limb == 0..(LimbBase - 1)

TypeOK ==
  /\ phase \in {"rw", "cells", "row", "digest", "unwrap_panic"}
  /\ rw \in Records
  /\ \A f \in WordFields : row[f] \in [lo : Limb, hi : Limb]
  /\ \A f \in CellFields : row[f] \in Field
  /\ challenge \in Field /\ digest \in Field

(***************************************************************************)
(* rlc is the polynomial with the 14 values as coefficients, value i at   *)
(* power i - 1, evaluated at the challenge (the reference is a direct sum *)
(* of powers, independent of the fold).                                    *)
(***************************************************************************)
RECURSIVE PowMod(_, _)
PowMod(b, e) == IF e = 0 THEN 1 ELSE (b * PowMod(b, e - 1)) % P

RlcReference(x, r) ==
  LET v == Values(x)
  IN  SumFunction([i \in 1..14 |-> (v[i] * PowMod(r, i - 1)) % P]) % P

RlcIsPolynomial == phase = "digest" => digest = RlcReference(row, challenge)

(***************************************************************************)
(* Encoding is injective on the records the table can hold: two distinct  *)
(* records never yield the same 14 values, so the digest tells them       *)
(* apart for all but a few challenges.                                     *)
(***************************************************************************)
EncodingInjective ==
  phase \in {"row", "digest"} =>
    \A o \in Records \ {rw} : Values(Unwrapped(TableAssignment(o))) # Values(row)
====
