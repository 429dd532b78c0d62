---------------------------- MODULE RwTableSpec ----------------------------
(***************************************************************************)
(* What the RW table of a block promises, without groups, keys or sorting. *)
(* The block's accesses form a log in counter order.  Once the log is     *)
(* complete, one verdict is given on it, and never revised: accepted iff  *)
(* every read returned the value of the last write before it to the same  *)
(* location, or the location's value before the block when there is none. *)
(* Volatile locations (a call's memory) start at zero.                     *)
(***************************************************************************)
EXTENDS Integers, Sequences, FiniteSetsExt

CONSTANTS
  Locs,      \* the locations an access may touch
  Volatile,  \* the locations that start at zero
  Vals,      \* the values a location may hold
  MaxOps     \* bound on the length of the log

ASSUME Volatile \subseteq Locs /\ 0 \in Vals

VARIABLES
  log,      \* the accesses so far, in counter order
  init,     \* the value of every non-volatile location before the block
  verdict   \* "open", then "accepted" or "rejected"

vars == <<log, init, verdict>>

Entry == [loc : Locs, write : BOOLEAN, val : Vals]

InitOf(l) == IF l \in Volatile THEN 0 ELSE init[l]

\* The value location log[i].loc holds just before access i.
ValueBefore(i) ==
  LET writes == {j \in 1..(i - 1) : log[j].loc = log[i].loc /\ log[j].write}
  IN  IF writes = {} THEN InitOf(log[i].loc) ELSE log[Max(writes)].val

Consistent == \A i \in DOMAIN log : log[i].write \/ log[i].val = ValueBefore(i)

Init ==
  /\ log = <<>>
  /\ init \in [Locs \ Volatile -> Vals]
  /\ verdict = "open"

Access(e) ==
  /\ verdict = "open"
  /\ Len(log) < MaxOps
  /\ log' = Append(log, e)
  /\ UNCHANGED <<init, verdict>>

Decide ==
  /\ verdict = "open"
  /\ verdict' = IF Consistent THEN "accepted" ELSE "rejected"
  /\ UNCHANGED <<log, init>>

Next == (\E e \in Entry : Access(e)) \/ Decide

Spec == Init /\ [][Next]_vars
====
