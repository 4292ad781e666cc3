------------------------------ MODULE IndexSet ------------------------------
(***************************************************************************)
(* The IndexSet of the ObjectStore as the set it stands for: its ranges    *)
(* and chunks are left out. Indices count from 0.                          *)
(***************************************************************************)
EXTENDS Naturals, FiniteSets, Sequences

(* count(0, index) *)
count(S, index) == Cardinality({i \in S : i < index})

(* The index that is at `index' when the set is left out, ... *)
shift(S, index) ==
  CHOOSE i \in index .. index + Cardinality(S) : i \notin S /\ i - count(S, i) = index

(* ... and where it is then. *)
unshift(S, index) == index - count(S, index)

add_shifted(S, index) == S \cup {shift(S, index)}

(* Mutant of add_shifted_by: the values are not unshifted.                 *)
add_onlyShifted(S, shifted_by, values) ==
  S \cup {shift(S, v) : v \in values \ shifted_by}

add_shifted_by(S, shifted_by, values) ==
  S \cup {shift(S, unshift(shifted_by, v)) : v \in values \ shifted_by}

shift_for_insert_at(S, positions) == {shift(positions, i) : i \in S}

insert_at(S, positions) == shift_for_insert_at(S, positions) \cup positions

erase_at(S, positions) == {unshift(positions, i) : i \in S \ positions}

(* The entries of a sequence at other indices than these, in order.        *)
Without(s, indices) ==
  [k \in 1 .. unshift(indices, Len(s)) |-> s[shift(indices, k - 1) + 1]]
=============================================================================
