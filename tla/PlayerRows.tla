----------------------------- MODULE PlayerRows -----------------------------
(***************************************************************************)
(* A table of players as a sequence of rows with a `name', the primary     *)
(* key: finding a row, writing one and deleting one, the way the Realm     *)
(* table of PlayerObjects does it. A row holds whatever else the caller    *)
(* keeps in it.                                                            *)
(***************************************************************************)
EXTENDS Integers, Sequences

NamesOf(rows) == {rows[i].name : i \in DOMAIN rows}

RowOf(rows, n) == CHOOSE i \in DOMAIN rows : rows[i].name = n

(* Mutant of PutRow: the primary key is not looked up.                     *)
PutRowWithoutLookup(rows, r) == Append(rows, r)

(* Object::create: the row found by its primary key is written where it    *)
(* is, a new one goes to the end.                                          *)
PutRow(rows, r) ==
  IF r.name \in NamesOf(rows)
  THEN [rows EXCEPT ![RowOf(rows, r.name)] = r]
  ELSE Append(rows, r)

(* Mutant of MoveLastOver: the gap is not filled.                          *)
DropLast(rows, i) == SubSeq(rows, 1, Len(rows) - 1)

(* Row::move_last_over: the last row takes the place of the deleted one.   *)
MoveLastOver(rows, i) ==
  [j \in 1 .. Len(rows) - 1 |-> IF j = i THEN rows[Len(rows)] ELSE rows[j]]

DropRow(rows, n) == MoveLastOver(rows, RowOf(rows, n))

(* `name' is a primary key. *)
NamesUnique(rows) ==
  \A i, j \in DOMAIN rows : rows[i].name = rows[j].name => i = j
=============================================================================
