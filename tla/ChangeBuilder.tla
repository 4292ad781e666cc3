---------------------------- MODULE ChangeBuilder ---------------------------
(***************************************************************************)
(* CollectionChangeBuilder of the ObjectStore: what is done to a list or a *)
(* table becomes a change set, and two change sets become one. The changes *)
(* of each column, which are kept like `modifications', are left out, and  *)
(* so are swap and subsume, which the ObjectStore does to no table.        *)
(***************************************************************************)
EXTENDS IndexSet, SequencesExt, TLC

NoChanges ==
  [ deletions     |-> {},      \* of the old collection
    insertions    |-> {},      \* of the new one
    modifications |-> {},      \* of the new one, also insertions
    moves         |-> << >>,
    mapping       |-> << >> ]  \* m_move_mapping: from new to old indices

Empty(c) ==
  c.deletions = {} /\ c.insertions = {} /\ c.modifications = {} /\ c.moves = << >>

Move(from, to) == [from |-> from, to |-> to]

(* The old index of a row that is not inserted. *)
Source(c, index) == shift(c.deletions, unshift(c.insertions, index))

(* Moves to other places. *)
MovedTo(moves, Place(_)) == [k \in DOMAIN moves |-> [moves[k] EXCEPT !.to = Place(@)]]

-----------------------------------------------------------------------------
(* Lists and tables. *)

modify(c, index) == [c EXCEPT !.modifications = @ \cup {index}]

(* The rows of a table are added at its end, beyond all in the mapping.    *)
insert(c, index) ==
  LET Place(to) == IF to >= index THEN to + 1 ELSE to
  IN  [c EXCEPT !.modifications = shift_for_insert_at(@, {index}),
                !.insertions = insert_at(@, {index}),
                !.moves = MovedTo(@, Place)]

erase(c, index) ==
  LET Place(to) == IF to > index THEN to - 1 ELSE to
      there == {k \in 0 .. Len(c.moves) - 1 : c.moves[k + 1].to = index}
  IN  [c EXCEPT !.modifications = erase_at(@, {index}),
                !.insertions = erase_at(@, {index}),
                !.deletions = IF index \in c.insertions
                              THEN @ ELSE @ \cup {Source(c, index)},
                !.moves = MovedTo(Without(@, there), Place)]

(* A table is cleared without its size: old_size is the greatest number.   *)
clear_table_of(old_size) == [NoChanges EXCEPT !.deletions = 0 .. old_size - 1]

clear(c, old_size) ==
  clear_table_of(old_size + Cardinality(c.deletions) - Cardinality(c.insertions))

(* A -> B, B -> C is the move A -> C; a row that has been inserted moves   *)
(* without a move.                                                         *)
move(c, from, to) ==
  LET again == \E k \in DOMAIN c.moves : c.moves[k].to = from
      new   == from \notin c.insertions
      rest  == shift_for_insert_at(erase_at(c.modifications, {from}), {to})
      Moved(i) == CASE i = from           -> to
                    [] i >= to /\ i < from -> i + 1
                    [] i <= to /\ i > from -> i - 1
                    [] OTHER              -> i
      kept  == MovedTo(c.moves, Moved)
  IN  [c EXCEPT
         !.insertions = insert_at(erase_at(@, {from}), {to}),
         !.deletions = IF new THEN @ \cup {Source(c, from)} ELSE @,
         !.moves = IF ~again /\ new THEN Append(kept, Move(Source(c, from), to))
                                    ELSE kept,
         !.modifications = IF from \in @ THEN rest \cup {to} ELSE rest]

-----------------------------------------------------------------------------
(* Tables: rows are removed by moving the last one over them. *)

Unmapped(mapping, i) == Restrict(mapping, DOMAIN mapping \ {i})

Mapped(mapping, i, source) ==
  [k \in DOMAIN mapping \cup {i} |-> IF k = i THEN source ELSE mapping[k]]

Remapped(mapping, from, to) == Mapped(Unmapped(mapping, from), to, mapping[from])

(* Mutant of removeLast: a row that has been moved there stays known as    *)
(* moved.                                                                  *)
removeLastKeeping(c, row) ==
  [c EXCEPT !.insertions = erase_at(@, {row}),
            !.deletions = IF row \in c.insertions THEN @ ELSE @ \cup {Source(c, row)},
            !.modifications = @ \ {row}]

removeLast(c, row) ==
  [c EXCEPT !.insertions = erase_at(@, {row}),
            !.deletions = IF row \in c.insertions THEN @ ELSE @ \cup {Source(c, row)},
            !.mapping = Unmapped(@, row),
            !.modifications = @ \ {row}]

move_over(c, row, last) ==
  IF row = last THEN removeLast(c, row)
  ELSE LET source == Source(c, last)
           moved  == [c EXCEPT !.insertions = @ \ {last},
                               !.deletions = IF last \in c.insertions THEN @ ELSE @ \cup {source},
                               !.mapping =
                                  IF last \notin c.insertions THEN Mapped(@, row, source)
                                  ELSE IF last \in DOMAIN @ THEN Remapped(@, last, row)
                                  ELSE Unmapped(@, row)]
       IN  [moved EXCEPT !.insertions = @ \cup {row},
                         !.deletions = IF row \in c.insertions THEN @
                                       ELSE @ \cup {Source(moved, row)},
                         !.modifications = IF last \in @ THEN (@ \ {last}) \cup {row}
                                                         ELSE @ \ {row}]

(* Moves by where they are from, each from another index. *)
ByFrom(moves) ==
  LET froms == {m.from : m \in moves}
  IN  [k \in 1 .. Cardinality(froms) |-> CHOOSE m \in moves : count(froms, m.from) = k - 1]

(* The end of a transaction: the moves of a table. *)
parse_complete(c) ==
  LET same == {i \in DOMAIN c.mapping : c.mapping[i] = i}
      real == DOMAIN c.mapping \ same
  IN  [c EXCEPT !.deletions = @ \ same, !.insertions = @ \ same,
                !.moves = ByFrom({Move(c.mapping[i], i) : i \in real}),
                !.mapping = << >>]

-----------------------------------------------------------------------------
(* Merging. *)

(* The moves that other changes have made unnecessary: the row has kept    *)
(* its place among those that stay.                                        *)
CheckMove(c, m) ==
  IF unshift(c.deletions, m.from) # unshift(c.insertions, m.to)
  THEN [c EXCEPT !.moves = Append(@, m)]
  ELSE [c EXCEPT !.deletions = @ \ {m.from}, !.insertions = @ \ {m.to}]

clean_up_stale_moves(c) == FoldLeft(CheckMove, [c EXCEPT !.moves = << >>], c.moves)

(* An old move and the new changes: the row is moved again, which takes a  *)
(* new move, is deleted, or is shifted.                                    *)
UpdateMove(c, s, m) ==
  LET again == {k \in DOMAIN s.new.moves : s.new.moves[k].from = m.to}
  IN  IF again # {}
      THEN LET k == CHOOSE i \in again : TRUE
               n == s.new.moves[k]
           IN  [old |-> Append(s.old, Move(m.from, n.to)),
                new |-> [s.new EXCEPT
                  !.moves = Front(ReplaceAt(@, k, Last(@))),
                  !.modifications = IF n.from \in c.modifications THEN @ \cup {n.to} ELSE @]]
      ELSE IF m.to \in s.new.deletions THEN s
      ELSE [s EXCEPT !.old =
              Append(@, Move(m.from, shift(s.new.insertions, unshift(s.new.deletions, m.to))))]

UpdateMoves(c, n) ==
  LET Update(s, m) == UpdateMove(c, s, m)
  IN  FoldLeft(Update, [old |-> << >>, new |-> n], c.moves)

(* The moves of the new changes, but for those of what was inserted.       *)
NewMoves(c, new) ==
  Without(new.moves, {k \in 0 .. Len(new.moves) - 1 : new.moves[k + 1].from \in c.insertions})

(* Both, of which some moves may be stale now. *)
Both(c, n) ==
  LET updated == UpdateMoves(c, n)
      moves   == NewMoves(c, updated.new)
  IN  [c EXCEPT
         !.moves = updated.old \o
            [k \in DOMAIN moves |-> [moves[k] EXCEPT !.from = Source(c, @)]],
         !.deletions = add_shifted_by(@, c.insertions, n.deletions),
         !.insertions = insert_at(erase_at(@, n.deletions), n.insertions),
         !.modifications =
            shift_for_insert_at(erase_at(@, n.deletions), n.insertions)
              \cup updated.new.modifications
              \cup {m.to : m \in {x \in ToSet(moves) : x.from \in c.modifications}}]

merge(c, n) ==
  IF Empty(n) THEN c
  ELSE IF Empty(c) THEN n
  ELSE clean_up_stale_moves(Both(c, n))

(* What a callback is given: an entry that is inserted is not modified, in *)
(* the old collection or the new one.                                      *)
finalize(c) ==
  [ deletions         |-> c.deletions,
    insertions        |-> c.insertions,
    modifications     |->
       shift_for_insert_at(erase_at(c.modifications, c.insertions), c.deletions),
    modifications_new |-> c.modifications \ c.insertions,
    moves             |-> c.moves ]
=============================================================================
