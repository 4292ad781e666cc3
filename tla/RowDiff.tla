------------------------------ MODULE RowDiff ------------------------------
(***************************************************************************)
(* CollectionChangeBuilder::calculate: the rows of a query before and now, *)
(* compared. Rows are indices in the table, distinct, counted from 0; both *)
(* sequences of rows are counted from 0 too.                               *)
(***************************************************************************)
EXTENDS ChangeBuilder, Integers

npos == -1

(* The rows that are no longer there: deleted from the table, or not any   *)
(* more what the query finds; and those that were not there before.        *)
Deleted(prev_rows) == {i \in 0 .. Len(prev_rows) - 1 : prev_rows[i + 1] = npos}

Unmatched(prev_rows, next_rows) ==
  {i \in 0 .. Len(prev_rows) - 1 : prev_rows[i + 1] \notin ToSet(next_rows) \cup {npos}}

Arrived(prev_rows, next_rows) ==
  {j \in 0 .. Len(next_rows) - 1 : next_rows[j + 1] \notin ToSet(prev_rows)}

(* A row that is there before and now: its index in the table, its old and *)
(* its new index, and the old one without the rows deleted from the table. *)
RowInfo(prev_rows, next_rows, row) ==
  LET prev == (CHOOSE k \in DOMAIN prev_rows : prev_rows[k] = row) - 1
  IN  [ row_index        |-> row,
        prev_tv_index    |-> prev,
        tv_index         |-> (CHOOSE k \in DOMAIN next_rows : next_rows[k] = row) - 1,
        shifted_tv_index |-> unshift(Deleted(prev_rows), prev) ]

StayingRows(prev_rows, next_rows) ==
  LET stay == Without(next_rows, Arrived(prev_rows, next_rows))
  IN  [k \in DOMAIN stay |-> RowInfo(prev_rows, next_rows, stay[k])]

(* Rows in the order of the table, of which only the candidates may have   *)
(* moved. s.expected is the old place of the next row that has not moved.  *)
CompareUnsorted(s, row, move_candidates) ==
  LET calc_expected == row.tv_index - count(s.c.insertions, row.tv_index)
                         + count(s.removed, row.prev_tv_index)
  IN  IF row.shifted_tv_index = s.expected
      THEN [s EXCEPT !.expected = @ + 1]
      ELSE IF row.row_index \notin move_candidates
      THEN [s EXCEPT !.expected = row.shifted_tv_index + 1]
      ELSE IF row.shifted_tv_index = calc_expected
      THEN [s EXCEPT !.expected = calc_expected + 1]
      ELSE [s EXCEPT !.c.moves = Append(@, Move(row.prev_tv_index, row.tv_index)),
                     !.c.insertions = @ \cup {row.tv_index},
                     !.removed = @ \cup {row.prev_tv_index}]

calculate_moves_unsorted(rows, removed, move_candidates, c) ==
  LET Step(s, row) == CompareUnsorted(s, row, move_candidates)
      end == FoldLeft(Step, [expected |-> 0, c |-> c, removed |-> removed], rows)
  IN  [end.c EXCEPT !.deletions = @ \cup end.removed]

(* IndexSet::count; a first index below 0 has wrapped around.              *)
countBetween(S, first, end) ==
  IF first < 0 THEN 0 ELSE Cardinality({i \in S : first <= i /\ i < end})

Block(i, j, size, modified) == [i |-> i, j |-> j, size |-> size, modified |-> modified]

PlaceIn(rows, row) == (CHOOSE k \in DOMAIN rows : rows[k] = row) - 1

(* Of the block that ends at j, when the last one ended at the row before. *)
length(last, j) == IF last.j + 1 = j THEN last.size + 1 ELSE 1

(* The row at i in a: the block that ends there in both sequences, and the *)
(* best one so far. Of a block found first, the modified rows are counted  *)
(* around its beginning, and only when another one is as long; of one      *)
(* found later up to its end.                                              *)
MatchRow(a, b, modified, begin2, end2, s, i) ==
  LET j    == PlaceIn(b, a[i + 1])
      size == length(s.last, j)
      Here(m) == Block(i - size + 1, j - size + 1, size, m)
      here == countBetween(modified, j - size + 1, j + 1)
      best == IF s.best.modified = npos
              THEN [s.best EXCEPT !.modified =
                      countBetween(modified, s.best.j - size + 1, s.best.j + 1)]
              ELSE s.best
  IN  IF j < begin2 \/ j >= end2 THEN [s EXCEPT !.last = [j |-> npos - 1, size |-> 0]]
      ELSE [last |-> [j |-> j, size |-> size],
            best |-> CASE size > s.best.size -> Here(npos)
                       [] size < s.best.size -> s.best
                       [] OTHER -> IF here < best.modified THEN Here(here) ELSE best]

(* The longest block that a, the rows in their old order, and b, in their  *)
(* new one, have in common in the ranges given.                            *)
find_longest_match(a, b, modified, begin1, end1, begin2, end2) ==
  LET Step(s, i) == MatchRow(a, b, modified, begin2, end2, s, i)
  IN  FoldLeft(Step,
        [best |-> Block(begin1, begin2, 0, 0), last |-> [j |-> npos - 1, size |-> 0]],
        [k \in 1 .. end1 - begin1 |-> begin1 + k - 1]).best

Ranges(a, b) ==
  [begin1 : 0 .. Len(a), end1 : 0 .. Len(a), begin2 : 0 .. Len(b), end2 : 0 .. Len(b)]

(* The blocks that stay, in order: the longest, and those before and after *)
(* it. The end in a is compared with that of the range of b.               *)
find_longest_matches(a, b, modified, first) ==
  LET matches[r \in Ranges(a, b)] ==
        LET m == find_longest_match(a, b, modified, r.begin1, r.end1, r.begin2, r.end2)
        IN  IF m.size = 0 THEN << >>
            ELSE (IF m.i > r.begin1 /\ m.j > r.begin2
                  THEN matches[[r EXCEPT !.end1 = m.i, !.end2 = m.j]] ELSE << >>)
                 \o <<m>>
                 \o (IF m.i + m.size < r.end2 /\ m.j + m.size < r.end2
                     THEN matches[[r EXCEPT !.begin1 = m.i + m.size, !.begin2 = m.j + m.size]]
                     ELSE << >>)
  IN  matches[[begin1 |-> first, end1 |-> Len(a), begin2 |-> first, end2 |-> Len(b)]]

(* What is before the next block, but after the one before, is deleted and *)
(* inserted.                                                               *)
Align(old, rows, s, match) ==
  [i |-> match.i + match.size, j |-> match.j + match.size,
   c |-> [s.c EXCEPT
            !.deletions = @ \cup {old[k + 1].prev_tv_index : k \in s.i .. match.i - 1},
            !.insertions = @ \cup {rows[k + 1].tv_index : k \in s.j .. match.j - 1}]]

AlignAll(old, rows, s, matches) ==
  LET Step(t, match) == Align(old, rows, t, match)
  IN  FoldLeft(Step, s, matches)

ByOldIndex(rows) ==
  LET indices == {row.prev_tv_index : row \in ToSet(rows)}
  IN  [k \in DOMAIN rows |-> CHOOSE row \in ToSet(rows) : count(indices, row.prev_tv_index) = k - 1]

(* Rows in any order: what is not in the blocks that stay, from the first  *)
(* difference on, is deleted and inserted.                                 *)
calculate_moves_sorted(rows, removed, c) ==
  LET old == ByOldIndex(rows)
      a   == [k \in DOMAIN rows |-> old[k].row_index]
      b   == [k \in DOMAIN rows |-> rows[k].row_index]
      differences == {k \in DOMAIN rows : a[k] # b[k]}
      first_difference == (CHOOSE k \in differences : \A l \in differences : k <= l) - 1
      matches == Append(find_longest_matches(a, b, c.modifications, first_difference),
                        Block(Len(a), Len(b), 0, 0))
      aligned == IF differences = {} THEN c
                 ELSE AlignAll(old, rows, [i |-> first_difference, j |-> first_difference, c |-> c],
                               matches).c
  IN  [aligned EXCEPT !.deletions = @ \cup removed]

(* The changes that make next_rows of prev_rows, where deleted rows are    *)
(* npos.                                                                   *)
calculate(prev_rows, next_rows, row_did_change, in_table_order, move_candidates) ==
  LET rows == StayingRows(prev_rows, next_rows)
      removed == Unmatched(prev_rows, next_rows)
      c == [NoChanges EXCEPT
              !.deletions = Deleted(prev_rows),
              !.insertions = Arrived(prev_rows, next_rows),
              !.modifications = {row.tv_index : row \in {r \in ToSet(rows) : r.row_index \in row_did_change}}]
  IN  IF in_table_order THEN calculate_moves_unsorted(rows, removed, move_candidates, c)
                        ELSE calculate_moves_sorted(rows, removed, c)
=============================================================================
