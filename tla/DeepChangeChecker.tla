-------------------------- MODULE DeepChangeChecker -------------------------
(***************************************************************************)
(* DeepChangeChecker: has a row changed, or a row it links to, within some *)
(* steps? What is known not to have changed is remembered from row to row, *)
(* unless the search was cut short.                                        *)
(*                                                                         *)
(* columns[row]: for each link column of a row, the rows it links to.      *)
(***************************************************************************)
EXTENDS SequencesExt, Integers

CONSTANT MaxDepth  \* m_current_path.size()

ASSUME MaxDepthAssumption == MaxDepth \in Nat \ {0}

Path == 0 .. MaxDepth - 1

Unknown ==
  [ found        |-> FALSE,
    not_modified |-> {},                           \* m_not_modified
    path         |-> [depth \in Path |->           \* m_current_path
                        [row |-> 0, col |-> 0, depth_exceeded |-> FALSE]] ]

(* Mutant of Exceeded: only the last row of the path is affected. *)
ExceededLast(s, first, end) == [s EXCEPT !.path[end - 1].depth_exceeded = TRUE]

(* The rows of the path from one depth to another are not to be remembered. *)
Exceeded(s, first, end) ==
  [s EXCEPT !.path = [depth \in Path |->
     IF first <= depth /\ depth < end THEN [@[depth] EXCEPT !.depth_exceeded = TRUE]
                                      ELSE @[depth]]]

Checkers(Rows) ==
  [ found        : BOOLEAN,
    not_modified : SUBSET Rows,
    path         : [Path -> [row : Rows \cup {0}, col : Nat, depth_exceeded : BOOLEAN]] ]

(* A column that is being followed further up is not followed again. What  *)
(* `deeper' makes of a row and a checker is found one step further.        *)
check_column(columns, deeper, depth, row, s, col) ==
  LET already_checking == {d \in 0 .. depth - 1 : s.path[d].row = row /\ s.path[d].col = col}
      Object(t, dst) == IF t.found THEN t ELSE deeper[dst, t]
  IN  IF s.found THEN s
      ELSE IF already_checking # {}
      THEN Exceeded(s, CHOOSE d \in already_checking : TRUE, depth)
      ELSE FoldLeft(Object,
             [s EXCEPT !.path[depth] = [row |-> row, col |-> col, depth_exceeded |-> FALSE]],
             columns[row][col])

check_outgoing_links(columns, deeper, depth, row, s) ==
  LET Follow(t, col) == check_column(columns, deeper, depth, row, t, col)
  IN  FoldLeft(Follow, s, [col \in DOMAIN columns[row] |-> col])

check_at(columns, modified, deeper, depth, row, s) ==
  LET linked == check_outgoing_links(columns, deeper, depth, row, s)
  IN  IF depth = MaxDepth THEN Exceeded(s, 0, MaxDepth)
      ELSE IF depth > 0 /\ row \in modified THEN [s EXCEPT !.found = TRUE]
      ELSE IF row \in s.not_modified THEN s
      ELSE IF ~linked.found /\ (depth = 0 \/ ~linked.path[depth - 1].depth_exceeded)
      THEN [linked EXCEPT !.not_modified = @ \cup {row}]
      ELSE linked

check_row(columns, modified, checker, first) ==
  LET check[depth \in 0 .. MaxDepth] ==
        [asked \in (DOMAIN columns) \X Checkers(DOMAIN columns) |->
           check_at(columns, modified, check[depth + 1], depth, asked[1], asked[2])]
  IN  check[0][first, checker]

(* The modification checker, asked for some rows in order: those that have *)
(* changed.                                                                *)
Ask(columns, modified, s, row) ==
  LET checked == IF row \in modified THEN [s.checker EXCEPT !.found = TRUE]
                 ELSE check_row(columns, modified, [s.checker EXCEPT !.found = FALSE], row)
  IN  [ checker |-> checked,
        changed |-> IF checked.found THEN s.changed \cup {row} ELSE s.changed ]

row_did_change(columns, modified, rows) ==
  LET One(s, row) == Ask(columns, modified, s, row)
  IN  IF modified = {} THEN {}
      ELSE FoldLeft(One, [checker |-> Unknown, changed |-> {}], rows).changed

-----------------------------------------------------------------------------
(* What it is to find: a row that has changed less than MaxDepth links     *)
(* away.                                                                   *)
Beyond(columns, rows) ==
  UNION {UNION {ToSet(columns[row][col]) : col \in DOMAIN columns[row]} : row \in rows}

HasChanged(columns, modified, row) ==
  /\ modified # {}
  /\ LET reached[k \in 0 .. MaxDepth - 1] ==
           IF k = 0 THEN {row} ELSE reached[k - 1] \cup Beyond(columns, reached[k - 1])
     IN  reached[MaxDepth - 1] \cap modified # {}
=============================================================================
