-------------------------- MODULE CollectionChanges -------------------------
(***************************************************************************)
(* What observers of lists and of a query are told.  A table has rows,     *)
(* each with a list.  TransactLogObserver records the changes of the table *)
(* and of the lists observed, following their rows; ListNotifier completes *)
(* the changes of its list, ResultsNotifier compares the rows of its query *)
(* with those it found before; both tell of what has changed beyond links. *)
(***************************************************************************)
EXTENDS RowDiff, Difference, DeepChangeChecker

CONSTANTS Scenarios, \* what is observed, and what there is at first
          MaxRows,   \* in the table, and what clear_table takes for its size
          MaxEntries \* in a list

ASSUME BoundsAssumption == MaxRows \in Nat /\ MaxEntries \in Nat

(* The rows at first are 1, 2, ...; the entries of their lists, and the     *)
(* objects with links, have other names.                                   *)
ASSUME ScenariosAssumption ==
  \A s \in Scenarios :
    LET Objects(S) == \A o \in S : o \in Len(s.contents) + 1 .. s.names
    IN  /\ s.contents \in Seq(Seq(Nat)) /\ Len(s.contents) <= MaxRows
        /\ s.names \in Nat /\ Len(s.contents) <= s.names
        /\ \A row \in DOMAIN s.contents :
             /\ Objects(ToSet(s.contents[row])) /\ Len(s.contents[row]) <= MaxEntries
             /\ \A i, j \in DOMAIN s.contents[row] :
                  s.contents[row][i] = s.contents[row][j] => i = j
        /\ s.lists \in Seq(DOMAIN s.contents)
        /\ s.query = "none" => s.matching = {}
        /\ Objects(DOMAIN s.links)
        /\ \A o \in DOMAIN s.links : s.links[o] \in Seq(Seq(DOMAIN s.links))

VARIABLES
  observed,    \* .lists: by their rows, in the order of their notifiers; .query;
               \* .links: of the objects in the lists, to each other
  table,       \* the rows, each a number of its own
  matching,    \* the rows that match the query
  contents,    \* the entries of each list
  info,        \* m_info->tables[table_ndx], if there is a query,
  lists,       \* m_info.lists: the lists to record and the rows they are at,
  change,      \* ... and the changes of each (m_change)
  modified,    \* rows, and entries, modified since the worker last ran:
  start,       \* the table was this then,
  found,       \* ... and each notifier found this (m_prev_size, m_previous_rows)
  accumulated, \* the changes waiting for its callback,
  shown,       \* ... from this on,
  changed,     \* ... with the modifications they should tell of
  strayed,     \* situations in which the code is known to go wrong
  names,       \* of rows and entries so far
  steps,       \* bound: changes of the table and the lists left,
  touches      \* bound: ... and of the objects in the lists

vars == <<observed, table, matching, contents, info, lists, change, modified, start,
          found, accumulated, shown, changed, strayed, names, steps, touches>>

Query == 0
Lists == ToSet(observed.lists)
Notifiers == Lists \cup {Query}

IndexIn(t, r) == (CHOOSE k \in DOMAIN t : t[k] = r) - 1

(* do_add_required_change_info of the lists that are there *)
Followed(t, order) ==
  LET here == SelectSeq(order, LAMBDA l : l \in ToSet(t))
  IN  [k \in DOMAIN here |-> [list |-> here[k], row_ndx |-> IndexIn(t, here[k])]]

Matching(t, m) == Without(t, {i \in Indices(t) : t[i + 1] \notin m})

(* What the notifiers find: the query these rows, the others their lists.  *)
AllFound(rows) == [n \in Notifiers |-> IF n = Query THEN rows ELSE contents[n]]

(* A scenario: the list of each row, what is observed, the rows that match *)
(* and the links of the objects. An entry is called like the object it is  *)
(* of.                                                                     *)
Begin(s) ==
  /\ observed = [lists |-> s.lists, query |-> s.query, links |-> s.links]
  /\ table = [k \in DOMAIN s.contents |-> k] /\ start = table
  /\ matching = s.matching
  /\ contents = [l \in ToSet(s.lists) |-> s.contents[l]]
  /\ info = NoChanges /\ lists = Followed(table, s.lists)
  /\ change = [l \in Lists |-> NoChanges]
  /\ found = AllFound(Matching(table, matching)) /\ shown = found
  /\ accumulated = [n \in Notifiers |-> NoChanges]
  /\ modified = [n \in Notifiers |-> {}] /\ changed = modified
  /\ strayed = {} /\ names = s.names
  /\ steps = s.steps /\ touches = s.touches

Init == \E s \in Scenarios : Begin(s)

Step == steps > 0 /\ steps' = steps - 1 /\ UNCHANGED touches

-----------------------------------------------------------------------------
(* The table. *)

(* m_active_table records the changes, if somebody needs them. *)
Record(c) == info' = IF observed.query = "none" THEN NoChanges ELSE c

WithModified(row) ==
  [modified EXCEPT ![Query] = IF observed.query = "none" THEN {} ELSE @ \cup {row}]

(* The rows become t, and the lists are looked for at other rows. *)
Rows(t, followed) ==
  /\ Step
  /\ table' = t /\ lists' = followed
  /\ contents' = [l \in Lists |-> IF l \in ToSet(t) THEN contents[l] ELSE << >>]
  /\ strayed' = strayed \cup
       {<<l, "deleted after a change">> :
          l \in {k \in Lists \cap (ToSet(table) \ ToSet(t)) : change[k] # NoChanges}}
  /\ UNCHANGED <<observed, change, start, found, accumulated, shown, changed>>

(* A row is added at the end, and its properties are set. *)
insert_empty_rows(match) ==
  LET row == Len(table)
  IN  /\ row < MaxRows
      /\ Rows(Append(table, names + 1),
              [k \in DOMAIN lists |-> IF lists[k].row_ndx >= row
                                      THEN [lists[k] EXCEPT !.row_ndx = @ + 1] ELSE lists[k]])
      /\ Record(modify(insert(info, row), row))
      /\ matching' = IF match THEN matching \cup {names + 1} ELSE matching
      /\ modified' = WithModified(names + 1)
      /\ names' = names + 1

(* m_info.lists when a row is deleted. The list at it goes and the last    *)
(* one takes its place, which is not looked at again.                      *)
Unfollowed(row, last_row) ==
  LET Look(s, i) ==
        IF i > Len(s) THEN s
        ELSE IF s[i].row_ndx = row THEN Front(ReplaceAt(s, i, Last(s)))
        ELSE IF s[i].row_ndx = last_row THEN [s EXCEPT ![i].row_ndx = row]
        ELSE s
  IN  FoldLeft(Look, lists, [i \in DOMAIN lists |-> i])

(* move_last_over: the last row takes the place of the one deleted. *)
erase_rows(row) ==
  LET last_row == Len(table) - 1
  IN  /\ Rows(Front(ReplaceAt(table, row + 1, Last(table))), Unfollowed(row, last_row))
      /\ Record(move_over(info, row, last_row))
      /\ UNCHANGED <<matching, modified, names>>

clear_table ==
  /\ table # << >>
  /\ Rows(<< >>, << >>)
  /\ Record(clear_table_of(MaxRows))
  /\ UNCHANGED <<matching, modified, names>>

(* A property of a row is set; the row may match the query or not then. *)
mark_dirty(row, match) ==
  LET r == table[row + 1]
  IN  /\ Step
      /\ Record(modify(info, row))
      /\ matching' = IF match THEN matching \cup {r} ELSE matching \ {r}
      /\ modified' = WithModified(r)
      /\ UNCHANGED <<observed, table, contents, lists, change, start, found, accumulated,
                     shown, changed, strayed, names>>

-----------------------------------------------------------------------------
(* The lists. *)

(* The list taken for the one at a row, the last one, if any. *)
find_list(row) ==
  LET there == {k \in DOMAIN lists : lists[k].row_ndx = row}
  IN  {lists[k].list : k \in {k \in there : \A j \in there : j <= k}}

(* select_link_list, then a change of the list: what would be recorded in  *)
(* each, of which that of the list found is.                               *)
Change(l, entries, set, recorded) ==
  LET row    == IndexIn(table, l)
      active == find_list(row)
  IN  /\ Step
      /\ Record(modify(info, row))
      /\ contents' = [contents EXCEPT ![l] = entries]
      /\ change' = [c \in Lists |-> IF c \in active THEN recorded[c] ELSE change[c]]
      /\ modified' = [WithModified(l) EXCEPT ![l] = @ \cup set]
      /\ strayed' = strayed \cup
           {<<c, "changed when lost">> : c \in IF active = {l} THEN {} ELSE active \cup {l}}
      /\ UNCHANGED <<observed, table, matching, lists, start, found, accumulated, shown, changed>>

link_list_insert(l, i) ==
  /\ Len(contents[l]) < MaxEntries
  /\ Change(l, InsertAt(contents[l], i + 1, names + 1), {},
            [c \in Lists |-> insert(change[c], i)])
  /\ names' = names + 1

(* Also link_list_nullify, when the object of the entry is deleted. *)
link_list_erase(l, i) ==
  /\ Change(l, RemoveAt(contents[l], i + 1), {},
            [c \in Lists |-> erase(change[c], i)])
  /\ UNCHANGED names

link_list_move(l, from, to) ==
  /\ from # to
  /\ Change(l, InsertAt(RemoveAt(contents[l], from + 1), to + 1, contents[l][from + 1]), {},
            [c \in Lists |-> move(change[c], from, to)])
  /\ UNCHANGED names

(* An entry gets another object. *)
link_list_set(l, i) ==
  /\ Change(l, contents[l], {contents[l][i + 1]},
            [c \in Lists |-> modify(change[c], i)])
  /\ UNCHANGED names

(* Two entries exchange their objects. *)
link_list_swap(l, i, j) ==
  /\ i < j
  /\ Change(l, contents[l], {contents[l][i + 1], contents[l][j + 1]},
            [c \in Lists |-> modify(modify(change[c], i), j)])
  /\ UNCHANGED names

link_list_clear(l) ==
  /\ contents[l] # << >>
  /\ Change(l, << >>, {},
            [c \in Lists |-> clear(change[c], Len(contents[l]))])
  /\ UNCHANGED names

-----------------------------------------------------------------------------
(* The worker: parse_complete, run of each notifier, add_changes. *)

Parsed(l) ==
  IF \E k \in DOMAIN lists : lists[k].list = l THEN clean_up_stale_moves(change[l])
                                               ELSE change[l]

(* The links of everything there is; a row's are those of its list.        *)
Objects == (DOMAIN observed.links) \cup UNION {ToSet(contents[l]) : l \in Lists}

columns ==
  [o \in ToSet(table) \cup Objects |->
     IF o \in Lists THEN <<contents[o]>>
     ELSE IF o \in DOMAIN observed.links THEN observed.links[o] ELSE << >>]

(* ListNotifier::run, when some objects have been modified; or the list is *)
(* gone, with its row.                                                     *)
runList(l, touched) ==
  LET c     == Parsed(l)
      asked == Without(contents[l], c.modifications)
      did   == row_did_change(columns, touched, asked)
  IN  IF l \in ToSet(table)
      THEN [c EXCEPT !.modifications = @ \cup {i \in Indices(contents[l]) : contents[l][i + 1] \in did}]
      ELSE IF found[l] # << >> THEN [c EXCEPT !.deletions = Indices(found[l])]
      ELSE NoChanges

(* Where a row of the last run is in the table now. *)
NewIndex(c, index) ==
  IF index \in c.deletions
  THEN LET moved == {k \in DOMAIN c.moves : c.moves[k].from = index}
       IN  IF moved = {} THEN npos ELSE c.moves[CHOOSE k \in moved : TRUE].to
  ELSE shift(c.insertions, unshift(c.deletions, index))

calculate_changes(c, next, touched) ==
  LET stay == Matching(next, ToSet(found[Query]))
      did  == row_did_change(columns, At(table, c.modifications) \cup touched, stay)
  IN  calculate([k \in DOMAIN found[Query] |-> NewIndex(c, IndexIn(start, found[Query][k]))],
                [k \in DOMAIN next |-> IndexIn(table, next[k])],
                {IndexIn(table, r) : r \in did},
                observed.query = "in table order", c.insertions)

(* The rows that the query finds, in their order or sorted. Sorted by what *)
(* they link to, they change places for no change of theirs.               *)
Find(touched) ==
  IF info = NoChanges /\ touched = {} THEN {found[Query]}
  ELSE IF observed.query = "none" THEN {<< >>}
  ELSE IF observed.query = "in table order" THEN {Matching(table, matching)}
  ELSE SetToSeqs(matching \cap ToSet(table))

runQuery(next, touched) ==
  IF observed.query = "none" \/ (info = NoChanges /\ touched = {}) THEN NoChanges
  ELSE calculate_changes(parse_complete(info), next, touched)

Run(next, touched) ==
  LET found_now == AllFound(next)
  IN  /\ touched # {} => touches > 0
      /\ accumulated' = [n \in Notifiers |->
           merge(accumulated[n], IF n = Query THEN runQuery(next, touched) ELSE runList(n, touched))]
      /\ found' = found_now /\ start' = table
      /\ info' = NoChanges /\ change' = [l \in Lists |-> NoChanges]
      /\ lists' = Followed(table, observed.lists)
      /\ changed' = [n \in Notifiers |->
           changed[n] \cup modified[n]
             \cup {o \in ToSet(found_now[n]) : HasChanged(columns, touched, o)}]
      /\ modified' = [n \in Notifiers |-> {}]
      /\ touches' = IF touched = {} THEN touches ELSE touches - 1
      /\ UNCHANGED <<observed, table, matching, contents, shown, strayed, names, steps>>

(* A callback is handed finalize(accumulated[n]). *)
Deliver(n) ==
  /\ accumulated[n] # NoChanges
  /\ accumulated' = [accumulated EXCEPT ![n] = NoChanges]
  /\ shown' = [shown EXCEPT ![n] = found[n]]
  /\ changed' = [changed EXCEPT ![n] = {}]
  /\ UNCHANGED <<observed, table, matching, contents, info, lists, change, modified, start,
                 found, strayed, names, steps, touches>>

Next ==
  \/ \E match \in BOOLEAN :
       \/ insert_empty_rows(match)
       \/ \E row \in Indices(table) : observed.query # "none" /\ mark_dirty(row, match)
  \/ \E row \in Indices(table) : erase_rows(row)
  \/ clear_table
  \/ \E l \in Lists \cap ToSet(table) :
       \/ \E i \in 0 .. Len(contents[l]) : link_list_insert(l, i)
       \/ \E i \in Indices(contents[l]) :
            \/ link_list_erase(l, i)
            \/ link_list_set(l, i)
            \/ \E j \in Indices(contents[l]) : link_list_move(l, i, j) \/ link_list_swap(l, i, j)
       \/ link_list_clear(l)
  \/ \E touched \in {{}} \cup {{o} : o \in Objects} :
       \E next \in Find(touched) : Run(next, touched)
  \/ \E n \in Notifiers : Deliver(n)

Spec == Init /\ [][Next]_vars

-----------------------------------------------------------------------------
Strayed(n) == \E s \in strayed : s[1] = n

(* How a list or the table has changed since the worker last ran. *)
Describes(c, old, new, modifications) ==
  /\ Leads(c, old, new)
  /\ MovesAreMoves(c, old, new)
  /\ MovesAreTold(c, old, new)
  /\ At(new, c.modifications) = ToSet(new) \cap modifications

(* What is handed to a callback makes what its notifier has found of what  *)
(* it was shown; "a reported move will always actually be a move"          *)
(* (collection_notifications.hpp).                                         *)
Makes(told, n) == Leads(told, shown[n], found[n]) /\ MovesAreMoves(told, shown[n], found[n])

(* What the observer records of a list, of whatever is done to it in       *)
(* whatever order, makes it of what the worker saw last: entries kept keep *)
(* their order, all that are moved are known as moved, however often, and  *)
(* each modification has followed its entry (transact_log_handler.cpp; the *)
(* builder's assertions ask only that moves are deletions and insertions). *)
(* So does what a callback is handed, merged from several runs. And so     *)
(* does what is recorded of the table, of which the last row takes the     *)
(* place of any that is deleted (move_over, parse_complete).               *)
ListsAndTableAreExact ==
  /\ \A l \in Lists :
       \/ Strayed(l)
       \/ /\ l \in ToSet(table) => Describes(change[l], found[l], contents[l], modified[l])
          /\ LET told == finalize(accumulated[l])
             IN  Makes(told, l) /\ MovesAreTold(told, shown[l], found[l])
  /\ observed.query # "none" => Describes(parse_complete(info), start, table, modified[Query])

(* And for a query: what its rows were and are, compared by the help of    *)
(* what is recorded of the table, makes the ones of the others.            *)
QueryIsExact == Makes(finalize(accumulated[Query]), Query)

(* The entries that were modified, and have been neither moved nor away    *)
(* since, are told, these only, and as the same entries in the old version *)
(* and the new (collection_notifications.hpp: "the same entries, just in   *)
(* different versions of the collection").                                 *)
ModificationsAreTold ==
  \A n \in Notifiers :
    LET told == finalize(accumulated[n])
        kept == (ToSet(shown[n]) \cap ToSet(found[n])) \ At(found[n], told.insertions)
    IN  \/ Strayed(n)
        \/ /\ At(shown[n], told.modifications) = kept \cap changed[n]
           /\ At(found[n], told.modifications_new) = kept \cap changed[n]

(* An observer is called when his list has changed (List.observe: "called  *)
(* again after each write transaction which changes [...] which objects    *)
(* are in the collection"). It does not hold: erase_rows loses a list.     *)
ChangesAreTold ==
  \A l \in Lists : found[l] # shown[l] => ~Empty(accumulated[l])
=============================================================================
