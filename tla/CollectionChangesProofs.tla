----------------------- MODULE CollectionChangesProofs ----------------------
(***************************************************************************)
(* What observers of lists, and of a query in the order of the table or    *)
(* sorted, are told makes what there is of what they were shown, and names *)
(* just the entries that have changed, for every table, every list and     *)
(* every sequence of operations.                                           *)
(***************************************************************************)
EXTENDS CollectionChanges, ChangeBuilderProofs

-----------------------------------------------------------------------------
(* Of the names. *)
Names == 0 .. names

Entries == {s \in Seq(Nat) : Distinct(s) /\ \A k \in DOMAIN s : s[k] <= names}

NamesInv ==
  /\ names \in Nat
  /\ Lists \subseteq Names \ {Query}
  /\ table \in Seq(Names)
  /\ DOMAIN contents = Lists /\ DOMAIN change = Lists
  /\ DOMAIN found = Notifiers /\ DOMAIN shown = Notifiers /\ DOMAIN accumulated = Notifiers
  /\ DOMAIN modified = Notifiers

(* The objects in the lists are no rows, and link to objects. *)
NamesApart ==
  /\ ToSet(table) \cap Objects = {}
  /\ Objects \subseteq Names
  /\ \A o \in DOMAIN observed.links : observed.links[o] \in Seq(Seq(DOMAIN observed.links))

ListInv(l) ==
  /\ contents[l] \in Entries /\ found[l] \in Entries /\ shown[l] \in Entries
  /\ modified[l] \subseteq Names
  /\ l \notin ToSet(table) => contents[l] = << >>
  /\ ToSet(shown[l]) \cap ToSet(contents[l]) \subseteq ToSet(found[l])

RecordedInv(l) ==
  IF l \in ToSet(table) THEN Records(change[l], found[l], contents[l], modified[l])
                        ELSE change[l] = NoChanges

ToldInv(l) ==
  /\ accumulated[l] \in ChangeSets
  /\ \E M : Tells(accumulated[l], shown[l], found[l], M)

IInv ==
  /\ NamesInv
  /\ NamesApart
  /\ \A l \in Lists : /\ ListInv(l)
                      /\ Strayed(l) \/ (RecordedInv(l) /\ ToldInv(l))

(* Names are only added. *)
LEMMA MoreNames ==
  ASSUME NEW n \in Nat, NEW m \in Nat, n <= m, NEW s \in Seq(Nat), \A k \in DOMAIN s : s[k] <= n
  PROVE  \A k \in DOMAIN s : s[k] <= m
<1>1. \A k \in DOMAIN s : s[k] \in Nat
  BY ElementOfSeq
<1> QED BY <1>1

GoodList(l) == ListInv(l) /\ (Strayed(l) \/ (RecordedInv(l) /\ ToldInv(l)))

(* Nothing has happened to a list. *)
LEMMA ListKept ==
  ASSUME IInv, NEW l \in Lists, names' \in Nat, names <= names', strayed \subseteq strayed',
         contents'[l] = contents[l], change'[l] = change[l], modified'[l] = modified[l],
         found'[l] = found[l], shown'[l] = shown[l], accumulated'[l] = accumulated[l],
         l \in ToSet(table)' <=> l \in ToSet(table)
  PROVE  GoodList(l)'
<1>0. names \in Nat /\ ListInv(l) /\ (Strayed(l) \/ (RecordedInv(l) /\ ToldInv(l)))
  BY DEF IInv, NamesInv
<1>1. Names \subseteq Names'
  BY <1>0 DEF Names
<1>2. Entries \subseteq Entries'
  <2> SUFFICES ASSUME NEW s \in Entries PROVE s \in Entries'
    OBVIOUS
  <2>1. s \in Seq(Nat) /\ Distinct(s) /\ \A k \in DOMAIN s : s[k] <= names
    BY DEF Entries
  <2>2. \A k \in DOMAIN s : s[k] <= names'
    BY <1>0, <2>1, MoreNames
  <2> QED BY <2>1, <2>2 DEF Entries
<1>3. ListInv(l)'
  BY <1>0, <1>1, <1>2 DEF ListInv
<1>4. Strayed(l) => Strayed(l)'
  BY DEF Strayed
<1>5. RecordedInv(l) => RecordedInv(l)'
  BY DEF RecordedInv
<1>6. ToldInv(l) => ToldInv(l)'
  BY DEF ToldInv
<1> QED BY <1>0, <1>3, <1>4, <1>5, <1>6 DEF GoodList

(* Of the list, and of each list. *)
LEMMA IInvParts ==
  /\ IInv => NamesInv /\ NamesApart /\ \A l \in Lists : GoodList(l)
  /\ NamesInv' /\ NamesApart' /\ (\A l \in Lists : GoodList(l)') /\ UNCHANGED observed => IInv'
<1>1. UNCHANGED observed => Lists' = Lists
  BY DEF Lists
<1> QED BY <1>1 DEF IInv, GoodList

(* Rows and objects that are added have names of their own. *)
LEMMA ApartAgain ==
  ASSUME IInv, observed' = observed, names' \in Nat, names <= names',
         NEW T, NEW O, ToSet(table)' \subseteq ToSet(table) \cup T, Objects' \subseteq Objects \cup O,
         T \cup O \subseteq Names' \ Names, T \cap O = {}
  PROVE  NamesApart'
<1>1. /\ ToSet(table) \cap Objects = {} /\ Objects \subseteq Names
      /\ \A o \in DOMAIN observed.links : observed.links[o] \in Seq(Seq(DOMAIN observed.links))
  BY IInvParts DEF NamesApart
<1>2. names \in Nat /\ table \in Seq(Names)
  BY IInvParts DEF NamesInv
<1>3. ToSet(table) \subseteq Names
  BY <1>2, ElementOfSeq DEF ToSet
<1>4. Names \subseteq Names'
  BY <1>2 DEF Names
<1> QED BY <1>1, <1>3, <1>4 DEF NamesApart

(* Neither rows nor objects are added. *)
LEMMA ApartStill ==
  ASSUME IInv, UNCHANGED <<observed, table, contents>>, names' \in Nat, names <= names'
  PROVE  NamesApart'
<1>1. Objects' = Objects
  BY DEF Objects, Lists
<1> DEFINE none == {}
<1>2. /\ ToSet(table)' \subseteq ToSet(table) \cup none /\ Objects' \subseteq Objects \cup none
      /\ none \cup none \subseteq Names' \ Names /\ none \cap none = {} /\ observed' = observed
  BY <1>1
<1> HIDE DEF none
<1> QED BY <1>2, ApartAgain

(* Rows come and go. *)
LEMMA RowsKeep ==
  ASSUME IInv, Rows(table', lists'),
         ToSet(table') \subseteq ToSet(table) \cup {names + 1}, table' \in Seq(Names'),
         names' \in Nat, names <= names',
         DOMAIN modified' = DOMAIN modified, \A l \in Lists : modified'[l] = modified[l]
  PROVE  IInv'
<1>0. /\ names \in Nat /\ Lists \subseteq Names \ {Query}
      /\ DOMAIN modified = Notifiers
      /\ \A l \in Lists : GoodList(l)
  BY IInvParts DEF NamesInv
<1> DEFINE t == table'
<1>1. /\ table' = t
      /\ contents' = [l \in Lists |-> IF l \in ToSet(t) THEN contents[l] ELSE << >>]
      /\ strayed' = strayed \cup
           {<<l, "deleted after a change">> :
              l \in {k \in Lists \cap (ToSet(table) \ ToSet(t)) : change[k] # NoChanges}}
      /\ UNCHANGED <<observed, change, start, found, accumulated, shown, changed>>
  BY DEF Rows
<1>t. ToSet(t) \subseteq ToSet(table) \cup {names + 1} /\ t \in Seq(Names')
  OBVIOUS
<1> HIDE DEF t
<1>2. Lists' = Lists /\ Notifiers' = Notifiers
  BY <1>1 DEF Lists, Notifiers
<1>3. NamesInv'
  <2>1. Names \subseteq Names'
    BY <1>0 DEF Names
  <2>2. NamesInv
    BY IInvParts
  <2>3. DOMAIN modified' = Notifiers /\ DOMAIN contents' = Lists
    BY <1>0, <1>1
  <2>4. table' \in Seq(Names')
    BY <1>1, <1>t
  <2> QED BY <1>1, <1>2, <2>1, <2>2, <2>3, <2>4 DEF NamesInv
<1>4. ASSUME NEW l \in Lists PROVE GoodList(l)'
  <2>0. l # names + 1 /\ l # Query
    BY <1>0 DEF Names
  <2>1. l \in ToSet(t) => l \in ToSet(table)
    BY <1>t, <2>0
  <2>2. modified'[l] = modified[l]
    BY <1>0, <2>0
  <2>3. contents'[l] = IF l \in ToSet(t) THEN contents[l] ELSE << >>
    BY <1>1
  <2>4. strayed \subseteq strayed'
    BY <1>1
  <2>5. CASE l \in ToSet(t) \/ l \notin ToSet(table)
    <3>1. contents'[l] = contents[l]
      BY <1>0, <2>1, <2>3, <2>5 DEF GoodList, ListInv
    <3>2. l \in ToSet(table)' <=> l \in ToSet(table)
      BY <1>1, <2>1, <2>5
    <3> QED BY <1>1, <2>2, <2>4, <3>1, <3>2, ListKept
  <2>6. CASE l \in ToSet(table) /\ l \notin ToSet(t)
    <3>1. GoodList(l)
      BY <1>0
    <3>2. contents'[l] = << >> /\ l \notin ToSet(table)'
      BY <1>1, <2>3, <2>6
    <3>3. ListInv(l)'
      <4>1. Names \subseteq Names'
        BY <1>0 DEF Names
      <4>2. << >> \in Entries' /\ ToSet(<< >>) = {}
        BY DEF Entries, Distinct, ToSet
      <4>3. Entries \subseteq Entries'
        <5> SUFFICES ASSUME NEW s \in Entries PROVE s \in Entries'
          OBVIOUS
        <5>1. s \in Seq(Nat) /\ Distinct(s) /\ \A k \in DOMAIN s : s[k] <= names
          BY DEF Entries
        <5>2. \A k \in DOMAIN s : s[k] <= names'
          BY <1>0, <5>1, MoreNames
        <5> QED BY <5>1, <5>2 DEF Entries
      <4> QED BY <1>1, <2>2, <3>1, <3>2, <4>1, <4>2, <4>3 DEF GoodList, ListInv
    <3>4. CASE change[l] # NoChanges
      <4>1. <<l, "deleted after a change">> \in strayed'
        BY <1>1, <2>6, <3>4
      <4>2. Strayed(l)'
        BY <4>1 DEF Strayed
      <4> QED BY <3>3, <4>2 DEF GoodList
    <3>5. CASE change[l] = NoChanges
      <4>1. RecordedInv(l)'
        BY <1>1, <3>2, <3>5 DEF RecordedInv
      <4>2. Strayed(l) => Strayed(l)'
        BY <2>4 DEF Strayed
      <4>3. ToldInv(l) => ToldInv(l)'
        BY <1>1 DEF ToldInv
      <4> QED BY <3>1, <3>3, <4>1, <4>2, <4>3 DEF GoodList
    <3> QED BY <3>4, <3>5
  <2> QED BY <2>5, <2>6
<1>5. NamesApart'
  <2> DEFINE T == ToSet(t) \ Names
             none == {}
  <2>1. ToSet(t) \subseteq ToSet(table) \cup T
    <3>1. ToSet(t) \subseteq ToSet(table) \cup {names + 1} /\ names + 1 \notin Names
      BY <1>0, <1>t DEF Names
    <3> QED BY <3>1
  <2>2. ToSet(t) \subseteq Names'
    BY <1>t, ElementOfSeq DEF ToSet
  <2>3. \A l \in Lists : ToSet(contents'[l]) \subseteq ToSet(contents[l])
    <3>1. ToSet(<< >>) = {}
      BY DEF ToSet
    <3> QED BY <1>1, <3>1
  <2>4. Objects' \subseteq Objects
    <3>1. \A x : x \in Objects <=> \/ x \in DOMAIN observed.links
                                   \/ \E k \in Lists : x \in ToSet(contents[k])
      BY DEF Objects
    <3>2. \A x : x \in Objects' <=> \/ x \in DOMAIN observed.links
                                    \/ \E k \in Lists : x \in ToSet(contents'[k])
      BY <1>1, <1>2 DEF Objects
    <3> QED BY <2>3, <3>1, <3>2
  <2>5. /\ ToSet(table)' \subseteq ToSet(table) \cup T /\ Objects' \subseteq Objects \cup none
        /\ T \cup none \subseteq Names' \ Names /\ T \cap none = {} /\ observed' = observed
    BY <1>1, <2>1, <2>2, <2>4
  <2> HIDE DEF T, none
  <2> QED BY <2>5, ApartAgain
<1> QED BY <1>1, <1>3, <1>4, <1>5, IInvParts

(* A row is modified in the table, not in a list. *)
LEMMA QueryOnly ==
  ASSUME IInv, NEW r
  PROVE  /\ DOMAIN WithModified(r) = DOMAIN modified
         /\ \A l \in Lists : WithModified(r)[l] = modified[l]
<1>1. Query \notin Lists
  BY IInvParts DEF NamesInv
<1> QED BY <1>1 DEF WithModified

(* Rows are inserted and erased, and the table is cleared. *)
LEMMA TableActions ==
  ASSUME IInv, \/ \E match \in BOOLEAN : insert_empty_rows(match)
               \/ \E row \in Indices(table) : erase_rows(row)
               \/ clear_table
  PROVE  IInv'
<1>0. names \in Nat /\ table \in Seq(Names)
  BY IInvParts DEF NamesInv
<1>1. ASSUME NEW match \in BOOLEAN, insert_empty_rows(match) PROVE IInv'
  <2>1. /\ Rows(table', lists') /\ table' = Append(table, names + 1) /\ names' = names + 1
        /\ modified' = WithModified(names + 1)
    BY <1>1 DEF insert_empty_rows, Rows
  <2>2. table' \in Seq(Names')
    <3>1. names + 1 \in Names' /\ table \in Seq(Names')
      BY <1>0, <2>1 DEF Names
    <3> QED BY <2>1, <3>1
  <2>3. ToSet(table') \subseteq ToSet(table) \cup {names + 1}
    BY <1>0, <2>1 DEF ToSet
  <2> QED BY <1>0, <2>1, <2>2, <2>3, QueryOnly, RowsKeep
<1>2. ASSUME NEW row \in Indices(table), erase_rows(row) PROVE IInv'
  <2>1. /\ Rows(table', lists') /\ table' = Front(ReplaceAt(table, row + 1, Last(table)))
        /\ names' = names /\ modified' = modified
    BY <1>2 DEF erase_rows, Rows
  <2>2. row + 1 \in DOMAIN table
    BY <1>0 DEF Indices
  <2>3. /\ table' \in Seq(Names)
        /\ \A i \in DOMAIN table' : \E j \in DOMAIN table : table'[i] = table[j]
    BY <1>0, <2>1, <2>2, LastMovedOver
  <2>4. table' \in Seq(Names')
    BY <2>1, <2>3 DEF Names
  <2>5. ToSet(table') \subseteq ToSet(table) \cup {names + 1}
    BY <2>3 DEF ToSet
  <2> QED BY <1>0, <2>1, <2>4, <2>5, RowsKeep
<1>3. ASSUME clear_table PROVE IInv'
  <2>1. /\ Rows(table', lists') /\ table' = << >> /\ names' = names /\ modified' = modified
    BY <1>3 DEF clear_table, Rows
  <2>2. table' \in Seq(Names') /\ ToSet(table') \subseteq ToSet(table) \cup {names + 1}
    BY <2>1 DEF ToSet
  <2> QED BY <1>0, <2>1, <2>2, RowsKeep
<1> QED BY <1>1, <1>2, <1>3

(* A property of a row is set. *)
LEMMA DirtyActions ==
  ASSUME IInv, NEW row \in Indices(table), NEW match \in BOOLEAN, mark_dirty(row, match)
  PROVE  IInv'
<1>1. /\ UNCHANGED <<observed, table, contents, lists, change, start, found, accumulated,
                     shown, changed, strayed, names>>
      /\ modified' = WithModified(table[row + 1])
  BY DEF mark_dirty
<1>2. names \in Nat /\ NamesInv
  BY IInvParts DEF NamesInv
<1>3. Lists' = Lists /\ Notifiers' = Notifiers /\ Names' = Names
  BY <1>1 DEF Lists, Notifiers, Names
<1>4. /\ DOMAIN modified' = DOMAIN modified
      /\ \A l \in Lists : modified'[l] = modified[l]
  BY <1>1, QueryOnly
<1>5. NamesInv'
  BY <1>1, <1>2, <1>3, <1>4 DEF NamesInv
<1>6. ASSUME NEW l \in Lists PROVE GoodList(l)'
  BY <1>1, <1>2, <1>4, ListKept
<1>7. NamesApart'
  BY <1>1, <1>2, ApartStill
<1> QED BY <1>1, <1>5, <1>6, <1>7, IInvParts

(* A list is changed. *)
LEMMA ChangeKeeps ==
  ASSUME IInv, NEW l \in Lists, l \in ToSet(table), NEW entries, NEW set, NEW recorded,
         Change(l, entries, set, recorded),
         names' \in Nat, names <= names',
         entries \in Entries', set \subseteq Names',
         ToSet(entries) \subseteq ToSet(contents[l]) \cup {names + 1},
         Records(change[l], found[l], contents[l], modified[l])
           => Records(recorded[l], found[l], entries, modified[l] \cup set)
  PROVE  IInv'
<1> DEFINE active == find_list(IndexIn(table, l))
<1>0. names \in Nat /\ NamesInv /\ GoodList(l) /\ Lists \subseteq Names \ {Query}
      /\ DOMAIN contents = Lists /\ DOMAIN modified = Notifiers
  BY IInvParts DEF NamesInv
<1>1. /\ contents' = [contents EXCEPT ![l] = entries]
      /\ change' = [c \in Lists |-> IF c \in active THEN recorded[c] ELSE change[c]]
      /\ modified' = [WithModified(l) EXCEPT ![l] = @ \cup set]
      /\ strayed' = strayed \cup
           {<<c, "changed when lost">> : c \in IF active = {l} THEN {} ELSE active \cup {l}}
      /\ UNCHANGED <<observed, table, matching, lists, start, found, accumulated, shown, changed>>
  BY DEF Change
<1> HIDE DEF active
<1>2. Lists' = Lists /\ Notifiers' = Notifiers /\ Names \subseteq Names'
  <2>1. observed' = observed
    BY <1>1
  <2>2. Names \subseteq Names'
    BY <1>0 DEF Names
  <2> QED BY <2>1, <2>2 DEF Lists, Notifiers
<1>3. /\ DOMAIN modified' = Notifiers /\ modified'[l] = modified[l] \cup set
      /\ \A k \in Lists \ {l} : modified'[k] = modified[k]
  <2>1. /\ DOMAIN WithModified(l) = DOMAIN modified
        /\ \A k \in Lists : WithModified(l)[k] = modified[k]
    BY QueryOnly
  <2> HIDE DEF WithModified
  <2>2. l \in Notifiers /\ Lists \subseteq Notifiers
    BY DEF Notifiers
  <2> QED BY <1>0, <1>1, <2>1, <2>2
<1>4. NamesInv'
  <2>1. table' \in Seq(Names')
    <3>1. table \in Seq(Names) /\ table' = table
      BY <1>0, <1>1 DEF NamesInv
    <3>2. table \in Seq(Names')
      BY <1>2, <3>1
    <3> QED BY <3>1, <3>2
  <2> QED BY <1>0, <1>1, <1>2, <1>3, <2>1 DEF NamesInv
<1>5. strayed \subseteq strayed'
  BY <1>1
<1>6. ASSUME NEW k \in Lists, k # l PROVE GoodList(k)'
  <2>1. CASE k \in active
    <3>1. <<k, "changed when lost">> \in strayed'
      BY <1>1, <1>6, <2>1
    <3>2. Strayed(k)'
      BY <3>1 DEF Strayed
    <3>3. ListInv(k)'
      <4>1. GoodList(k)
        BY IInvParts
      <4>2. Entries \subseteq Entries'
        <5> SUFFICES ASSUME NEW s \in Entries PROVE s \in Entries'
          OBVIOUS
        <5>1. s \in Seq(Nat) /\ Distinct(s) /\ \A i \in DOMAIN s : s[i] <= names
          BY DEF Entries
        <5>2. \A i \in DOMAIN s : s[i] <= names'
          BY <1>0, <5>1, MoreNames
        <5> QED BY <5>1, <5>2 DEF Entries
      <4>3. contents'[k] = contents[k] /\ modified'[k] = modified[k]
        BY <1>0, <1>1, <1>3, <1>6
      <4> QED BY <1>1, <1>2, <4>1, <4>2, <4>3 DEF GoodList, ListInv
    <3> QED BY <3>2, <3>3 DEF GoodList
  <2>2. CASE k \notin active
    <3>1. contents'[k] = contents[k] /\ change'[k] = change[k] /\ modified'[k] = modified[k]
      BY <1>0, <1>1, <1>3, <1>6, <2>2
    <3> QED BY <1>1, <1>5, <3>1, ListKept
  <2> QED BY <2>1, <2>2
<1>7. GoodList(l)'
  <2>1. contents'[l] = entries
    BY <1>0, <1>1
  <2>2. ListInv(l) /\ (Strayed(l) \/ (RecordedInv(l) /\ ToldInv(l)))
    BY <1>0 DEF GoodList
  <2>3. ListInv(l)'
    <3>1. Entries \subseteq Entries'
      <4> SUFFICES ASSUME NEW s \in Entries PROVE s \in Entries'
        OBVIOUS
      <4>1. s \in Seq(Nat) /\ Distinct(s) /\ \A i \in DOMAIN s : s[i] <= names
        BY DEF Entries
      <4>2. \A i \in DOMAIN s : s[i] <= names'
        BY <1>0, <4>1, MoreNames
      <4> QED BY <4>1, <4>2 DEF Entries
    <3>2. names + 1 \notin ToSet(shown[l])
      <4>1. shown[l] \in Entries
        BY <2>2 DEF ListInv
      <4>2. \A k \in DOMAIN shown[l] : shown[l][k] # names + 1
        BY <1>0, <4>1 DEF Entries
      <4> QED BY <4>2 DEF ToSet
    <3>3. ToSet(shown[l]) \cap ToSet(entries) \subseteq ToSet(found[l])
      BY <2>2, <3>2 DEF ListInv
    <3> QED BY <1>1, <1>2, <1>3, <2>1, <2>2, <3>1, <3>3 DEF ListInv
  <2>4. CASE active # {l}
    <3>1. <<l, "changed when lost">> \in strayed'
      BY <1>1, <2>4
    <3>2. Strayed(l)'
      BY <3>1 DEF Strayed
    <3> QED BY <2>3, <3>2 DEF GoodList
  <2>5. CASE active = {l}
    <3>1. change'[l] = recorded[l]
      BY <1>1, <2>5
    <3>2. RecordedInv(l) => RecordedInv(l)'
      BY <1>1, <1>3, <2>1, <3>1 DEF RecordedInv
    <3>3. ToldInv(l) => ToldInv(l)'
      BY <1>1 DEF ToldInv
    <3>4. Strayed(l) => Strayed(l)'
      BY <1>5 DEF Strayed
    <3> QED BY <2>2, <2>3, <3>2, <3>3, <3>4 DEF GoodList
  <2> QED BY <2>4, <2>5
<1>8. NamesApart'
  <2> DEFINE O == ToSet(entries) \ Names
             none == {}
  <2>1. ToSet(entries) \subseteq ToSet(contents[l]) \cup O
    <3>1. names + 1 \notin Names
      BY <1>0 DEF Names
    <3> QED BY <3>1
  <2>2. ToSet(entries) \subseteq Names'
    <3>1. entries \in Seq(Nat) /\ \A k \in DOMAIN entries : entries[k] <= names'
      BY DEF Entries
    <3>2. \A k \in DOMAIN entries : entries[k] \in Nat
      BY <3>1, ElementOfSeq
    <3> QED BY <3>1, <3>2 DEF ToSet, Names
  <2>3. \A k \in Lists : contents'[k] = IF k = l THEN entries ELSE contents[k]
    BY <1>0, <1>1
  <2> HIDE DEF O
  <2>4. Objects' \subseteq Objects \cup O
    <3>1. \A x : x \in Objects <=> \/ x \in DOMAIN observed.links
                                   \/ \E k \in Lists : x \in ToSet(contents[k])
      BY DEF Objects
    <3>2. \A x : x \in Objects' <=> \/ x \in DOMAIN observed.links
                                    \/ \E k \in Lists : x \in ToSet(contents'[k])
      BY <1>1, <1>2 DEF Objects
    <3> QED BY <2>1, <2>3, <3>1, <3>2
  <2>5. /\ ToSet(table)' \subseteq ToSet(table) \cup none /\ Objects' \subseteq Objects \cup O
        /\ none \cup O \subseteq Names' \ Names /\ none \cap O = {} /\ observed' = observed
    BY <1>1, <2>2, <2>4 DEF O
  <2> HIDE DEF none
  <2> QED BY <2>5, ApartAgain
<1> QED BY <1>1, <1>4, <1>6, <1>7, <1>8, IInvParts

(* What is known of a list. *)
LEMMA OfAList ==
  ASSUME IInv, NEW l \in Lists
  PROVE  /\ names \in Nat
         /\ contents[l] \in Seq(Nat) /\ Distinct(contents[l])
         /\ \A k \in DOMAIN contents[l] : contents[l][k] \in Nat /\ contents[l][k] <= names
         /\ found[l] \in Seq(Nat) /\ Distinct(found[l])
         /\ \A k \in DOMAIN found[l] : found[l][k] \in Nat /\ found[l][k] <= names
         /\ modified[l] \subseteq Names
<1>1. names \in Nat /\ contents[l] \in Entries /\ found[l] \in Entries /\ modified[l] \subseteq Names
  BY IInvParts DEF NamesInv, GoodList, ListInv
<1>2. /\ \A k \in DOMAIN contents[l] : contents[l][k] \in Nat
      /\ \A k \in DOMAIN found[l] : found[l][k] \in Nat
  BY <1>1, ElementOfSeq DEF Entries
<1> QED BY <1>1, <1>2 DEF Entries

(* Entries by their names. *)
LEMMA EntriesOf ==
  ASSUME NEW s, NEW n, names' \in Nat, n \in Nat, n <= names',
         s \in Seq(Nat), Distinct(s), \A k \in DOMAIN s : s[k] <= n
  PROVE  s \in Entries'
<1>1. \A k \in DOMAIN s : s[k] <= names'
  BY MoreNames
<1> QED BY <1>1 DEF Entries

(* A list with an entry of its own more. *)
LEMMA InsertedEntries ==
  ASSUME NEW E, NEW s \in Seq(E), Distinct(s), NEW i \in 0 .. Len(s), NEW e \in E, e \notin ToSet(s)
  PROVE  LET t == InsertAt(s, i + 1, e)
         IN  /\ t \in Seq(E) /\ Distinct(t)
             /\ \A k \in DOMAIN t : t[k] = e \/ t[k] \in ToSet(s)
<1> DEFINE t == InsertAt(s, i + 1, e)
<1>0. i \in Nat /\ {} \in IndexSets /\ {i} \in IndexSets
  BY NoIndex, OneIndex
<1>1. /\ t \in Seq(E) /\ Len(t) = Len(s) + 1 /\ t[i + 1] = e
      /\ FollowsIndices({}, {i}, s, t)
  BY EntryInserted
<1> HIDE DEF t
<1>2. \A j \in Indices(s) : s[j + 1] \in ToSet(s)
  <2>1. \A j \in Indices(s) : j + 1 \in DOMAIN s
    BY DEF Indices
  <2> QED BY <2>1 DEF ToSet
<1>3. Distinct(t)
  <2>1. \A k, l \in {i} : k = l
    OBVIOUS
  <2>2. {i} \subseteq Indices(t)
    BY <1>1 DEF Indices
  <2>3. \A k \in {i}, j \in Indices(s) \ {} : t[k + 1] # s[j + 1]
    BY <1>1, <1>2
  <2> QED BY <1>0, <1>1, <2>1, <2>2, <2>3, StaysDistinct
<1>4. ASSUME NEW k \in DOMAIN t PROVE t[k] = e \/ t[k] \in ToSet(s)
  <2>1. k - 1 \in Indices(t) /\ (k - 1) + 1 = k
    BY <1>1 DEF Indices
  <2>2. CASE k - 1 = i
    BY <1>1, <2>1, <2>2
  <2>3. CASE k - 1 # i
    <3>1. Before({}, {i}, k - 1) \in Indices(s) /\ s[Before({}, {i}, k - 1) + 1] = t[k]
      BY <1>0, <1>1, <2>1, <2>3, KeptEntries
    <3> QED BY <1>2, <3>1
  <2> QED BY <2>2, <2>3
<1> QED BY <1>1, <1>3, <1>4 DEF t

(* Each operation on a list: what its handler does is what the theorems    *)
(* about CollectionChangeBuilder take.                                     *)
LEMMA InsertAction ==
  ASSUME IInv, NEW l \in Lists \cap ToSet(table), NEW i \in 0 .. Len(contents[l]),
         link_list_insert(l, i)
  PROVE  IInv'
<1> DEFINE e == names + 1
           s == contents[l]
           t == InsertAt(s, i + 1, e)
           recorded == [c \in Lists |-> insert(change[c], i)]
<1>1. Change(l, t, {}, recorded) /\ names' = names + 1
  BY DEF link_list_insert
<1>2. names \in Nat /\ e \in Nat /\ s \in Seq(Nat) /\ Distinct(s) /\ found[l] \in Seq(Nat)
      /\ Distinct(found[l]) /\ modified[l] \subseteq Names
      /\ (\A k \in DOMAIN s : s[k] \in Nat /\ s[k] <= names)
      /\ (\A k \in DOMAIN found[l] : found[l][k] \in Nat /\ found[l][k] <= names)
  BY OfAList
<1>3. e \notin ToSet(s) /\ e \notin ToSet(found[l]) /\ e \notin modified[l]
  BY <1>2 DEF ToSet, Names
<1>4. /\ t \in Seq(Nat) /\ Distinct(t)
      /\ \A k \in DOMAIN t : t[k] = e \/ t[k] \in ToSet(s)
  BY <1>2, <1>3, InsertedEntries
<1> HIDE DEF t
<1>5. \A k \in DOMAIN t : t[k] <= e
  <2>1. \A x \in ToSet(s) : x <= e
    BY <1>2 DEF ToSet
  <2> QED BY <1>2, <1>4, <2>1
<1>6. t \in Entries'
  BY <1>1, <1>2, <1>4, <1>5, EntriesOf
<1>7. ToSet(t) \subseteq ToSet(s) \cup {names + 1}
  BY <1>4 DEF ToSet
<1>8. ASSUME Records(change[l], found[l], s, modified[l])
      PROVE  Records(recorded[l], found[l], t, modified[l] \cup {})
  <2>1. Records(insert(change[l], i), found[l], t, modified[l])
    BY <1>2, <1>3, <1>8, InsertRecords DEF t
  <2>2. recorded[l] = insert(change[l], i) /\ modified[l] \cup {} = modified[l]
    OBVIOUS
  <2> QED BY <2>1, <2>2
<1> HIDE DEF recorded
<1> DEFINE none == {}
<1>9. names' \in Nat /\ names <= names' /\ none \subseteq Names'
  BY <1>1, <1>2
<1>10. l \in Lists /\ l \in ToSet(table)
  OBVIOUS
<1>11. Change(l, t, none, recorded) /\ ToSet(t) \subseteq ToSet(contents[l]) \cup {names + 1}
  BY <1>1, <1>7
<1>12. Records(change[l], found[l], contents[l], modified[l])
         => Records(recorded[l], found[l], t, modified[l] \cup none)
  BY <1>8
<1> HIDE DEF none
<1> QED BY ONLY IInv, <1>6, <1>9, <1>10, <1>11, <1>12, ChangeKeeps

(* Entries that were there stay, or there are new ones where some are inserted. *)
LEMMA OnlyThese ==
  ASSUME NEW E, NEW s \in Seq(E), NEW t \in Seq(E), NEW D \in IndexSets, NEW I \in IndexSets,
         FollowsIndices(D, I, s, t), \A i \in I : t[i + 1] \in ToSet(s)
  PROVE  ToSet(t) \subseteq ToSet(s)
<1>1. \A j \in Indices(s) : s[j + 1] \in ToSet(s)
  <2>1. \A j \in Indices(s) : j + 1 \in DOMAIN s
    BY DEF Indices
  <2> QED BY <2>1 DEF ToSet
<1>2. ASSUME NEW k \in DOMAIN t PROVE t[k] \in ToSet(s)
  <2>1. k - 1 \in Indices(t) /\ (k - 1) + 1 = k
    BY DEF Indices
  <2>2. CASE k - 1 \in I
    BY <2>1, <2>2
  <2>3. CASE k - 1 \notin I
    <3>1. Before(D, I, k - 1) \in Indices(s) /\ s[Before(D, I, k - 1) + 1] = t[k]
      BY <2>1, <2>3, KeptEntries
    <3> QED BY <1>1, <3>1
  <2> QED BY <2>2, <2>3
<1> QED BY <1>2 DEF ToSet

(* Entries that were there before are entries. *)
LEMMA FewerEntries ==
  ASSUME IInv, NEW l \in Lists, NEW t \in Seq(Nat), Distinct(t),
         ToSet(t) \subseteq ToSet(contents[l]), names' = names
  PROVE  t \in Entries'
<1>0. names \in Nat /\ \A k \in DOMAIN contents[l] : contents[l][k] <= names
  BY OfAList
<1>1. names' \in Nat /\ names <= names' /\ names \in Nat
  BY <1>0
<1>2. \A k \in DOMAIN t : t[k] <= names
  <2>1. \A x \in ToSet(contents[l]) : x <= names
    BY <1>0 DEF ToSet
  <2> QED BY <2>1 DEF ToSet
<1> QED BY <1>1, <1>2, EntriesOf

(* A list is changed without a new name. *)
LEMMA SameNames ==
  ASSUME IInv, NEW l \in Lists, NEW t \in Seq(Nat), Distinct(t), l \in ToSet(table),
         ToSet(t) \subseteq ToSet(contents[l]), names' = names,
         NEW set, set \subseteq Names, NEW recorded, Change(l, t, set, recorded),
         Records(change[l], found[l], contents[l], modified[l])
           => Records(recorded[l], found[l], t, modified[l] \cup set)
  PROVE  IInv'
<1>0. names \in Nat
  BY OfAList
<1>1. names' \in Nat /\ names <= names' /\ set \subseteq Names'
  BY <1>0 DEF Names
<1>2. t \in Entries'
  BY FewerEntries
<1>3. ToSet(t) \subseteq ToSet(contents[l]) \cup {names + 1}
  OBVIOUS
<1>4. l \in Lists /\ l \in ToSet(table) /\ Change(l, t, set, recorded)
      /\ (Records(change[l], found[l], contents[l], modified[l])
           => Records(recorded[l], found[l], t, modified[l] \cup set))
  OBVIOUS
<1> QED BY ONLY IInv, <1>1, <1>2, <1>3, <1>4, ChangeKeeps

(* link_list_erase: an entry goes. *)
LEMMA EraseAction ==
  ASSUME IInv, NEW l \in Lists \cap ToSet(table), NEW i \in Indices(contents[l]),
         link_list_erase(l, i)
  PROVE  IInv'
<1> DEFINE s == contents[l]
           t == RemoveAt(s, i + 1)
           recorded == [c \in Lists |-> erase(change[c], i)]
           none == {}
<1>1. Change(l, t, none, recorded) /\ names' = names
  BY DEF link_list_erase
<1>2. s \in Seq(Nat) /\ Distinct(s) /\ found[l] \in Seq(Nat) /\ Distinct(found[l])
  BY OfAList
<1>3. i \in Nat /\ {i} \in IndexSets /\ none \in IndexSets
  BY OneIndex, NoIndex DEF Indices
<1>4. t \in Seq(Nat) /\ FollowsIndices({i}, none, s, t)
  BY <1>2, EntryRemoved
<1>5. Distinct(t)
  <2> HIDE DEF t
  <2>1. (\A x, y \in none : x = y) /\ none \subseteq Indices(t)
        /\ \A x \in none, y \in Indices(s) \ {i} : t[x + 1] # s[y + 1]
    OBVIOUS
  <2> HIDE DEF none
  <2>2. s \in Seq(Nat) /\ t \in Seq(Nat) /\ Distinct(s) /\ none \in IndexSets /\ {i} \in IndexSets
    BY <1>2, <1>3, <1>4
  <2>3. FollowsIndices({i}, none, s, t)
    BY <1>4
  <2> HIDE DEF s
  <2> QED BY ONLY <2>1, <2>2, <2>3, StaysDistinct
<1>6. ToSet(t) \subseteq ToSet(s)
  <2> HIDE DEF t
  <2>1. \A x \in none : t[x + 1] \in ToSet(s)
    OBVIOUS
  <2> HIDE DEF none
  <2> QED BY <1>2, <1>3, <1>4, <2>1, OnlyThese
<1>7. ASSUME Records(change[l], found[l], s, modified[l])
      PROVE  Records(recorded[l], found[l], t, modified[l] \cup none)
  <2>1. Records(erase(change[l], i), found[l], t, modified[l])
    BY <1>2, <1>7, EraseRecords
  <2>2. recorded[l] = erase(change[l], i) /\ modified[l] \cup none = modified[l]
    OBVIOUS
  <2> QED BY <2>1, <2>2
<1>8. none \subseteq Names /\ l \in Lists /\ l \in ToSet(table)
  OBVIOUS
<1> HIDE DEF t, recorded, none
<1> QED BY ONLY IInv, <1>1, <1>4, <1>5, <1>6, <1>7, <1>8, SameNames DEF s

(* A list with an entry at another place. *)
LEMMA MovedEntries ==
  ASSUME NEW E, NEW s \in Seq(E), Distinct(s), NEW from \in Indices(s), NEW to \in Indices(s)
  PROVE  LET t == InsertAt(RemoveAt(s, from + 1), to + 1, s[from + 1])
         IN  t \in Seq(E) /\ Distinct(t) /\ ToSet(t) \subseteq ToSet(s)
<1> DEFINE t == InsertAt(RemoveAt(s, from + 1), to + 1, s[from + 1])
           D == {from}
           I == {to}
<1>0. from \in Nat /\ to \in Nat /\ from + 1 \in DOMAIN s
  BY DEF Indices
<1>1. D \in IndexSets /\ I \in IndexSets
  BY <1>0, OneIndex
<1>2. /\ t \in Seq(E) /\ Len(t) = Len(s) /\ t[to + 1] = s[from + 1]
      /\ FollowsIndices(D, I, s, t)
  BY EntryMoved
<1> HIDE DEF t
<1>3. I \subseteq Indices(t)
  BY <1>2 DEF Indices
<1>4. \A x, y \in I : x = y
  OBVIOUS
<1>5. \A x \in I, y \in Indices(s) \ D : t[x + 1] # s[y + 1]
  <2>1. \A y \in Indices(s) : y + 1 \in DOMAIN s /\ y \in Nat
    BY DEF Indices
  <2>2. \A y \in Indices(s) \ {from} : s[from + 1] # s[y + 1]
    BY <1>0, <2>1 DEF Distinct
  <2> QED BY <1>2, <2>2
<1>6. \A x \in I : t[x + 1] \in ToSet(s)
  BY <1>0, <1>2 DEF ToSet
<1> HIDE DEF D, I
<1>7. Distinct(t)
  BY <1>1, <1>2, <1>3, <1>4, <1>5, StaysDistinct
<1>8. ToSet(t) \subseteq ToSet(s)
  BY <1>1, <1>2, <1>6, OnlyThese
<1> QED BY <1>2, <1>7, <1>8 DEF t

(* link_list_move: an entry is at another place. *)
LEMMA MoveAction ==
  ASSUME IInv, NEW l \in Lists \cap ToSet(table),
         NEW from \in Indices(contents[l]), NEW to \in Indices(contents[l]),
         link_list_move(l, from, to)
  PROVE  IInv'
<1> DEFINE s == contents[l]
           t == InsertAt(RemoveAt(s, from + 1), to + 1, s[from + 1])
           recorded == [c \in Lists |-> move(change[c], from, to)]
           none == {}
<1>1. Change(l, t, none, recorded) /\ names' = names /\ from # to
  BY DEF link_list_move
<1>2. s \in Seq(Nat) /\ Distinct(s) /\ found[l] \in Seq(Nat) /\ Distinct(found[l])
  BY OfAList
<1>3. t \in Seq(Nat) /\ Distinct(t) /\ ToSet(t) \subseteq ToSet(s)
  BY <1>2, MovedEntries
<1>7. ASSUME Records(change[l], found[l], s, modified[l])
      PROVE  Records(recorded[l], found[l], t, modified[l] \cup none)
  <2>1. Records(move(change[l], from, to), found[l], t, modified[l])
    BY <1>2, <1>7, MoveRecords
  <2>2. recorded[l] = move(change[l], from, to) /\ modified[l] \cup none = modified[l]
    OBVIOUS
  <2> QED BY <2>1, <2>2
<1>8. none \subseteq Names /\ l \in Lists /\ l \in ToSet(table)
  OBVIOUS
<1> HIDE DEF t, recorded, none
<1> QED BY ONLY IInv, <1>1, <1>3, <1>7, <1>8, SameNames DEF s

(* link_list_clear: all go. *)
LEMMA ClearAction ==
  ASSUME IInv, NEW l \in Lists \cap ToSet(table), link_list_clear(l)
  PROVE  IInv'
<1> DEFINE s == contents[l]
           t == << >>
           recorded == [c \in Lists |-> clear(change[c], Len(contents[l]))]
           none == {}
<1>1. Change(l, t, none, recorded) /\ names' = names
  BY DEF link_list_clear
<1>2. s \in Seq(Nat) /\ found[l] \in Seq(Nat)
  BY OfAList
<1>3. t \in Seq(Nat) /\ Distinct(t) /\ ToSet(t) \subseteq ToSet(s)
  BY DEF Distinct, ToSet
<1>7. ASSUME Records(change[l], found[l], s, modified[l])
      PROVE  Records(recorded[l], found[l], t, modified[l] \cup none)
  <2>1. Records(clear(change[l], Len(s)), found[l], t, modified[l])
    BY <1>2, <1>7, ClearRecords
  <2>2. recorded[l] = clear(change[l], Len(s)) /\ modified[l] \cup none = modified[l]
    OBVIOUS
  <2> QED BY <2>1, <2>2
<1>8. none \subseteq Names /\ l \in Lists /\ l \in ToSet(table)
  OBVIOUS
<1> HIDE DEF t, recorded, none
<1> QED BY ONLY IInv, <1>1, <1>3, <1>7, <1>8, SameNames DEF s

(* link_list_set: an entry is modified. *)
LEMMA SetAction ==
  ASSUME IInv, NEW l \in Lists \cap ToSet(table), NEW i \in Indices(contents[l]),
         link_list_set(l, i)
  PROVE  IInv'
<1> DEFINE s == contents[l]
           recorded == [c \in Lists |-> modify(change[c], i)]
           set == {s[i + 1]}
<1>1. Change(l, s, set, recorded) /\ names' = names
  BY DEF link_list_set
<1>2. s \in Seq(Nat) /\ Distinct(s) /\ found[l] \in Seq(Nat)
      /\ \A k \in DOMAIN s : s[k] \in Nat /\ s[k] <= names
  BY OfAList
<1>3. i + 1 \in DOMAIN s /\ names \in Nat
  BY <1>2, OfAList DEF Indices
<1>7. ASSUME Records(change[l], found[l], s, modified[l])
      PROVE  Records(recorded[l], found[l], s, modified[l] \cup set)
  <2>1. Records(modify(change[l], i), found[l], s, modified[l] \cup {s[i + 1]})
    BY <1>2, <1>7, ModifyRecords
  <2>2. recorded[l] = modify(change[l], i)
    OBVIOUS
  <2> QED BY <2>1, <2>2
<1>8. set \subseteq Names /\ l \in Lists /\ l \in ToSet(table) /\ ToSet(s) \subseteq ToSet(contents[l])
  BY <1>2, <1>3 DEF Names
<1> HIDE DEF recorded, set
<1> QED BY ONLY IInv, <1>1, <1>2, <1>7, <1>8, SameNames DEF s

(* link_list_swap: two are. *)
LEMMA SwapAction ==
  ASSUME IInv, NEW l \in Lists \cap ToSet(table),
         NEW i \in Indices(contents[l]), NEW j \in Indices(contents[l]), link_list_swap(l, i, j)
  PROVE  IInv'
<1> DEFINE s == contents[l]
           recorded == [c \in Lists |-> modify(modify(change[c], i), j)]
           set == {s[i + 1], s[j + 1]}
<1>1. Change(l, s, set, recorded) /\ names' = names
  BY DEF link_list_swap
<1>2. s \in Seq(Nat) /\ Distinct(s) /\ found[l] \in Seq(Nat)
      /\ \A k \in DOMAIN s : s[k] \in Nat /\ s[k] <= names
  BY OfAList
<1>3. i + 1 \in DOMAIN s /\ j + 1 \in DOMAIN s /\ names \in Nat
  BY <1>2, OfAList DEF Indices
<1>7. ASSUME Records(change[l], found[l], s, modified[l])
      PROVE  Records(recorded[l], found[l], s, modified[l] \cup set)
  <2>1. Records(modify(change[l], i), found[l], s, modified[l] \cup {s[i + 1]})
    BY <1>2, <1>7, ModifyRecords
  <2>2. Records(modify(modify(change[l], i), j), found[l], s, (modified[l] \cup {s[i + 1]}) \cup {s[j + 1]})
    BY <1>2, <2>1, ModifyRecords
  <2>3. recorded[l] = modify(modify(change[l], i), j)
        /\ (modified[l] \cup {s[i + 1]}) \cup {s[j + 1]} = modified[l] \cup set
    OBVIOUS
  <2> QED BY <2>2, <2>3
<1>8. set \subseteq Names /\ l \in Lists /\ l \in ToSet(table) /\ ToSet(s) \subseteq ToSet(contents[l])
  BY <1>2, <1>3 DEF Names
<1> HIDE DEF recorded, set
<1> QED BY ONLY IInv, <1>1, <1>2, <1>7, <1>8, SameNames DEF s

(* No change has no stale moves. *)
LEMMA NothingToCleanUp ==
  clean_up_stale_moves(NoChanges) = NoChanges
<1>1. NoChanges \in ChangeSets
  <2>1. << >> \in Seq({}) /\ {} \cap ToSet(<< >>) = {}
    OBVIOUS
  <2> QED BY <2>1, NothingRecords DEF Records
<1>2. PICK h : /\ h[0] = [NoChanges EXCEPT !.moves = << >>]
               /\ clean_up_stale_moves(NoChanges) = h[Len(NoChanges.moves)]
  BY <1>1, CleanUpSteps
<1>3. Len(NoChanges.moves) = 0 /\ [NoChanges EXCEPT !.moves = << >>] = NoChanges
  BY DEF NoChanges
<1> QED BY <1>2, <1>3

(* Only the modifications are others. *)
LEMMA OtherModifications ==
  ASSUME NEW c \in ChangeSets, NEW S \in IndexSets, NEW E, NEW old \in Seq(E), NEW new \in Seq(E),
         Distinct(new),
         Leads(c, old, new), MovesAreMoves(c, old, new), MovesAreTold(c, old, new)
  PROVE  LET n == [c EXCEPT !.modifications = @ \cup S]
         IN  n \in ChangeSets /\ \E M : Tells(n, old, new, M)
<1> DEFINE n == [c EXCEPT !.modifications = @ \cup S]
           M == {new[i + 1] : i \in n.modifications \cap Indices(new)}
<1>1. c.modifications \cup S \in IndexSets
  BY UnionIsFinite DEF ChangeSets
<1>2. /\ n \in ChangeSets /\ n.deletions = c.deletions /\ n.insertions = c.insertions
      /\ n.moves = c.moves
  BY <1>1 DEF ChangeSets
<1> HIDE DEF n
<1>3. Leads(n, old, new) /\ MovesAreMoves(n, old, new) /\ MovesAreTold(n, old, new)
  BY <1>2 DEF Leads, MovesAreMoves, MovesAreTold
<1>4. FollowsModifications(n, old, new, M)
  <2>1. ASSUME NEW i \in Indices(new) PROVE i \in n.modifications <=> new[i + 1] \in M
    <3>1. ASSUME new[i + 1] \in M PROVE i \in n.modifications
      <4>1. PICK k \in n.modifications \cap Indices(new) : new[i + 1] = new[k + 1]
        BY <3>1
      <4>2. i + 1 \in DOMAIN new /\ k + 1 \in DOMAIN new /\ i \in Int /\ k \in Int
        BY DEF Indices
      <4>3. i + 1 = k + 1
        BY <4>1, <4>2 DEF Distinct
      <4> QED BY <4>1, <4>2, <4>3
    <3> QED BY <3>1
  <2> HIDE DEF M
  <2> QED BY <2>1 DEF FollowsModifications
<1>5. Tells(n, old, new, M)
  BY <1>3, <1>4 DEF Tells
<1> QED BY <1>2, <1>5 DEF n

(* ListNotifier::run: what it makes of the changes recorded, of a list     *)
(* that is there or of one that is gone, leads from what it found before   *)
(* to what there is.                                                       *)
LEMMA ListRuns ==
  ASSUME IInv, NEW l \in Lists, RecordedInv(l), NEW touched
  PROVE  /\ runList(l, touched) \in ChangeSets
         /\ \E M : Tells(runList(l, touched), found[l], contents[l], M)
<1> DEFINE old == found[l]
           new == contents[l]
           c == Parsed(l)
           run == runList(l, touched)
<1>0. /\ old \in Seq(Nat) /\ Distinct(old) /\ new \in Seq(Nat) /\ Distinct(new)
  BY OfAList
<1>1. CASE l \in ToSet(table)
  <2>1. Records(change[l], old, new, modified[l])
    BY <1>1 DEF RecordedInv
  <2>2. /\ change[l] \in ChangeSets /\ Leads(change[l], old, new)
        /\ MovesAreMoves(change[l], old, new) /\ MovesAreTold(change[l], old, new)
    BY <2>1 DEF Records
  <2>3. c \in ChangeSets /\ Leads(c, old, new) /\ MovesAreMoves(c, old, new) /\ MovesAreTold(c, old, new)
    <3> DEFINE d == clean_up_stale_moves(change[l])
    <3>1. d \in ChangeSets /\ Leads(d, old, new) /\ MovesAreMoves(d, old, new) /\ MovesAreTold(d, old, new)
      <4> HIDE DEF old, new
      <4> QED BY <1>0, <2>2, CleanUpKeeps
    <3>2. c = d \/ c = change[l]
      BY DEF Parsed
    <3> HIDE DEF c, d
    <3> QED BY <2>2, <3>1, <3>2
  <2>4. PICK S \in SUBSET Indices(new) : run = [c EXCEPT !.modifications = @ \cup S]
    BY <1>1 DEF runList
  <2>5. S \in IndexSets
    BY <1>0, IndicesOf DEF Indices
  <2> HIDE DEF c, run, old, new
  <2>6. run \in ChangeSets /\ \E M : Tells(run, old, new, M)
    BY <1>0, <2>3, <2>4, <2>5, OtherModifications
  <2> QED BY <2>6 DEF run, old, new
<1>2. CASE l \notin ToSet(table)
  <2>1. change[l] = NoChanges /\ new = << >>
    BY <1>2, IInvParts DEF RecordedInv, GoodList, ListInv
  <2>2. c = NoChanges
    BY <2>1, NothingToCleanUp DEF Parsed
  <2>3. run = IF old # << >> THEN [NoChanges EXCEPT !.deletions = Indices(old)] ELSE NoChanges
    BY <1>2, <2>2 DEF runList
  <2> HIDE DEF run, c
  <2>4. /\ run \in ChangeSets
        /\ Leads(run, old, new) /\ MovesAreMoves(run, old, new) /\ MovesAreTold(run, old, new)
    <3>1. CASE old # << >>
      <4>1. run = [NoChanges EXCEPT !.deletions = Indices(old)]
        BY <2>3, <3>1
      <4> HIDE DEF old, new
      <4> QED BY <1>0, <2>1, <4>1, ToNothing
    <3>2. CASE old = << >>
      <4> DEFINE none == {}
      <4>1. Records(NoChanges, old, old, none)
        <5>1. none \cap ToSet(old) = {}
          OBVIOUS
        <5> HIDE DEF none, old
        <5> QED BY <1>0, <5>1, NothingRecords
      <4> QED BY <2>1, <2>3, <3>2, <4>1 DEF Records
    <3> QED BY <3>1, <3>2
  <2>5. FollowsModifications(run, old, new, {})
    <3>1. Indices(new) = {}
      BY <2>1 DEF Indices
    <3> QED BY <3>1 DEF FollowsModifications
  <2>6. Tells(run, old, new, {})
    BY <2>4, <2>5 DEF Tells
  <2> QED BY <2>4, <2>6 DEF run
<1> QED BY <1>1, <1>2

(* An entry does not return: what is shown still and is there now was      *)
(* there when the worker last ran.                                         *)
LEMMA NotAgain ==
  ASSUME IInv, NEW l \in Lists
  PROVE  NothingReturns(shown[l], found[l], contents[l])
<1>1. /\ shown[l] \in Seq(Nat) /\ found[l] \in Seq(Nat) /\ contents[l] \in Seq(Nat)
      /\ ToSet(shown[l]) \cap ToSet(contents[l]) \subseteq ToSet(found[l])
  BY IInvParts DEF GoodList, ListInv, Entries
<1> SUFFICES ASSUME NEW j \in Indices(shown[l]), NEW i \in Indices(contents[l]),
                    shown[l][j + 1] = contents[l][i + 1]
             PROVE  \E p \in Indices(found[l]) : found[l][p + 1] = contents[l][i + 1]
  BY DEF NothingReturns
<1>2. j + 1 \in DOMAIN shown[l] /\ i + 1 \in DOMAIN contents[l]
  BY <1>1 DEF Indices
<1>3. contents[l][i + 1] \in ToSet(found[l])
  BY <1>1, <1>2 DEF ToSet
<1>4. PICK k \in DOMAIN found[l] : found[l][k] = contents[l][i + 1]
  BY <1>3 DEF ToSet
<1>5. k - 1 \in Indices(found[l]) /\ (k - 1) + 1 = k
  <2> DEFINE mid == found[l]
  <2>1. mid \in Seq(Nat) /\ k \in DOMAIN mid
    BY <1>1, <1>4
  <2> HIDE DEF mid
  <2>2. k - 1 \in Indices(mid) /\ (k - 1) + 1 = k
    BY ONLY <2>1 DEF Indices
  <2> QED BY <2>2 DEF mid
<1> QED BY <1>4, <1>5

(* add_changes: merged with what waits for the callback, it leads from     *)
(* what was shown.                                                         *)
LEMMA MergeRuns ==
  ASSUME IInv, NEW l \in Lists, RecordedInv(l), ToldInv(l), NEW touched
  PROVE  /\ merge(accumulated[l], runList(l, touched)) \in ChangeSets
         /\ \E M : Tells(merge(accumulated[l], runList(l, touched)), shown[l], contents[l], M)
<1> DEFINE old == shown[l]
           mid == found[l]
           new == contents[l]
           a == accumulated[l]
           n == runList(l, touched)
<1>1. /\ old \in Seq(Nat) /\ Distinct(old) /\ mid \in Seq(Nat) /\ Distinct(mid)
      /\ new \in Seq(Nat) /\ Distinct(new)
  BY IInvParts DEF GoodList, ListInv, Entries
<1>2. NothingReturns(old, mid, new)
  BY NotAgain
<1>3. n \in ChangeSets /\ \E M : Tells(n, mid, new, M)
  BY ListRuns
<1>4. a \in ChangeSets /\ \E M : Tells(a, old, mid, M)
  BY DEF ToldInv
<1> HIDE DEF old, mid, new, a, n
<1>5. PICK M1 : Tells(a, old, mid, M1)
  BY <1>4
<1>6. PICK M2 : Tells(n, mid, new, M2)
  BY <1>3
<1>7. merge(a, n) \in ChangeSets /\ Tells(merge(a, n), old, new, M1 \cup M2)
  BY <1>1, <1>2, <1>3, <1>4, <1>5, <1>6, MergeIsExact
<1> QED BY <1>7 DEF old, mid, new, a, n

(* Nothing is recorded of what has not changed. *)
LEMMA NothingSince ==
  ASSUME NEW s \in Seq(Nat)
  PROVE  /\ NoChanges \in ChangeSets
         /\ Records(NoChanges, s, s, {})
         /\ Tells(NoChanges, s, s, {})
<1> DEFINE none == {}
<1>1. Records(NoChanges, s, s, none)
  <2>1. none \cap ToSet(s) = {}
    OBVIOUS
  <2> HIDE DEF none
  <2> QED BY <2>1, NothingRecords
<1>2. FollowsModifications(NoChanges, s, s, none)
  BY <1>1 DEF Records, FollowsModifications
<1>3. Tells(NoChanges, s, s, none)
  BY <1>1, <1>2 DEF Tells, Records
<1> QED BY <1>1, <1>3 DEF Records

(* The worker runs: nothing is recorded, and what it found is what there   *)
(* is.                                                                     *)
LEMMA RunAction ==
  ASSUME IInv, NEW next, NEW touched, Run(next, touched)
  PROVE  IInv'
<1>1. /\ accumulated' = [n \in Notifiers |->
            merge(accumulated[n], IF n = Query THEN runQuery(next, touched) ELSE runList(n, touched))]
      /\ found' = AllFound(next) /\ change' = [l \in Lists |-> NoChanges]
      /\ modified' = [n \in Notifiers |-> {}]
      /\ UNCHANGED <<observed, table, contents, shown, strayed, names>>
  BY DEF Run
<1>2. NamesInv /\ (\A l \in Lists : GoodList(l)) /\ Query \notin Lists
  BY IInvParts DEF NamesInv
<1>3. Lists' = Lists /\ Notifiers' = Notifiers /\ Names' = Names /\ Entries' = Entries
  BY <1>1 DEF Lists, Notifiers, Names, Entries
<1>4. /\ DOMAIN found' = Notifiers /\ \A l \in Lists : found'[l] = contents[l]
  BY <1>1, <1>2 DEF AllFound, Notifiers
<1>5. NamesInv'
  BY <1>1, <1>2, <1>3, <1>4 DEF NamesInv
<1>6. ASSUME NEW l \in Lists PROVE GoodList(l)'
  <2>1. ListInv(l)
    BY <1>2 DEF GoodList
  <2>2. /\ accumulated'[l] = merge(accumulated[l], runList(l, touched))
        /\ change'[l] = NoChanges /\ modified'[l] = {} /\ found'[l] = contents[l]
        /\ contents'[l] = contents[l] /\ shown'[l] = shown[l]
    BY <1>1, <1>2, <1>4 DEF Notifiers
  <2>3. ListInv(l)'
    BY <1>1, <1>3, <2>1, <2>2 DEF ListInv
  <2>4. Strayed(l) => Strayed(l)'
    BY <1>1 DEF Strayed
  <2>5. ASSUME ~ Strayed(l) PROVE RecordedInv(l)' /\ ToldInv(l)'
    <3>1. RecordedInv(l) /\ ToldInv(l)
      BY <1>2, <2>5 DEF GoodList
    <3>2. RecordedInv(l)'
      <4>1. contents[l] \in Seq(Nat)
        BY OfAList
      <4>2. Records(NoChanges, contents[l], contents[l], {})
        BY <4>1, NothingSince
      <4> QED BY <2>2, <4>2 DEF RecordedInv
    <3>3. ToldInv(l)'
      <4>1. /\ merge(accumulated[l], runList(l, touched)) \in ChangeSets
            /\ \E M : Tells(merge(accumulated[l], runList(l, touched)), shown[l], contents[l], M)
        BY <3>1, MergeRuns
      <4> QED BY <2>2, <4>1 DEF ToldInv
    <3> QED BY <3>2, <3>3
  <2> QED BY <2>3, <2>4, <2>5 DEF GoodList
<1>7. NamesApart'
  <2>1. names \in Nat
    BY <1>2 DEF NamesInv
  <2> QED BY <1>1, <2>1, ApartStill
<1> QED BY <1>1, <1>5, <1>6, <1>7, IInvParts

(* A callback is called: nothing waits for it, and what it is shown is     *)
(* what was found.                                                         *)
LEMMA DeliverAction ==
  ASSUME IInv, NEW n \in Notifiers, Deliver(n)
  PROVE  IInv'
<1>1. /\ accumulated' = [accumulated EXCEPT ![n] = NoChanges]
      /\ shown' = [shown EXCEPT ![n] = found[n]]
      /\ UNCHANGED <<observed, table, contents, change, modified, found, strayed, names>>
  BY DEF Deliver
<1>2. NamesInv /\ (\A l \in Lists : GoodList(l)) /\ DOMAIN accumulated = Notifiers
      /\ DOMAIN shown = Notifiers
  BY IInvParts DEF NamesInv
<1>3. Lists' = Lists /\ Notifiers' = Notifiers /\ Names' = Names /\ Entries' = Entries
  BY <1>1 DEF Lists, Notifiers, Names, Entries
<1>4. NamesInv'
  BY <1>1, <1>2, <1>3 DEF NamesInv
<1>5. ASSUME NEW l \in Lists PROVE GoodList(l)'
  <2>1. ListInv(l) /\ (Strayed(l) \/ (RecordedInv(l) /\ ToldInv(l)))
    BY <1>2 DEF GoodList
  <2>2. CASE l = n
    <3>1. shown'[l] = found[l] /\ accumulated'[l] = NoChanges
      BY <1>1, <1>2, <2>2
    <3>2. ListInv(l)'
      BY <1>1, <1>3, <2>1, <3>1 DEF ListInv
    <3>3. RecordedInv(l) => RecordedInv(l)'
      BY <1>1 DEF RecordedInv
    <3>4. ToldInv(l)'
      <4>1. found[l] \in Seq(Nat)
        BY OfAList
      <4>2. NoChanges \in ChangeSets /\ Tells(NoChanges, found[l], found[l], {})
        BY <4>1, NothingSince
      <4> QED BY <1>1, <3>1, <4>2 DEF ToldInv
    <3>5. Strayed(l) => Strayed(l)'
      BY <1>1 DEF Strayed
    <3> QED BY <2>1, <3>2, <3>3, <3>4, <3>5 DEF GoodList
  <2>3. CASE l # n
    <3>1. shown'[l] = shown[l] /\ accumulated'[l] = accumulated[l]
      BY <1>1, <1>2, <2>3 DEF Notifiers
    <3>2. ListInv(l)'
      BY <1>1, <1>3, <2>1, <3>1 DEF ListInv
    <3>3. RecordedInv(l) => RecordedInv(l)'
      BY <1>1 DEF RecordedInv
    <3>4. ToldInv(l) => ToldInv(l)'
      BY <1>1, <3>1 DEF ToldInv
    <3>5. Strayed(l) => Strayed(l)'
      BY <1>1 DEF Strayed
    <3> QED BY <2>1, <3>2, <3>3, <3>4, <3>5 DEF GoodList
  <2> QED BY <2>2, <2>3
<1>6. NamesApart'
  <2>1. names \in Nat
    BY <1>2 DEF NamesInv
  <2> QED BY <1>1, <2>1, ApartStill
<1> QED BY <1>1, <1>4, <1>5, <1>6, IInvParts

(* What ScenariosAssumption says of one. *)
LEMMA ScenarioParts ==
  ASSUME NEW s \in Scenarios
  PROVE  /\ s.contents \in Seq(Seq(Nat)) /\ Len(s.contents) <= MaxRows
         /\ s.names \in Nat /\ Len(s.contents) \in Nat /\ Len(s.contents) <= s.names
         /\ DOMAIN s.contents = 1 .. Len(s.contents)
         /\ \A row \in DOMAIN s.contents :
              /\ s.contents[row] \in Seq(Nat) /\ Distinct(s.contents[row])
              /\ ToSet(s.contents[row]) \subseteq Len(s.contents) + 1 .. s.names
         /\ s.lists \in Seq(DOMAIN s.contents)
         /\ s.query = "none" => s.matching = {}
         /\ DOMAIN s.links \subseteq Len(s.contents) + 1 .. s.names
         /\ \A o \in DOMAIN s.links : s.links[o] \in Seq(Seq(DOMAIN s.links))
<1>1. /\ s.contents \in Seq(Seq(Nat)) /\ Len(s.contents) <= MaxRows
      /\ s.names \in Nat /\ Len(s.contents) <= s.names
      /\ \A row \in DOMAIN s.contents :
           /\ \A o \in ToSet(s.contents[row]) : o \in Len(s.contents) + 1 .. s.names
           /\ \A i, j \in DOMAIN s.contents[row] :
                s.contents[row][i] = s.contents[row][j] => i = j
      /\ s.lists \in Seq(DOMAIN s.contents)
      /\ s.query = "none" => s.matching = {}
      /\ \A o \in DOMAIN s.links : o \in Len(s.contents) + 1 .. s.names
      /\ \A o \in DOMAIN s.links : s.links[o] \in Seq(Seq(DOMAIN s.links))
  BY ScenariosAssumption
<1>2. \A row \in DOMAIN s.contents : s.contents[row] \in Seq(Nat)
  BY <1>1, ElementOfSeq
<1>3. DOMAIN s.contents = 1 .. Len(s.contents) /\ Len(s.contents) \in Nat
  BY <1>1
<1> QED BY <1>1, <1>2, <1>3 DEF Distinct

(* All this holds at first, in every scenario. *)
LEMMA InitIInv ==
  ASSUME NEW s \in Scenarios, Begin(s)
  PROVE  IInv
<1> DEFINE n == Len(s.contents)
<1>1. /\ observed.lists = s.lists
      /\ table = [k \in DOMAIN s.contents |-> k]
      /\ contents = [l \in ToSet(s.lists) |-> s.contents[l]]
      /\ change = [l \in Lists |-> NoChanges]
      /\ found = AllFound(Matching(table, matching)) /\ shown = found
      /\ accumulated = [m \in Notifiers |-> NoChanges]
      /\ modified = [m \in Notifiers |-> {}]
      /\ names = s.names
  BY DEF Begin
<1>2. s.lists \in Seq(DOMAIN s.contents)
  BY ScenarioParts
<1>3. n \in Nat /\ DOMAIN s.contents = 1 .. n /\ names \in Nat /\ n <= names
  BY <1>1, ScenarioParts
<1>4. Lists = ToSet(s.lists) /\ Lists \subseteq 1 .. n
  <2>1. Lists = ToSet(s.lists)
    BY <1>1 DEF Lists
  <2>2. ToSet(s.lists) \subseteq DOMAIN s.contents
    BY <1>2, ElementOfSeq DEF ToSet
  <2> QED BY <1>3, <2>1, <2>2
<1> HIDE DEF n
<1>5. NamesInv
  <2>1. names \in Nat /\ Lists \subseteq Names \ {Query}
    BY <1>1, <1>2, <1>3, <1>4 DEF Names, Query
  <2>2. table \in Seq(Names)
    <3>1. \A k \in 1 .. n : k \in Names
      BY <1>1, <1>2, <1>3 DEF Names
    <3> QED BY <1>1, <1>3, <3>1
  <2>3. DOMAIN found = Notifiers
    BY <1>1 DEF AllFound
  <2> QED BY <1>1, <1>4, <2>1, <2>2, <2>3 DEF NamesInv
<1>6. ASSUME NEW l \in Lists PROVE GoodList(l)
  <2>1. l \in 1 .. n /\ l # Query /\ l \in Notifiers
    BY <1>4, <1>5 DEF NamesInv, Notifiers
  <2>2. l \in DOMAIN s.contents
    BY <1>3, <2>1
  <2>3. contents[l] = s.contents[l]
    BY <1>1, <1>4
  <2>4. contents[l] \in Entries
    <3> DEFINE w == s.contents[l]
    <3>1. w \in Seq(Nat) /\ Distinct(w) /\ ToSet(w) \subseteq n + 1 .. names
      BY <1>1, <2>2, ScenarioParts DEF n
    <3> HIDE DEF w
    <3>2. \A k \in DOMAIN w : w[k] <= names
      BY <1>3, <3>1 DEF ToSet
    <3> QED BY <2>3, <3>1, <3>2 DEF Entries, w
  <2>5. found[l] = contents[l] /\ shown[l] = contents[l]
    BY <1>1, <2>1 DEF AllFound
  <2>6. l \in ToSet(table)
    BY <1>1, <1>3, <2>1 DEF ToSet
  <2>7. accumulated[l] = NoChanges /\ change[l] = NoChanges /\ modified[l] = {}
    BY <1>1, <2>1
  <2>8. ListInv(l)
    BY <2>4, <2>5, <2>6, <2>7 DEF ListInv
  <2>9. contents[l] \in Seq(Nat)
    BY <2>4 DEF Entries
  <2>10. /\ NoChanges \in ChangeSets /\ Records(NoChanges, contents[l], contents[l], {})
         /\ Tells(NoChanges, contents[l], contents[l], {})
    BY <2>9, NothingSince
  <2>11. RecordedInv(l)
    BY <2>5, <2>6, <2>7, <2>10 DEF RecordedInv
  <2>12. ToldInv(l)
    BY <2>5, <2>7, <2>10 DEF ToldInv
  <2> QED BY <2>8, <2>11, <2>12 DEF GoodList
<1>7. NamesApart
  <2>1. /\ observed.links = s.links /\ DOMAIN s.links \subseteq n + 1 .. names
        /\ \A o \in DOMAIN s.links : s.links[o] \in Seq(Seq(DOMAIN s.links))
    BY <1>1, ScenarioParts DEF Begin, n
  <2>2. ASSUME NEW l \in Lists PROVE ToSet(contents[l]) \subseteq n + 1 .. names
    <3>1. contents[l] = s.contents[l] /\ l \in DOMAIN s.contents
      BY <1>1, <1>3, <1>4
    <3> QED BY <1>1, <3>1, ScenarioParts DEF n
  <2>3. Objects \subseteq n + 1 .. names
    BY <2>1, <2>2 DEF Objects
  <2>4. ToSet(table) \subseteq 1 .. n
    BY <1>1, <1>3 DEF ToSet
  <2>5. /\ n + 1 .. names \subseteq Names /\ (1 .. n) \cap (n + 1 .. names) = {}
    BY <1>3 DEF Names
  <2> HIDE DEF Objects
  <2> QED BY <2>1, <2>3, <2>4, <2>5 DEF NamesApart
<1> QED BY <1>5, <1>6, <1>7 DEF IInv, GoodList

(* It is inductive: whatever is done to the rows and the lists, in         *)
(* whatever order, and whenever the worker runs and callbacks are called.  *)
THEOREM Invariance == Spec => []IInv
<1>1. Init => IInv
  BY InitIInv DEF Init
<1>2. IInv /\ [Next]_vars => IInv'
  <2> SUFFICES ASSUME IInv, [Next]_vars PROVE IInv'
    OBVIOUS
  <2>1. CASE UNCHANGED vars
    <3>1. UNCHANGED <<observed, table, contents, change, modified, found, accumulated, shown,
                      strayed, names>>
      BY <2>1 DEF vars
    <3>2. Lists' = Lists /\ Notifiers' = Notifiers /\ Names' = Names
      BY <3>1 DEF Lists, Notifiers, Names
    <3>3. NamesInv'
      BY <3>1, <3>2, IInvParts DEF NamesInv
    <3>4. ASSUME NEW l \in Lists PROVE GoodList(l)'
      <4>1. names' \in Nat /\ names <= names'
        BY <3>1, OfAList
      <4> QED BY <3>1, <4>1, ListKept
    <3>5. NamesApart'
      <4>1. names' \in Nat /\ names <= names'
        BY <3>1, IInvParts DEF NamesInv
      <4> QED BY <3>1, <4>1, ApartStill
    <3> QED BY <3>1, <3>3, <3>4, <3>5, IInvParts
  <2>2. CASE \E match \in BOOLEAN : insert_empty_rows(match)
    BY <2>2, TableActions
  <2>3. CASE \E match \in BOOLEAN, row \in Indices(table) : mark_dirty(row, match)
    BY <2>3, DirtyActions
  <2>4. CASE (\E row \in Indices(table) : erase_rows(row)) \/ clear_table
    BY <2>4, TableActions
  <2>5. ASSUME NEW l \in Lists \cap ToSet(table),
               \/ \E i \in 0 .. Len(contents[l]) : link_list_insert(l, i)
               \/ \E i \in Indices(contents[l]) :
                    \/ link_list_erase(l, i)
                    \/ link_list_set(l, i)
                    \/ \E j \in Indices(contents[l]) :
                         link_list_move(l, i, j) \/ link_list_swap(l, i, j)
               \/ link_list_clear(l)
        PROVE  IInv'
    BY <2>5, InsertAction, EraseAction, SetAction, MoveAction, SwapAction, ClearAction
  <2>6. CASE \E touched, next : Run(next, touched)
    BY <2>6, RunAction
  <2>7. CASE \E n \in Notifiers : Deliver(n)
    BY <2>7, DeliverAction
  <2> QED BY <2>1, <2>2, <2>3, <2>4, <2>5, <2>6, <2>7 DEF Next
<1> QED BY <1>1, <1>2, PTL DEF Spec

-----------------------------------------------------------------------------
(* The table, of which rows are recorded if there is a query. *)
TableInv ==
  /\ start \in Seq(Names) /\ Distinct(start) /\ Len(start) <= MaxRows
  /\ Distinct(table) /\ Len(table) <= MaxRows
  /\ modified[Query] \subseteq Names
  /\ observed.query # "none" => RecordsTable(info, start, table, modified[Query])

(* The rows, and what is recorded of them, as they are named at any time. *)
LEMMA TableInvAgain ==
  ASSUME names \in Nat, names' \in Nat, names <= names', start' = start, UNCHANGED observed,
         start \in Seq(Names), Distinct(start), Len(start) <= MaxRows,
         Distinct(table'), Len(table') <= MaxRows, modified'[Query] \subseteq Names',
         observed.query # "none" => RecordsTable(info', start, table', modified'[Query])
  PROVE  TableInv'
<1>1. Names \subseteq Names'
  BY DEF Names
<1>2. start' \in Seq(Names')
  <2> DEFINE N == Names'
  <2>1. start' \in Seq(Names) /\ Names \subseteq N
    BY <1>1
  <2> HIDE DEF N
  <2>2. start' \in Seq(N)
    BY <2>1
  <2> QED BY <2>2 DEF N
<1> QED BY <1>2 DEF TableInv

(* A row is modified, where it is. *)
LEMMA RowModified ==
  ASSUME IInv, TableInv, NEW row \in Indices(table),
         UNCHANGED <<observed, table, start>>, names' \in Nat, names <= names',
         Record(modify(info, row)), modified'[Query] = WithModified(table[row + 1])[Query]
  PROVE  TableInv'
<1>0. names \in Nat /\ table \in Seq(Names) /\ Query \in DOMAIN modified
  BY IInvParts DEF NamesInv, Notifiers
<1>1. /\ start \in Seq(Names) /\ Distinct(start) /\ Len(start) <= MaxRows
      /\ Distinct(table) /\ Len(table) <= MaxRows /\ modified[Query] \subseteq Names
      /\ observed.query # "none" => RecordsTable(info, start, table, modified[Query])
  BY DEF TableInv
<1>2. Names \subseteq Names'
  BY <1>0 DEF Names
<1>3. row + 1 \in DOMAIN table /\ table[row + 1] \in Names
  BY <1>0 DEF Indices
<1>4. modified'[Query] = IF observed.query = "none" THEN {} ELSE modified[Query] \cup {table[row + 1]}
  BY <1>0 DEF WithModified
<1>5. modified'[Query] \subseteq Names'
  BY <1>1, <1>2, <1>3, <1>4
<1>6. ASSUME observed.query # "none"
      PROVE  RecordsTable(info', start, table', modified'[Query])
  <2>1. info' = modify(info, row) /\ modified'[Query] = modified[Query] \cup {table[row + 1]}
    BY <1>4, <1>6 DEF Record
  <2>2. RecordsTable(modify(info, row), start, table, modified[Query] \cup {table[row + 1]})
    BY <1>0, <1>1, <1>6, ModifyRecordsTable
  <2> QED BY <2>1, <2>2
<1> QED BY <1>0, <1>1, <1>5, <1>6, TableInvAgain

(* A row is added: it is none of those there were. *)
LEMMA RowAdded ==
  ASSUME IInv, TableInv, NEW match \in BOOLEAN, insert_empty_rows(match)
  PROVE  TableInv'
<1> DEFINE new == Append(table, names + 1)
           k == Len(table)
<1>0. names \in Nat /\ table \in Seq(Names) /\ Query \in DOMAIN modified
  BY IInvParts DEF NamesInv, Notifiers
<1>1. /\ start \in Seq(Names) /\ Distinct(start) /\ Len(start) <= MaxRows
      /\ Distinct(table) /\ Len(table) <= MaxRows /\ modified[Query] \subseteq Names
      /\ observed.query # "none" => RecordsTable(info, start, table, modified[Query])
  BY DEF TableInv
<1>2. /\ k < MaxRows /\ table' = new /\ names' = names + 1 /\ UNCHANGED <<observed, start>>
      /\ Record(modify(insert(info, k), k)) /\ modified' = WithModified(names + 1)
  BY DEF insert_empty_rows, Rows
<1>3. /\ MaxRows \in Nat /\ k \in Nat /\ Len(new) = k + 1 /\ new[k + 1] = names + 1
      /\ Indices(new) = 0 .. k
  BY <1>0, BoundsAssumption DEF Indices
<1>4. /\ \A i \in DOMAIN table : table[i] # names + 1
      /\ \A i \in DOMAIN start : start[i] # names + 1
  <2>1. \A n \in Names : n # names + 1
    BY <1>0 DEF Names
  <2>2. (\A i \in DOMAIN table : table[i] \in Names) /\ \A i \in DOMAIN start : start[i] \in Names
    BY <1>0, <1>1, ElementOfSeq
  <2> QED BY <2>1, <2>2
<1>5. Distinct(new)
  BY <1>0, <1>1, <1>4 DEF Distinct
<1>6. modified'[Query] = IF observed.query = "none" THEN {} ELSE modified[Query] \cup {names + 1}
  BY <1>0, <1>2 DEF WithModified
<1>7. modified'[Query] \subseteq Names'
  BY <1>0, <1>1, <1>2, <1>6 DEF Names
<1>8. ASSUME observed.query # "none"
      PROVE  RecordsTable(info', start, table', modified'[Query])
  <2> DEFINE E == 0 .. names + 1
  <2>1. /\ start \in Seq(E) /\ table \in Seq(E) /\ new \in Seq(E) /\ names + 1 \in E
        /\ names + 1 \notin modified[Query]
    <3>1. Names \subseteq E /\ names + 1 \in E /\ names + 1 \notin Names
      BY <1>0 DEF Names
    <3> HIDE DEF E
    <3>2. start \in Seq(E) /\ table \in Seq(E)
      BY <1>0, <1>1, <3>1
    <3> QED BY <1>1, <3>1, <3>2
  <2> HIDE DEF E
  <2>2. RecordsTable(insert(info, k), start, new, modified[Query])
    BY <1>1, <1>4, <1>8, <2>1, AddingRecordsTable
  <2>3. RecordsTable(modify(insert(info, k), k), start, new, modified[Query] \cup {new[k + 1]})
    <3>1. k \in Indices(new)
      BY <1>3
    <3> HIDE DEF k, new
    <3> QED BY <1>5, <2>1, <2>2, <3>1, ModifyRecordsTable
  <2>4. info' = modify(insert(info, k), k) /\ modified'[Query] = modified[Query] \cup {names + 1}
    BY <1>2, <1>6, <1>8 DEF Record
  <2> QED BY <1>2, <1>3, <2>3, <2>4
<1> QED BY <1>0, <1>1, <1>2, <1>3, <1>5, <1>7, <1>8, TableInvAgain

(* A row is deleted, and the last one takes its place. *)
LEMMA RowErased ==
  ASSUME IInv, TableInv, NEW row \in Indices(table), erase_rows(row)
  PROVE  TableInv'
<1> DEFINE new == Front(ReplaceAt(table, row + 1, Last(table)))
           last == Len(table) - 1
<1>0. names \in Nat /\ table \in Seq(Names) /\ Query \in DOMAIN modified
  BY IInvParts DEF NamesInv, Notifiers
<1>1. /\ start \in Seq(Names) /\ Distinct(start) /\ Len(start) <= MaxRows
      /\ Distinct(table) /\ Len(table) <= MaxRows /\ modified[Query] \subseteq Names
      /\ observed.query # "none" => RecordsTable(info, start, table, modified[Query])
  BY DEF TableInv
<1>2. /\ table' = new /\ names' = names /\ modified' = modified /\ UNCHANGED <<observed, start>>
      /\ Record(move_over(info, row, last))
  BY DEF erase_rows, Rows
<1>3. row + 1 \in DOMAIN table
  BY <1>0 DEF Indices
<1>4. Distinct(new) /\ Len(new) <= MaxRows
  <2>1. \A i, j \in DOMAIN new : new[i] = new[j] => i = j
    BY <1>0, <1>1, <1>3, LastMovedOver DEF Distinct
  <2>2. Len(new) = Len(table) - 1
    BY <1>0, <1>3, LastTakesPlace
  <2> QED BY <1>0, <1>1, <2>1, <2>2, BoundsAssumption DEF Distinct
<1>5. ASSUME observed.query # "none"
      PROVE  RecordsTable(info', start, table', modified'[Query])
  <2>1. RecordsTable(move_over(info, row, last), start, new, modified[Query])
    BY <1>0, <1>1, <1>5, MoveOverRecordsTable
  <2> QED BY <1>2, <1>5, <2>1 DEF Record
<1>6. Names' = Names
  BY <1>2 DEF Names
<1> QED BY <1>0, <1>1, <1>2, <1>4, <1>5, <1>6, TableInvAgain

(* The table is cleared, of no more rows than clear_table supposes. *)
LEMMA TableCleared ==
  ASSUME IInv, TableInv, clear_table
  PROVE  TableInv'
<1>0. names \in Nat /\ table \in Seq(Names)
  BY IInvParts DEF NamesInv
<1>1. /\ start \in Seq(Names) /\ Distinct(start) /\ Len(start) <= MaxRows
      /\ modified[Query] \subseteq Names
  BY DEF TableInv
<1>2. /\ table' = << >> /\ names' = names /\ modified' = modified /\ UNCHANGED <<observed, start>>
      /\ Record(clear_table_of(MaxRows))
  BY DEF clear_table, Rows
<1>3. MaxRows \in Nat /\ Distinct(<< >>) /\ Len(<< >>) <= MaxRows
  BY BoundsAssumption DEF Distinct
<1>4. RecordsTable(clear_table_of(MaxRows), start, << >>, modified[Query])
  BY <1>1, <1>3, ClearRecordsTable
<1>5. observed.query # "none" => RecordsTable(info', start, table', modified'[Query])
  BY <1>2, <1>4 DEF Record
<1>6. Names' = Names
  BY <1>2 DEF Names
<1> QED BY <1>0, <1>1, <1>2, <1>3, <1>5, <1>6, TableInvAgain

(* A list is changed, and its row modified. *)
LEMMA RowOfList ==
  ASSUME IInv, TableInv, NEW l \in Lists \cap ToSet(table), NEW entries, NEW set, NEW recorded,
         Change(l, entries, set, recorded), names' \in Nat, names <= names'
  PROVE  TableInv'
<1> DEFINE row == IndexIn(table, l)
<1>0. table \in Seq(Names) /\ Query \notin Lists
  BY IInvParts DEF NamesInv
<1>1. row \in Indices(table) /\ table[row + 1] = l
  <2>1. \E k \in DOMAIN table : table[k] = l
    BY DEF ToSet
  <2>2. PICK k \in DOMAIN table : table[k] = l /\ row = k - 1
    BY <2>1 DEF IndexIn
  <2>3. k \in 1 .. Len(table) /\ (k - 1) + 1 = k
    BY <1>0
  <2> QED BY <1>0, <2>2, <2>3 DEF Indices
<1>2. /\ UNCHANGED <<observed, table, start>> /\ Record(modify(info, row))
      /\ modified' = [WithModified(l) EXCEPT ![l] = @ \cup set]
  BY DEF Change
<1>3. modified'[Query] = WithModified(l)[Query]
  BY <1>0, <1>2
<1> HIDE DEF row
<1> QED BY <1>1, <1>2, <1>3, RowModified

(* And nothing is recorded when the worker has run. *)
LEMMA TableFound ==
  ASSUME IInv, TableInv, NEW next, NEW touched, Run(next, touched)
  PROVE  TableInv'
<1>0. names \in Nat /\ table \in Seq(Names)
  BY IInvParts DEF NamesInv
<1>1. Distinct(table) /\ Len(table) <= MaxRows
  BY DEF TableInv
<1>2. /\ start' = table /\ info' = NoChanges /\ UNCHANGED <<observed, table, names>>
      /\ modified' = [n \in Notifiers |-> {}]
  BY DEF Run
<1>3. modified'[Query] = {} /\ Names' = Names
  BY <1>2 DEF Notifiers, Names
<1>4. RecordsTable(NoChanges, table, table, {})
  BY <1>0, NothingRecordsTable
<1> QED BY <1>0, <1>1, <1>2, <1>3, <1>4 DEF TableInv

(* At first the rows are those there were, and nothing is recorded. *)
LEMMA InitTableInv ==
  ASSUME NEW s \in Scenarios, Begin(s)
  PROVE  TableInv
<1>1. /\ table = [k \in DOMAIN s.contents |-> k] /\ start = table /\ info = NoChanges
      /\ modified = [n \in Notifiers |-> {}]
  BY DEF Begin
<1>2. /\ Len(s.contents) <= MaxRows /\ Len(s.contents) \in Nat
      /\ DOMAIN s.contents = 1 .. Len(s.contents)
  BY ScenarioParts
<1>3. table \in Seq(Names)
  BY InitIInv, IInvParts DEF NamesInv
<1>4. Distinct(table) /\ Len(table) <= MaxRows
  BY <1>1, <1>2 DEF Distinct
<1>5. modified[Query] = {}
  BY <1>1 DEF Notifiers
<1>6. RecordsTable(NoChanges, table, table, {})
  BY <1>3, NothingRecordsTable
<1> QED BY <1>1, <1>3, <1>4, <1>5, <1>6 DEF TableInv

(* What is recorded of the table makes its rows of those the worker saw    *)
(* last, however many are added, deleted and modified, in whatever order.  *)
THEOREM TableInvariance == Spec => []TableInv
<1>1. Init => TableInv
  BY InitTableInv DEF Init
<1>2. IInv /\ TableInv /\ [Next]_vars => TableInv'
  <2> SUFFICES ASSUME IInv, TableInv, [Next]_vars PROVE TableInv'
    OBVIOUS
  <2>0. names \in Nat
    BY IInvParts DEF NamesInv
  <2>1. CASE UNCHANGED <<observed, table, start, info, modified, names>>
    <3>1. Names' = Names
      BY <2>1 DEF Names
    <3> QED BY <2>1, <3>1 DEF TableInv
  <2>2. CASE \E match \in BOOLEAN : insert_empty_rows(match)
    BY <2>2, RowAdded
  <2>3. ASSUME NEW match \in BOOLEAN, NEW row \in Indices(table), mark_dirty(row, match)
        PROVE  TableInv'
    <3>1. /\ UNCHANGED <<observed, table, start, names>> /\ Record(modify(info, row))
          /\ modified' = WithModified(table[row + 1])
      BY <2>3 DEF mark_dirty
    <3> QED BY <2>0, <3>1, RowModified
  <2>4. CASE \E row \in Indices(table) : erase_rows(row)
    BY <2>4, RowErased
  <2>5. CASE clear_table
    BY <2>5, TableCleared
  <2>6. ASSUME NEW l \in Lists \cap ToSet(table), NEW entries, NEW set, NEW recorded,
               Change(l, entries, set, recorded), names' \in {names, names + 1}
        PROVE  TableInv'
    BY <2>0, <2>6, RowOfList
  <2>7. ASSUME NEW l \in Lists \cap ToSet(table),
               \/ \E i \in 0 .. Len(contents[l]) : link_list_insert(l, i)
               \/ \E i \in Indices(contents[l]) :
                    \/ link_list_erase(l, i)
                    \/ link_list_set(l, i)
                    \/ \E j \in Indices(contents[l]) :
                         link_list_move(l, i, j) \/ link_list_swap(l, i, j)
               \/ link_list_clear(l)
        PROVE  TableInv'
    <3>1. \E entries, set, recorded : /\ Change(l, entries, set, recorded)
                                      /\ names' \in {names, names + 1}
      BY <2>7 DEF link_list_insert, link_list_erase, link_list_set, link_list_move,
                  link_list_swap, link_list_clear
    <3> QED BY <2>6, <3>1
  <2>8. CASE \E touched, next : Run(next, touched)
    BY <2>8, TableFound
  <2>9. CASE \E n \in Notifiers : Deliver(n)
    BY <2>1, <2>9 DEF Deliver
  <2>10. CASE UNCHANGED vars
    BY <2>1, <2>10 DEF vars
  <2> QED BY <2>2, <2>3, <2>4, <2>5, <2>7, <2>8, <2>9, <2>10 DEF Next
<1> QED BY <1>1, <1>2, Invariance, PTL DEF Spec

(* What is recorded of a list, and what a callback is handed, merged of    *)
(* any number of runs, is exact, of lists of any length and operations in  *)
(* any number and order, for every list that is followed to the end; and   *)
(* so is what is recorded of the table (ListsAndTableAreExact).            *)
THEOREM ListsAndTableAreExactHolds == Spec => []ListsAndTableAreExact
<1>1. ASSUME IInv, NEW l \in Lists, ~ Strayed(l)
      PROVE  /\ l \in ToSet(table) => Describes(change[l], found[l], contents[l], modified[l])
             /\ LET told == finalize(accumulated[l])
                IN  Makes(told, l) /\ MovesAreTold(told, shown[l], found[l])
  <2>1. GoodList(l)
    BY <1>1, IInvParts
  <2>2. ListInv(l) /\ RecordedInv(l) /\ ToldInv(l)
    BY <1>1, <2>1 DEF GoodList
  <2>3. ASSUME l \in ToSet(table)
        PROVE  Describes(change[l], found[l], contents[l], modified[l])
    <3> DEFINE c == change[l]
               new == contents[l]
               M == modified[l]
    <3>1. Records(c, found[l], new, M)
      BY <2>2, <2>3 DEF RecordedInv
    <3>2. new \in Seq(Nat)
      BY <1>1, OfAList
    <3> HIDE DEF c, new, M
    <3>3. At(new, c.modifications) = ToSet(new) \cap M
      BY <3>1, <3>2, ModifiedEntries DEF Records
    <3> QED BY <3>1, <3>3 DEF Describes, Records, c, new, M
  <2>4. LET told == finalize(accumulated[l])
        IN  Makes(told, l) /\ MovesAreTold(told, shown[l], found[l])
    <3> DEFINE a == accumulated[l]
               old == shown[l]
               new == found[l]
               told == finalize(a)
    <3>1. old \in Seq(Nat) /\ new \in Seq(Nat) /\ Distinct(old) /\ Distinct(new)
      BY <2>2 DEF ListInv, Entries
    <3>2. a \in ChangeSets
      BY <2>2 DEF ToldInv
    <3>3. PICK M : Tells(a, old, new, M)
      BY <2>2 DEF ToldInv
    <3> HIDE DEF a, old, new
    <3>4. Leads(told, old, new) /\ MovesAreMoves(told, old, new) /\ MovesAreTold(told, old, new)
      BY <3>1, <3>2, <3>3, FinalizeIsExact
    <3> HIDE DEF told
    <3> QED BY <3>4 DEF told, a, old, new, Makes
  <2> QED BY <2>3, <2>4
<1>2. ASSUME IInv, TableInv, observed.query # "none"
      PROVE  Describes(parse_complete(info), start, table, modified[Query])
  <2>1. /\ start \in Seq(Names) /\ table \in Seq(Names) /\ Distinct(start) /\ Distinct(table)
        /\ RecordsTable(info, start, table, modified[Query])
    BY <1>2, IInvParts DEF NamesInv, TableInv
  <2> DEFINE b == parse_complete(info)
  <2>2. /\ Leads(b, start, table) /\ MovesAreMoves(b, start, table) /\ MovesAreTold(b, start, table)
        /\ At(table, b.modifications) = ToSet(table) \cap modified[Query]
    BY <2>1, ParseIsExact
  <2> HIDE DEF b
  <2> QED BY <2>2 DEF b, Describes
<1>3. IInv /\ TableInv => ListsAndTableAreExact
  BY <1>1, <1>2 DEF ListsAndTableAreExact
<1> QED BY <1>3, Invariance, TableInvariance, PTL

-----------------------------------------------------------------------------
(* The comparison of the rows of a query. *)

(* What is left of a sequence is in its order. *)
LEMMA WithoutInOrder ==
  ASSUME NEW E, NEW s \in Seq(E), NEW S \in IndexSets
  PROVE  LET w == Without(s, S)
             n == unshift(S, Len(s))
         IN  /\ n \in Nat /\ w \in Seq(E) /\ Len(w) = n /\ DOMAIN w = 1 .. n
             /\ \A k \in 1 .. n : /\ shift(S, k - 1) \in Indices(s) \ S
                                  /\ w[k] = s[shift(S, k - 1) + 1]
             /\ \A i \in Indices(s) \ S : \E k \in 1 .. n : shift(S, k - 1) = i
             /\ \A k, l \in 1 .. n : k < l => shift(S, k - 1) < shift(S, l - 1)
<1> DEFINE w == Without(s, S)
           n == unshift(S, Len(s))
<1>0. /\ Len(s) \in Nat /\ n \in Nat /\ DOMAIN w = 1 .. n /\ Indices(s) = 0 .. Len(s) - 1
      /\ \A k \in 1 .. n : w[k] = s[shift(S, k - 1) + 1]
      /\ \A i \in Indices(s) : i + 1 \in DOMAIN s
  <2>1. Len(s) \in Nat /\ n \in Nat
    BY UnshiftSteps
  <2> HIDE DEF n
  <2>2. w = [k \in 1 .. n |-> s[shift(S, k - 1) + 1]]
    BY DEF Without, n
  <2>3. \A i \in Indices(s) : i + 1 \in DOMAIN s
    BY DEF Indices
  <2>4. Indices(s) = 0 .. Len(s) - 1
    BY DEF Indices
  <2> HIDE DEF w
  <2> QED BY <2>1, <2>2, <2>3, <2>4
<1>1. w \in Seq(E)
  BY WithoutLeaves
<1> HIDE DEF w
<1>2. Len(w) = n
  BY <1>0, <1>1
<1>3. ASSUME NEW k \in 1 .. n
      PROVE  /\ shift(S, k - 1) \in Indices(s) \ S
             /\ unshift(S, shift(S, k - 1)) = k - 1
  <2> HIDE DEF n
  <2>1. k - 1 \in Nat /\ k - 1 < n
    BY <1>0
  <2>2. shift(S, k - 1) \in Nat \ S /\ unshift(S, shift(S, k - 1)) = k - 1
    BY <2>1, ShiftFinds
  <2>3. shift(S, k - 1) < Len(s)
    BY <1>0, <2>1, <2>2, UnshiftBelow DEF n
  <2> QED BY <1>0, <2>2, <2>3
<1>4. ASSUME NEW i \in Indices(s) \ S PROVE \E k \in 1 .. n : shift(S, k - 1) = i
  <2>1. i \in Nat \ S /\ i < Len(s)
    BY <1>0
  <2>2. unshift(S, i) < n /\ unshift(S, i) \in Nat
    BY <1>0, <2>1, UnshiftBelow, UnshiftSteps
  <2>3. shift(S, unshift(S, i)) = i
    BY <2>1, ShiftIsUnique
  <2> DEFINE k == unshift(S, i) + 1
  <2>4. k \in 1 .. n /\ k - 1 = unshift(S, i)
    <3> HIDE DEF n
    <3> QED BY <1>0, <2>2
  <2> HIDE DEF k, n
  <2> QED BY <2>3, <2>4
<1>5. ASSUME NEW k \in 1 .. n, NEW l \in 1 .. n, k < l
      PROVE  shift(S, k - 1) < shift(S, l - 1)
  <2>1. /\ shift(S, k - 1) \in Nat \ S /\ shift(S, l - 1) \in Nat \ S
        /\ unshift(S, shift(S, k - 1)) = k - 1 /\ unshift(S, shift(S, l - 1)) = l - 1
    BY <1>0, <1>3
  <2>2. k - 1 < l - 1
    BY <1>0, <1>5
  <2> QED BY <2>1, <2>2, UnshiftInjective
<1> HIDE DEF n
<1>6. /\ \A k \in 1 .. n : /\ shift(S, k - 1) \in Indices(s) \ S
                           /\ w[k] = s[shift(S, k - 1) + 1]
      /\ \A i \in Indices(s) \ S : \E k \in 1 .. n : shift(S, k - 1) = i
      /\ \A k, l \in 1 .. n : k < l => shift(S, k - 1) < shift(S, l - 1)
  BY <1>0, <1>3, <1>4, <1>5
<1> QED BY <1>0, <1>1, <1>2, <1>6 DEF w, n

(* The rows of two sequences: the same where the entries are the same. *)
RowsOf(prev, next, old, new) ==
  /\ prev \in Seq(Nat \cup {npos}) /\ Indices(prev) = Indices(old) /\ Len(prev) = Len(old)
  /\ next \in Seq(Nat) /\ Indices(next) = Indices(new) /\ Len(next) = Len(new)
  /\ \A j \in Indices(old), i \in Indices(new) :
       old[j + 1] = new[i + 1] <=> prev[j + 1] = next[i + 1]

(* Those that stay in the view, in their new order, when the others are    *)
(* gone, unmatched or arrived.                                             *)
Staying(rows, gone, unmatched, arrived, prev, next, old, new) ==
  /\ gone \in IndexSets /\ unmatched \in IndexSets /\ arrived \in IndexSets
  /\ gone \cup unmatched \subseteq Indices(old) /\ arrived \subseteq Indices(new)
  /\ gone \cap unmatched = {}
  /\ DOMAIN rows = 1 .. Len(rows) /\ Len(rows) \in Nat
  /\ \A k \in DOMAIN rows :
       /\ rows[k].tv_index \in Indices(new) \ arrived
       /\ rows[k].prev_tv_index \in Indices(old) \ (gone \cup unmatched)
       /\ old[rows[k].prev_tv_index + 1] = new[rows[k].tv_index + 1]
       /\ rows[k].row_index = next[rows[k].tv_index + 1]
       /\ rows[k].row_index = prev[rows[k].prev_tv_index + 1]
       /\ rows[k].row_index \in Nat
       /\ rows[k].shifted_tv_index = unshift(gone, rows[k].prev_tv_index)
  /\ \A i \in Indices(new) \ arrived : \E k \in DOMAIN rows : rows[k].tv_index = i
  /\ \A j \in Indices(old) \ (gone \cup unmatched) : \E k \in DOMAIN rows : rows[k].prev_tv_index = j
  /\ \A k, l \in DOMAIN rows : k < l => rows[k].tv_index < rows[l].tv_index
  /\ \A k, l \in DOMAIN rows : rows[k].prev_tv_index = rows[l].prev_tv_index => k = l

(* Where a row is, if only there. *)
LEMMA WhereItIs ==
  ASSUME NEW E, NEW s \in Seq(E), NEW i \in Indices(s), \A j \in Indices(s) : s[j + 1] = s[i + 1] => j = i
  PROVE  (CHOOSE k \in DOMAIN s : s[k] = s[i + 1]) - 1 = i
<1>1. i + 1 \in DOMAIN s /\ i \in Nat
  BY DEF Indices
<1>2. ASSUME NEW k \in DOMAIN s, s[k] = s[i + 1] PROVE k = i + 1
  <2>1. k - 1 \in Indices(s) /\ (k - 1) + 1 = k
    BY DEF Indices
  <2>2. k - 1 = i
    BY <1>2, <2>1
  <2> QED BY <2>1, <2>2
<1> DEFINE c == CHOOSE k \in DOMAIN s : s[k] = s[i + 1]
<1>3. c = i + 1
  BY <1>1, <1>2
<1> HIDE DEF c
<1>4. c - 1 = i
  BY <1>1, <1>3
<1> QED BY <1>4 DEF c

(* The rows that are no longer there, and the new ones. *)
LEMMA GoneAndArrived ==
  ASSUME NEW E, NEW old \in Seq(E), NEW new \in Seq(E), NEW prev, NEW next,
         RowsOf(prev, next, old, new)
  PROVE  /\ Deleted(prev) \in IndexSets /\ Unmatched(prev, next) \in IndexSets
         /\ Arrived(prev, next) \in IndexSets
         /\ Deleted(prev) \cup Unmatched(prev, next) \subseteq Indices(old)
         /\ Arrived(prev, next) \subseteq Indices(new)
         /\ Deleted(prev) \cap Unmatched(prev, next) = {}
         /\ \A j \in Indices(old) \ (Deleted(prev) \cup Unmatched(prev, next)) :
              \E i \in Indices(new) : prev[j + 1] = next[i + 1]
         /\ \A i \in Indices(new) \ Arrived(prev, next) :
              \E j \in Indices(old) : prev[j + 1] = next[i + 1]
         /\ \A j \in Indices(old), i \in Indices(new) :
              prev[j + 1] = next[i + 1] =>
                /\ j \notin Deleted(prev) \cup Unmatched(prev, next)
                /\ i \notin Arrived(prev, next)
<1>1. /\ prev \in Seq(Nat \cup {npos}) /\ next \in Seq(Nat)
      /\ Indices(prev) = Indices(old) /\ Indices(next) = Indices(new)
  BY DEF RowsOf
<1>2. /\ Deleted(prev) = {i \in Indices(old) : prev[i + 1] = npos}
      /\ Unmatched(prev, next) = {i \in Indices(old) : prev[i + 1] \notin ToSet(next) \cup {npos}}
      /\ Arrived(prev, next) = {j \in Indices(new) : next[j + 1] \notin ToSet(prev)}
  BY <1>1 DEF Deleted, Unmatched, Arrived, Indices
<1>3. ASSUME NEW S, S \subseteq Indices(old) \/ S \subseteq Indices(new)
      PROVE  S \in IndexSets
  <2>1. /\ IsFiniteSet(Indices(old)) /\ IsFiniteSet(Indices(new))
        /\ Indices(old) \subseteq Nat /\ Indices(new) \subseteq Nat
    BY FS_Interval DEF Indices
  <2> QED BY <1>3, <2>1, FS_Subset DEF IndexSets
<1>4. /\ Deleted(prev) \subseteq Indices(old) /\ Unmatched(prev, next) \subseteq Indices(old)
      /\ Arrived(prev, next) \subseteq Indices(new)
  BY <1>2
<1>5. \A i \in Indices(new) : next[i + 1] \in ToSet(next) /\ next[i + 1] # npos
  <2>1. \A i \in Indices(next) : i + 1 \in DOMAIN next
    BY <1>1 DEF Indices
  <2>2. \A k \in DOMAIN next : next[k] \in Nat
    BY <1>1
  <2> QED BY <1>1, <2>1, <2>2 DEF ToSet, npos
<1>6. \A j \in Indices(old) : prev[j + 1] \in ToSet(prev)
  <2>1. \A j \in Indices(prev) : j + 1 \in DOMAIN prev
    BY <1>1 DEF Indices
  <2> QED BY <1>1, <2>1 DEF ToSet
<1>7. ASSUME NEW r \in ToSet(next) PROVE \E i \in Indices(new) : next[i + 1] = r
  <2>1. PICK k \in DOMAIN next : next[k] = r
    BY DEF ToSet
  <2>2. k - 1 \in Indices(next) /\ (k - 1) + 1 = k
    BY <1>1 DEF Indices
  <2> QED BY <1>1, <2>1, <2>2
<1>8. ASSUME NEW r \in ToSet(prev) PROVE \E j \in Indices(old) : prev[j + 1] = r
  <2>1. PICK k \in DOMAIN prev : prev[k] = r
    BY DEF ToSet
  <2>2. k - 1 \in Indices(prev) /\ (k - 1) + 1 = k
    BY <1>1 DEF Indices
  <2> QED BY <1>1, <2>1, <2>2
<1>9. /\ Deleted(prev) \cap Unmatched(prev, next) = {}
      /\ \A j \in Indices(old) \ (Deleted(prev) \cup Unmatched(prev, next)) : prev[j + 1] \in ToSet(next)
      /\ \A i \in Indices(new) \ Arrived(prev, next) : next[i + 1] \in ToSet(prev)
  BY <1>2
<1>10. \A j \in Indices(old), i \in Indices(new) :
         prev[j + 1] = next[i + 1] =>
           /\ j \notin Deleted(prev) \cup Unmatched(prev, next)
           /\ i \notin Arrived(prev, next)
  BY <1>2, <1>5, <1>6
<1> QED BY <1>3, <1>4, <1>7, <1>8, <1>9, <1>10

(* A row, from where it is now. *)
LEMMA InfoOfRow ==
  ASSUME NEW E, NEW old \in Seq(E), NEW new \in Seq(E), Distinct(old), Distinct(new),
         NEW prev, NEW next, RowsOf(prev, next, old, new),
         NEW i \in Indices(new), NEW j \in Indices(old), prev[j + 1] = next[i + 1]
  PROVE  LET r == RowInfo(prev, next, next[i + 1])
         IN  /\ r.tv_index = i /\ r.prev_tv_index = j /\ r.row_index = next[i + 1]
             /\ r.shifted_tv_index = unshift(Deleted(prev), j)
<1>1. /\ prev \in Seq(Nat \cup {npos}) /\ next \in Seq(Nat)
      /\ Indices(prev) = Indices(old) /\ Indices(next) = Indices(new)
      /\ \A a \in Indices(old), b \in Indices(new) :
           old[a + 1] = new[b + 1] <=> prev[a + 1] = next[b + 1]
  BY DEF RowsOf
<1>2. \A k \in Indices(next) : next[k + 1] = next[i + 1] => k = i
  <2> SUFFICES ASSUME NEW k \in Indices(next), next[k + 1] = next[i + 1] PROVE k = i
    OBVIOUS
  <2>1. new[k + 1] = new[i + 1]
    BY <1>1
  <2> QED BY <1>1, <2>1, DistinctIndices
<1>3. \A k \in Indices(prev) : prev[k + 1] = prev[j + 1] => k = j
  <2> SUFFICES ASSUME NEW k \in Indices(prev), prev[k + 1] = prev[j + 1] PROVE k = j
    OBVIOUS
  <2>1. old[k + 1] = old[j + 1]
    BY <1>1
  <2> QED BY <1>1, <2>1, DistinctIndices
<1>4. (CHOOSE k \in DOMAIN next : next[k] = next[i + 1]) - 1 = i
  BY <1>1, <1>2, WhereItIs
<1>5. (CHOOSE k \in DOMAIN prev : prev[k] = prev[j + 1]) - 1 = j
  BY <1>1, <1>3, WhereItIs
<1>6. (CHOOSE k \in DOMAIN prev : prev[k] = next[i + 1]) - 1 = j
  BY <1>5
<1> QED BY <1>4, <1>6 DEF RowInfo

(* The rows that calculate compares. *)
LEMMA StayingRowsStay ==
  ASSUME NEW E, NEW old \in Seq(E), NEW new \in Seq(E), Distinct(old), Distinct(new),
         NEW prev, NEW next, RowsOf(prev, next, old, new)
  PROVE  Staying(StayingRows(prev, next), Deleted(prev), Unmatched(prev, next),
                 Arrived(prev, next), prev, next, old, new)
<1> DEFINE rows == StayingRows(prev, next)
           gone == Deleted(prev)
           unmatched == Unmatched(prev, next)
           arrived == Arrived(prev, next)
           w == Without(next, arrived)
           n == unshift(arrived, Len(next))
           At_(k) == shift(arrived, k - 1)
<1>1. /\ prev \in Seq(Nat \cup {npos}) /\ next \in Seq(Nat)
      /\ Indices(prev) = Indices(old) /\ Indices(next) = Indices(new)
      /\ \A a \in Indices(old), b \in Indices(new) :
           old[a + 1] = new[b + 1] <=> prev[a + 1] = next[b + 1]
  BY DEF RowsOf
<1>2. /\ gone \in IndexSets /\ unmatched \in IndexSets /\ arrived \in IndexSets
      /\ gone \cup unmatched \subseteq Indices(old) /\ arrived \subseteq Indices(new)
      /\ gone \cap unmatched = {}
      /\ \A j \in Indices(old) \ (gone \cup unmatched) :
           \E i \in Indices(new) : prev[j + 1] = next[i + 1]
      /\ \A i \in Indices(new) \ arrived : \E j \in Indices(old) : prev[j + 1] = next[i + 1]
      /\ \A j \in Indices(old), i \in Indices(new) :
           prev[j + 1] = next[i + 1] => j \notin gone \cup unmatched /\ i \notin arrived
  BY GoneAndArrived
<1> HIDE DEF gone, unmatched, arrived
<1>3. /\ n \in Nat /\ DOMAIN w = 1 .. n
      /\ \A k \in 1 .. n : At_(k) \in Indices(new) \ arrived /\ w[k] = next[At_(k) + 1]
      /\ \A i \in Indices(new) \ arrived : \E k \in 1 .. n : At_(k) = i
      /\ \A k, l \in 1 .. n : k < l => At_(k) < At_(l)
  <2>1. next \in Seq(Nat) /\ arrived \in IndexSets /\ Indices(next) = Indices(new)
    BY <1>1, <1>2
  <2>2. /\ n \in Nat /\ w \in Seq(Nat) /\ Len(w) = n /\ DOMAIN w = 1 .. n
        /\ \A k \in 1 .. n : /\ shift(arrived, k - 1) \in Indices(next) \ arrived
                             /\ w[k] = next[shift(arrived, k - 1) + 1]
        /\ \A i \in Indices(next) \ arrived : \E k \in 1 .. n : shift(arrived, k - 1) = i
        /\ \A k, l \in 1 .. n : k < l => shift(arrived, k - 1) < shift(arrived, l - 1)
    BY <2>1, WithoutInOrder
  <2> HIDE DEF w, n
  <2> QED BY ONLY <2>1, <2>2
<1>r. rows = [k \in DOMAIN w |-> RowInfo(prev, next, w[k])]
  BY DEF StayingRows, arrived
<1> HIDE DEF rows, w, n
<1>4. DOMAIN rows = 1 .. n /\ \A k \in 1 .. n : rows[k] = RowInfo(prev, next, next[At_(k) + 1])
  BY <1>3, <1>r
<1> HIDE DEF At_
<1>5. Len(rows) = n
  <2> DEFINE R(k) == RowInfo(prev, next, w[k])
  <2>1. rows = [k \in 1 .. n |-> R(k)]
    BY <1>3, <1>r
  <2> HIDE DEF R
  <2>2. rows \in Seq({R(k) : k \in 1 .. n})
    BY <1>3, <2>1
  <2> QED BY <1>3, <1>4, <2>2
<1>6. ASSUME NEW k \in DOMAIN rows
      PROVE  \E j \in Indices(old) \ (gone \cup unmatched) :
               /\ prev[j + 1] = next[At_(k) + 1] /\ old[j + 1] = new[At_(k) + 1]
               /\ rows[k].tv_index = At_(k) /\ rows[k].prev_tv_index = j
               /\ rows[k].row_index = next[At_(k) + 1]
               /\ rows[k].shifted_tv_index = unshift(gone, j)
  <2>1. At_(k) \in Indices(new) \ arrived
    BY <1>3, <1>4
  <2>2. PICK j \in Indices(old) : prev[j + 1] = next[At_(k) + 1]
    BY <1>2, <2>1
  <2>3. j \notin gone \cup unmatched /\ old[j + 1] = new[At_(k) + 1]
    BY <1>1, <1>2, <2>1, <2>2
  <2>4. LET r == RowInfo(prev, next, next[At_(k) + 1])
        IN  /\ r.tv_index = At_(k) /\ r.prev_tv_index = j /\ r.row_index = next[At_(k) + 1]
            /\ r.shifted_tv_index = unshift(gone, j)
    BY <2>1, <2>2, InfoOfRow DEF gone
  <2> QED BY <1>4, <2>2, <2>3, <2>4
<1>7. ASSUME NEW k \in DOMAIN rows
      PROVE  /\ rows[k].tv_index = At_(k)
             /\ rows[k].tv_index \in Indices(new) \ arrived
             /\ rows[k].prev_tv_index \in Indices(old) \ (gone \cup unmatched)
             /\ old[rows[k].prev_tv_index + 1] = new[rows[k].tv_index + 1]
             /\ rows[k].row_index = next[rows[k].tv_index + 1]
             /\ rows[k].row_index = prev[rows[k].prev_tv_index + 1]
             /\ rows[k].row_index \in Nat
             /\ rows[k].shifted_tv_index = unshift(gone, rows[k].prev_tv_index)
  <2>1. At_(k) \in Indices(new) \ arrived
    BY <1>3, <1>4
  <2>2. next[At_(k) + 1] \in Nat
    <3>1. At_(k) + 1 \in DOMAIN next
      BY <1>1, <2>1 DEF Indices
    <3> QED BY <1>1, <3>1
  <2> QED BY <1>6, <2>1, <2>2
<1>8. ASSUME NEW i \in Indices(new) \ arrived PROVE \E k \in DOMAIN rows : rows[k].tv_index = i
  <2>1. PICK k \in 1 .. n : At_(k) = i
    BY <1>3
  <2>2. k \in DOMAIN rows
    BY <1>4
  <2> QED BY <1>7, <2>1, <2>2
<1>9. ASSUME NEW j \in Indices(old) \ (gone \cup unmatched)
      PROVE  \E k \in DOMAIN rows : rows[k].prev_tv_index = j
  <2>1. PICK i \in Indices(new) : prev[j + 1] = next[i + 1]
    BY <1>2
  <2>2. i \notin arrived
    BY <1>2, <2>1
  <2>3. PICK k \in DOMAIN rows : rows[k].tv_index = i
    BY <1>8, <2>2
  <2>4. old[rows[k].prev_tv_index + 1] = old[j + 1] /\ rows[k].prev_tv_index \in Indices(old)
    BY <1>1, <1>7, <2>1, <2>3
  <2>5. rows[k].prev_tv_index = j
    BY <2>4, DistinctIndices
  <2> QED BY <2>5
<1>10. ASSUME NEW k \in DOMAIN rows, NEW l \in DOMAIN rows, k < l
       PROVE  rows[k].tv_index < rows[l].tv_index
  BY <1>3, <1>4, <1>7, <1>10
<1>11. ASSUME NEW k \in DOMAIN rows, NEW l \in DOMAIN rows,
              rows[k].prev_tv_index = rows[l].prev_tv_index
       PROVE  k = l
  <2>1. new[rows[k].tv_index + 1] = new[rows[l].tv_index + 1]
    BY <1>7, <1>11
  <2>2. rows[k].tv_index = rows[l].tv_index
    BY <1>7, <2>1, DistinctIndices
  <2>3. ~ (k < l) /\ ~ (l < k)
    <3>1. rows[k].tv_index \in Nat
      BY <1>7 DEF Indices
    <3> QED BY <1>10, <2>2, <3>1
  <2> QED BY <1>3, <1>4, <2>3
<1>12. Staying(rows, gone, unmatched, arrived, prev, next, old, new)
  BY <1>2, <1>3, <1>4, <1>5, <1>7, <1>8, <1>9, <1>10, <1>11 DEF Staying
<1> QED BY <1>12 DEF rows, gone, unmatched, arrived

(* Where the entries that are left are the same in the same order, a       *)
(* change set leads from the old ones to the new ones.                     *)
LEMMA KeptInOrder ==
  ASSUME NEW c, c.deletions \in IndexSets, c.insertions \in IndexSets,
         NEW E, NEW old \in Seq(E), NEW new \in Seq(E),
         c.deletions \subseteq Indices(old), c.insertions \subseteq Indices(new),
         NEW f \in [Indices(new) \ c.insertions -> Indices(old) \ c.deletions],
         \A j \in Indices(old) \ c.deletions : \E i \in Indices(new) \ c.insertions : f[i] = j,
         \A i, k \in Indices(new) \ c.insertions : i < k => f[i] < f[k],
         \A i \in Indices(new) \ c.insertions : old[f[i] + 1] = new[i + 1]
  PROVE  Leads(c, old, new)
<1> DEFINE D == c.deletions
           I == c.insertions
           m == Len(old)
           n == Len(new)
           g == [i \in Nat \ I |-> IF i < n THEN f[i] ELSE (i - n) + m]
<1>0. /\ m \in Nat /\ n \in Nat /\ D \in IndexSets /\ I \in IndexSets
      /\ Indices(old) = 0 .. m - 1 /\ Indices(new) = 0 .. n - 1
  BY DEF Indices
<1>1. /\ f \in [Indices(new) \ I -> Indices(old) \ D]
      /\ D \subseteq Indices(old) /\ I \subseteq Indices(new)
      /\ \A j \in Indices(old) \ D : \E i \in Indices(new) \ I : f[i] = j
      /\ \A i, k \in Indices(new) \ I : i < k => f[i] < f[k]
      /\ \A i \in Indices(new) \ I : old[f[i] + 1] = new[i + 1]
  OBVIOUS
<1> HIDE DEF D, I, m, n
<1>2. /\ \A i \in Nat \ I : i < n => i \in Indices(new) \ I /\ f[i] \in Nat \ D /\ f[i] < m
      /\ \A i \in Nat \ I : ~ (i < n) => (i - n) + m \in Nat \ D /\ ~ ((i - n) + m < m)
  <2>1. ASSUME NEW i \in Nat \ I, i < n PROVE i \in Indices(new) \ I /\ f[i] \in Nat \ D /\ f[i] < m
    <3>1. i \in Indices(new) \ I
      BY <1>0, <2>1
    <3>2. f[i] \in Indices(old) \ D
      BY <1>1, <3>1
    <3> QED BY <1>0, <3>1, <3>2
  <2>2. ASSUME NEW i \in Nat \ I, ~ (i < n) PROVE (i - n) + m \in Nat \ D /\ ~ ((i - n) + m < m)
    <3>1. (i - n) + m \in Nat /\ ~ ((i - n) + m < m)
      BY <1>0, <2>2
    <3>2. (i - n) + m \notin Indices(old)
      BY <1>0, <3>1
    <3> QED BY <1>1, <3>1, <3>2
  <2> QED BY <2>1, <2>2
<1>3. \A i \in Nat \ I : g[i] = IF i < n THEN f[i] ELSE (i - n) + m
  OBVIOUS
<1>4. g \in [Nat \ I -> Nat \ D]
  BY <1>2
<1> HIDE DEF g
<1>5. ASSUME NEW j \in Nat \ D PROVE \E i \in Nat \ I : g[i] = j
  <2>1. CASE j < m
    <3>1. j \in Indices(old) \ D
      BY <1>0, <2>1
    <3>2. PICK i \in Indices(new) \ I : f[i] = j
      BY <1>1, <3>1
    <3>3. i \in Nat \ I /\ i < n
      BY <1>0, <3>2
    <3> QED BY <1>3, <3>2, <3>3
  <2>2. CASE ~ (j < m)
    <3> DEFINE i == (j - m) + n
    <3>1. i \in Nat /\ ~ (i < n) /\ (i - n) + m = j
      BY <1>0, <2>2
    <3> HIDE DEF i
    <3>2. i \notin Indices(new)
      BY <1>0, <3>1
    <3>3. i \in Nat \ I
      BY <1>1, <3>1, <3>2
    <3> QED BY <1>3, <3>1, <3>3
  <2> QED BY <2>1, <2>2
<1>6. ASSUME NEW i \in Nat \ I, NEW k \in Nat \ I, i < k PROVE g[i] < g[k]
  <2>1. CASE k < n
    <3>1. i < n
      BY <1>0, <1>6, <2>1
    <3> QED BY <1>1, <1>2, <1>3, <1>6, <2>1, <3>1
  <2>2. CASE i < n /\ ~ (k < n)
    <3>1. f[i] \in Nat /\ f[i] < m /\ (k - n) + m \in Nat /\ ~ ((k - n) + m < m)
      BY <1>2, <2>2
    <3>2. f[i] < (k - n) + m
      BY <1>0, <3>1
    <3> QED BY <1>3, <2>2, <3>2
  <2>3. CASE ~ (i < n)
    <3>1. ~ (k < n)
      BY <1>0, <1>6, <2>3
    <3>2. (i - n) + m < (k - n) + m
      BY <1>0, <1>6
    <3> QED BY <1>3, <2>3, <3>1, <3>2
  <2> QED BY <2>1, <2>2, <2>3
<1>7. InOrder(g, D, I)
  BY <1>4, <1>5, <1>6 DEF InOrder
<1>8. ASSUME NEW i \in Nat \ I
      PROVE  /\ i < n <=> Before(D, I, i) < m
             /\ i < n => old[Before(D, I, i) + 1] = new[i + 1]
  <2>1. Before(D, I, i) = g[i]
    BY <1>0, <1>7, InOrderIsBefore
  <2> QED BY <1>1, <1>2, <1>3, <2>1
<1>9. FollowsIndices(D, I, old, new)
  BY <1>1, <1>8 DEF FollowsIndices, m, n
<1> QED BY <1>0, <1>9, LeadsIsFollowing DEF D, I

-----------------------------------------------------------------------------
(* calculate_moves_unsorted, row by row. *)
Comparisons == [expected : Nat, c : ChangeSets, removed : IndexSets]

(* What a comparison makes of one row. *)
LEMMA CompareCases ==
  ASSUME NEW s \in Comparisons, NEW row, NEW candidates,
         row.prev_tv_index \in Nat, row.tv_index \in Nat, row.shifted_tv_index \in Nat
  PROVE  LET calc == unshift(s.c.insertions, row.tv_index) + count(s.removed, row.prev_tv_index)
             u == CompareUnsorted(s, row, candidates)
             kept == /\ u.c = s.c /\ u.removed = s.removed
                     /\ u.expected = row.shifted_tv_index + 1
         IN  /\ u \in Comparisons
             /\ u.c.deletions = s.c.deletions /\ u.c.modifications = s.c.modifications
             /\ \/ kept /\ row.shifted_tv_index = s.expected
                \/ kept /\ row.row_index \notin candidates
                \/ kept /\ row.shifted_tv_index = calc
                \/ /\ u.expected = s.expected
                   /\ u.c.insertions = s.c.insertions \cup {row.tv_index}
                   /\ u.removed = s.removed \cup {row.prev_tv_index}
                   /\ u.c.moves = Append(s.c.moves, Move(row.prev_tv_index, row.tv_index))
<1> DEFINE calc == unshift(s.c.insertions, row.tv_index) + count(s.removed, row.prev_tv_index)
           u == CompareUnsorted(s, row, candidates)
           kept == /\ u.c = s.c /\ u.removed = s.removed
                   /\ u.expected = row.shifted_tv_index + 1
           x == row.shifted_tv_index
<1>0. /\ s.expected \in Nat /\ s.c \in ChangeSets /\ s.removed \in IndexSets
      /\ s.c.insertions \in IndexSets /\ s.c.moves \in Seq(Moves)
      /\ s = [expected |-> s.expected, c |-> s.c, removed |-> s.removed]
  BY DEF Comparisons, ChangeSets
<1>1. row.tv_index - count(s.c.insertions, row.tv_index) + count(s.removed, row.prev_tv_index) = calc
  BY DEF unshift
<1> DEFINE moved == [s EXCEPT !.c.moves = Append(@, Move(row.prev_tv_index, row.tv_index)),
                              !.c.insertions = @ \cup {row.tv_index},
                              !.removed = @ \cup {row.prev_tv_index}]
<1>2. u = IF x = s.expected THEN [s EXCEPT !.expected = @ + 1]
          ELSE IF row.row_index \notin candidates THEN [s EXCEPT !.expected = x + 1]
          ELSE IF x = calc THEN [s EXCEPT !.expected = calc + 1] ELSE moved
  BY <1>1 DEF CompareUnsorted
<1> HIDE DEF calc, u
<1>3. ASSUME u = [s EXCEPT !.expected = x + 1]
      PROVE  u \in Comparisons /\ u.c.deletions = s.c.deletions /\ u.c.modifications = s.c.modifications /\ kept
  BY <1>0, <1>3 DEF Comparisons
<1>4. CASE x = s.expected
  <2>1. u = [s EXCEPT !.expected = x + 1]
    BY <1>2, <1>4
  <2> QED BY <1>3, <1>4, <2>1 DEF u
<1>5. CASE x # s.expected /\ row.row_index \notin candidates
  <2>1. u = [s EXCEPT !.expected = x + 1]
    BY <1>2, <1>5
  <2> QED BY <1>3, <1>5, <2>1 DEF u
<1>6. CASE x # s.expected /\ row.row_index \in candidates /\ x = calc
  <2>1. u = [s EXCEPT !.expected = x + 1]
    BY <1>2, <1>6
  <2> QED BY <1>3, <1>6, <2>1 DEF u, calc
<1>7. CASE x # s.expected /\ row.row_index \in candidates /\ x # calc
  <2> DEFINE moves == Append(s.c.moves, Move(row.prev_tv_index, row.tv_index))
             ins == s.c.insertions \cup {row.tv_index}
             rem == s.removed \cup {row.prev_tv_index}
             d == [s.c EXCEPT !.moves = moves, !.insertions = ins]
  <2>1. u = moved
    BY <1>2, <1>7
  <2>2. moves \in Seq(Moves) /\ ins \in IndexSets /\ rem \in IndexSets
    <3>1. Move(row.prev_tv_index, row.tv_index) \in Moves
      BY DEF Move, Moves
    <3>2. {row.tv_index} \in IndexSets /\ {row.prev_tv_index} \in IndexSets
      BY OneIndex
    <3> QED BY <1>0, <3>1, <3>2, AppendedMove, UnionIsFinite
  <2>3. u = [expected |-> s.expected, c |-> d, removed |-> rem]
    BY <1>0, <2>1
  <2> HIDE DEF moves, ins, rem
  <2>4. d \in ChangeSets /\ d.deletions = s.c.deletions /\ d.modifications = s.c.modifications /\ d.insertions = ins /\ d.moves = moves
    BY <1>0, <2>2 DEF ChangeSets
  <2> HIDE DEF d
  <2>5. /\ u \in Comparisons /\ u.c = d /\ u.expected = s.expected /\ u.removed = rem
    BY <1>0, <2>2, <2>3, <2>4 DEF Comparisons
  <2> QED BY <2>4, <2>5 DEF u, moves, ins, rem
<1> QED BY <1>4, <1>5, <1>6, <1>7 DEF u, calc

(* calculate_moves_unsorted takes one row after another. *)
RowsCompared(h, rows, removed, candidates, c) ==
  /\ h[0] = [expected |-> 0, c |-> c, removed |-> removed]
  /\ \A k \in 1 .. Len(rows) : h[k] = CompareUnsorted(h[k - 1], rows[k], candidates)
  /\ calculate_moves_unsorted(rows, removed, candidates, c)
       = [h[Len(rows)].c EXCEPT !.deletions = @ \cup h[Len(rows)].removed]

LEMMA UnsortedSteps ==
  ASSUME NEW c \in ChangeSets, NEW removed \in IndexSets, NEW candidates,
         NEW rows, Len(rows) \in Nat, DOMAIN rows = 1 .. Len(rows),
         \A k \in DOMAIN rows : /\ rows[k].prev_tv_index \in Nat /\ rows[k].tv_index \in Nat
                                 /\ rows[k].shifted_tv_index \in Nat
  PROVE  \E h : RowsCompared(h, rows, removed, candidates, c)
<1> DEFINE n == Len(rows)
           base == [expected |-> 0, c |-> c, removed |-> removed]
           Folds(g) == g = [s \in SUBSET DOMAIN rows |->
                             IF s = {} THEN base
                             ELSE CompareUnsorted(g[s \ {Max(s)}], rows[Max(s)], candidates)]
           F == [p \in Comparisons \X (1 .. n) |-> CompareUnsorted(p[1], rows[p[2]], candidates)]
<1>0. n \in Nat /\ DOMAIN rows = 1 .. n
  OBVIOUS
<1>1. base \in Comparisons
  BY DEF Comparisons
<1>2. F \in [Comparisons \X (1 .. n) -> Comparisons]
  <2>1. ASSUME NEW d \in Comparisons, NEW k \in 1 .. n
        PROVE  CompareUnsorted(d, rows[k], candidates) \in Comparisons
    <3>1. rows[k].prev_tv_index \in Nat /\ rows[k].tv_index \in Nat /\ rows[k].shifted_tv_index \in Nat
      BY <1>0
    <3> QED BY <3>1, CompareCases
  <2> HIDE DEF n
  <2> QED BY <2>1
<1>3. \E g : Folds(g)
  <2> HIDE DEF base
  <2>1. PICK g \in [SUBSET (1 .. n) -> Comparisons] : Folded(g, n, base, F)
    <3> HIDE DEF F
    <3> QED BY <1>0, <1>1, <1>2, FoldIsThere
  <2>2. ASSUME NEW s \in SUBSET (1 .. n), s # {}
        PROVE  F[<<g[s \ {Max(s)}], Max(s)>>]
                 = CompareUnsorted(g[s \ {Max(s)}], rows[Max(s)], candidates)
    <3>1. Max(s) \in 1 .. n
      BY <1>0, <2>2, LastOfInitial
    <3>2. g[s \ {Max(s)}] \in Comparisons
      BY <2>1
    <3> QED BY <3>1, <3>2
  <2>3. g = [s \in SUBSET (1 .. n) |->
               IF s = {} THEN base
               ELSE CompareUnsorted(g[s \ {Max(s)}], rows[Max(s)], candidates)]
    <3> HIDE DEF F
    <3> QED BY <2>1, <2>2 DEF Folded
  <2> QED BY <1>0, <2>3
<1> DEFINE f == CHOOSE g : Folds(g)
           h == [k \in 0 .. n |-> f[1 .. k]]
<1>4. calculate_moves_unsorted(rows, removed, candidates, c)
        = [f[DOMAIN rows].c EXCEPT !.deletions = @ \cup f[DOMAIN rows].removed]
  BY DEF calculate_moves_unsorted, FoldLeft, MapThenFoldSet
<1>5. Folds(f)
  <2> HIDE DEF Folds
  <2> QED BY <1>3
<1> HIDE DEF f, base
<1>6. f[{}] = base
  BY <1>5
<1>7. \A k \in 1 .. n : f[1 .. k] = CompareUnsorted(f[1 .. k - 1], rows[k], candidates)
  <2> TAKE k \in 1 .. n
  <2>1. k \in Nat \ {0} /\ 1 .. k \in SUBSET DOMAIN rows
    BY <1>0
  <2>2. 1 .. k # {} /\ Max(1 .. k) = k /\ (1 .. k) \ {k} = 1 .. k - 1
    BY <2>1, InitialSegments
  <2> QED BY <1>5, <2>1, <2>2
<1>8. h[0] = base
  BY <1>0, <1>6
<1>9. \A k \in 1 .. n : h[k] = CompareUnsorted(h[k - 1], rows[k], candidates)
  BY <1>0, <1>7
<1>10. calculate_moves_unsorted(rows, removed, candidates, c)
         = [h[n].c EXCEPT !.deletions = @ \cup h[n].removed]
  BY <1>0, <1>4
<1>11. RowsCompared(h, rows, removed, candidates, c)
  BY <1>8, <1>9, <1>10 DEF RowsCompared, base
<1> QED BY <1>11

(* What the comparison of the first k rows has come to, of which some have *)
(* moved: those that have not are in their order, up to the one expected,  *)
(* and all that are left were after them.                                  *)
Apart(s, rows, k, moved, unmatched, arrived) ==
  /\ s.c.insertions = arrived \cup {rows[l].tv_index : l \in moved}
  /\ s.removed = unmatched \cup {rows[l].prev_tv_index : l \in moved}
  /\ \A l \in (1 .. k) \ moved : rows[l].shifted_tv_index < s.expected
  /\ \A l \in DOMAIN rows : l > k => s.expected <= rows[l].shifted_tv_index
  /\ \A l, m \in (1 .. k) \ moved : l < m => rows[l].shifted_tv_index < rows[m].shifted_tv_index
  /\ \A i \in DOMAIN s.c.moves : \E l \in moved :
       s.c.moves[i] = Move(rows[l].prev_tv_index, rows[l].tv_index)
  /\ DifferentMoves(s.c.moves)

(* Old indices and shifted ones are in the same order. *)
LEMMA ShiftedInOrder ==
  ASSUME NEW rows, NEW gone, NEW unmatched, NEW arrived, NEW prev, NEW next, NEW old, NEW new,
         Staying(rows, gone, unmatched, arrived, prev, next, old, new),
         NEW l \in DOMAIN rows, NEW m \in DOMAIN rows
  PROVE  /\ rows[l].prev_tv_index \in Nat \ gone /\ rows[l].tv_index \in Nat
         /\ rows[l].shifted_tv_index \in Nat /\ rows[m].shifted_tv_index \in Nat
         /\ rows[m].prev_tv_index \in Nat \ gone
         /\ rows[l].shifted_tv_index < rows[m].shifted_tv_index
              <=> rows[l].prev_tv_index < rows[m].prev_tv_index
         /\ rows[l].shifted_tv_index = rows[m].shifted_tv_index => l = m
<1> DEFINE p == rows[l].prev_tv_index
           q == rows[m].prev_tv_index
<1>1. /\ gone \in IndexSets
      /\ p \in Indices(old) \ gone /\ q \in Indices(old) \ gone /\ rows[l].tv_index \in Indices(new)
      /\ rows[l].shifted_tv_index = unshift(gone, p)
      /\ rows[m].shifted_tv_index = unshift(gone, q)
      /\ p = q => l = m
  BY DEF Staying
<1>2. p \in Nat \ gone /\ q \in Nat \ gone /\ rows[l].tv_index \in Nat
  BY <1>1 DEF Indices
<1> HIDE DEF p, q
<1>3. /\ unshift(gone, p) \in Nat /\ unshift(gone, q) \in Nat
      /\ unshift(gone, p) = unshift(gone, q) => p = q
      /\ unshift(gone, p) < unshift(gone, q) <=> p < q
  BY <1>1, <1>2, UnshiftSteps, UnshiftInjective
<1> QED BY <1>1, <1>2, <1>3 DEF p, q

(* How many indices below one are in one of two sets. *)
LEMMA UnshiftBoth ==
  ASSUME NEW S \in IndexSets, NEW T \in IndexSets, S \cap T = {}, NEW i \in Nat
  PROVE  /\ S \cup T \in IndexSets
         /\ unshift(S \cup T, i) = unshift(S, i) - count(T, i)
         /\ unshift(S, i) \in Nat /\ count(T, i) \in Nat
<1> DEFINE A == {k \in S : k < i}
           B == {k \in T : k < i}
<1>1. IsFiniteSet(A) /\ IsFiniteSet(B) /\ A \cap B = {}
  BY FS_Subset DEF IndexSets
<1>2. /\ Cardinality(A) \in Nat /\ Cardinality(B) \in Nat
      /\ Cardinality(A \cup B) = Cardinality(A) + Cardinality(B) - Cardinality(A \cap B)
      /\ Cardinality({}) = 0
  BY <1>1, FS_Union, FS_CardinalityType, FS_EmptySet
<1>3. {k \in S \cup T : k < i} = A \cup B
  OBVIOUS
<1>4. /\ count(S \cup T, i) = Cardinality(A \cup B)
      /\ count(S, i) = Cardinality(A) /\ count(T, i) = Cardinality(B)
  BY <1>3 DEF count
<1> HIDE DEF A, B
<1>5. unshift(S, i) \in Nat
  BY UnshiftSteps
<1>6. Cardinality(A \cup B) = Cardinality(A) + Cardinality(B)
  <2>1. A \cap B = {}
    BY <1>1
  <2>2. Cardinality(A \cap B) = 0
    BY <1>2, <2>1, Zenon
  <2>3. Cardinality(A \cup B) = Cardinality(A) + Cardinality(B) - 0
    BY <1>2, <2>2, Zenon
  <2> QED BY <1>2, <2>3
<1>7. /\ unshift(S \cup T, i) = i - (Cardinality(A) + Cardinality(B))
      /\ unshift(S, i) - count(T, i) = (i - Cardinality(A)) - Cardinality(B)
  <2>1. /\ unshift(S \cup T, i) = i - count(S \cup T, i)
        /\ unshift(S, i) = i - count(S, i)
    BY DEF unshift
  <2> QED BY <1>4, <1>6, <2>1
<1>8. i - (Cardinality(A) + Cardinality(B)) = (i - Cardinality(A)) - Cardinality(B)
  BY <1>2
<1>9. S \cup T \in IndexSets
  BY UnionIsFinite
<1> QED BY <1>2, <1>4, <1>5, <1>7, <1>8, <1>9

(* A row that is where the insertions and removals so far let it be comes  *)
(* before all that are left: there is nothing else in between.             *)
LEMMA NoneBefore ==
  ASSUME NEW rows, NEW gone, NEW unmatched, NEW arrived, NEW prev, NEW next, NEW old, NEW new,
         Staying(rows, gone, unmatched, arrived, prev, next, old, new),
         NEW k \in Nat, k + 1 \in DOMAIN rows, NEW s \in Comparisons,
         NEW moved \in SUBSET (1 .. k), Apart(s, rows, k, moved, unmatched, arrived),
         rows[k + 1].shifted_tv_index
           = unshift(s.c.insertions, rows[k + 1].tv_index) + count(s.removed, rows[k + 1].prev_tv_index),
         NEW l \in DOMAIN rows, l > k + 1
  PROVE  rows[k + 1].shifted_tv_index < rows[l].shifted_tv_index
<1> DEFINE t == rows[k + 1].tv_index
           p == rows[k + 1].prev_tv_index
           x == rows[k + 1].shifted_tv_index
           ins == s.c.insertions
           rem == s.removed
           A == {i \in 0 .. t - 1 : i \notin ins}
           B == {j \in 0 .. p - 1 : j \notin gone \cup rem}
<1>1. /\ DOMAIN rows = 1 .. Len(rows) /\ Len(rows) \in Nat
      /\ gone \in IndexSets /\ ins \in IndexSets /\ rem \in IndexSets
      /\ 1 .. k \subseteq DOMAIN rows
  BY DEF Staying, Comparisons, ChangeSets
<1>2. /\ \A m \in DOMAIN rows :
           /\ rows[m].tv_index \in Indices(new) \ arrived
           /\ rows[m].prev_tv_index \in Indices(old) \ (gone \cup unmatched)
           /\ rows[m].shifted_tv_index = unshift(gone, rows[m].prev_tv_index)
      /\ \A i \in Indices(new) \ arrived : \E m \in DOMAIN rows : rows[m].tv_index = i
      /\ \A m, n \in DOMAIN rows : m < n => rows[m].tv_index < rows[n].tv_index
      /\ \A m, n \in DOMAIN rows : rows[m].prev_tv_index = rows[n].prev_tv_index => m = n
      /\ gone \cap unmatched = {}
  BY DEF Staying
<1>3. /\ ins = arrived \cup {rows[m].tv_index : m \in moved}
      /\ rem = unmatched \cup {rows[m].prev_tv_index : m \in moved}
      /\ \A m \in (1 .. k) \ moved : rows[m].shifted_tv_index < s.expected
      /\ s.expected <= x
  BY DEF Apart
<1>4. /\ t \in Indices(new) /\ t \in Nat /\ p \in Nat /\ x = unshift(gone, p) /\ x \in Nat
      /\ s.expected \in Nat
  <2>1. t \in Indices(new) /\ x = unshift(gone, p)
    BY <1>2
  <2>2. t \in Nat /\ p \in Nat /\ x \in Nat
    BY ShiftedInOrder
  <2> QED BY <2>1, <2>2 DEF Comparisons
<1>5. \A m \in DOMAIN rows : /\ rows[m].prev_tv_index \in Nat /\ rows[m].shifted_tv_index \in Nat
                             /\ rows[m].tv_index \in Nat
                             /\ rows[m].shifted_tv_index < x <=> rows[m].prev_tv_index < p
                             /\ rows[m].shifted_tv_index = x => m = k + 1
  BY ShiftedInOrder
<1>x. x = unshift(ins, t) + count(rem, p)
  OBVIOUS
<1> HIDE DEF t, p, x, ins, rem
<1>6. gone \cap rem = {}
  BY <1>1, <1>2, <1>3
<1>7. /\ IsFiniteSet(A) /\ IsFiniteSet(B)
      /\ Cardinality(A) = Cardinality(B)
  <2>1. /\ Cardinality(A) = unshift(ins, t) /\ IsFiniteSet(A)
        /\ unshift(ins, t) \in Nat
    BY <1>1, <1>4, PlaceIsUnshift, UnshiftSteps DEF Place
  <2>2. /\ gone \cup rem \in IndexSets /\ unshift(gone \cup rem, p) = unshift(gone, p) - count(rem, p)
        /\ count(rem, p) \in Nat
    <3>1. gone \in IndexSets /\ rem \in IndexSets /\ gone \cap rem = {} /\ p \in Nat
      BY <1>1, <1>4, <1>6
    <3> QED BY ONLY <3>1, UnshiftBoth
  <2>3. Cardinality(B) = unshift(gone \cup rem, p) /\ IsFiniteSet(B)
    BY <1>4, <2>2, PlaceIsUnshift DEF Place
  <2> HIDE DEF A, B
  <2> QED BY <1>4, <1>x, <2>1, <2>2, <2>3
(* The row at each index before, which has not moved. *)
<1>8. ASSUME NEW i \in A
      PROVE  \E m \in (1 .. k) \ moved : rows[m].tv_index = i /\ rows[m].prev_tv_index \in B
  <2>1. i \in Nat /\ i < t /\ i \notin ins
    BY <1>4
  <2>2. i \in Indices(new) \ arrived
    BY <1>3, <1>4, <2>1 DEF Indices
  <2>3. PICK m \in DOMAIN rows : rows[m].tv_index = i
    BY <1>2, <2>2
  <2>4. m \in 1 .. k
    <3>1. CASE m = k + 1
      BY <1>4, <2>1, <2>3, <3>1 DEF t
    <3>2. CASE m > k + 1
      <4>1. t < rows[m].tv_index
        BY <1>1, <1>2, <3>2 DEF t
      <4> QED BY <1>4, <2>1, <2>3, <4>1
    <3> QED BY <1>1, <3>1, <3>2
  <2>5. m \notin moved
    BY <1>3, <2>1, <2>3
  <2>6. rows[m].shifted_tv_index < x
    <3>1. rows[m].shifted_tv_index < s.expected /\ rows[m].shifted_tv_index \in Nat
      BY <1>3, <1>5, <2>3, <2>4, <2>5
    <3> QED BY <1>3, <1>4, <3>1
  <2>7. rows[m].prev_tv_index \in Nat /\ rows[m].prev_tv_index < p
    BY <1>5, <2>3, <2>6
  <2>8. rows[m].prev_tv_index \notin gone \cup unmatched
    BY <1>2, <2>3
  <2>9. rows[m].prev_tv_index \notin {rows[n].prev_tv_index : n \in moved}
    <3> SUFFICES ASSUME NEW n \in moved, rows[m].prev_tv_index = rows[n].prev_tv_index PROVE FALSE
      OBVIOUS
    <3>1. n \in DOMAIN rows
      BY <1>1
    <3>2. m = n
      BY <1>2, <3>1
    <3> QED BY <2>5, <3>2
  <2>10. rows[m].prev_tv_index \in B
    BY <1>3, <1>4, <2>7, <2>8, <2>9
  <2> QED BY <2>3, <2>4, <2>5, <2>10
<1> DEFINE R(i) == CHOOSE m \in (1 .. k) \ moved : rows[m].tv_index = i /\ rows[m].prev_tv_index \in B
           g == [i \in A |-> rows[R(i)].prev_tv_index]
<1> HIDE DEF A, B
<1>9. \A i \in A : /\ R(i) \in 1 .. k /\ rows[R(i)].tv_index = i /\ rows[R(i)].prev_tv_index \in B
  BY <1>8
<1> HIDE DEF R
<1>10. g \in Injection(A, B)
  <2>1. g \in [A -> B]
    BY <1>9
  <2>2. ASSUME NEW i \in A, NEW j \in A, g[i] = g[j] PROVE i = j
    <3>1. rows[R(i)].prev_tv_index = rows[R(j)].prev_tv_index
      BY <2>2
    <3> HIDE DEF g
    <3>2. R(i) \in DOMAIN rows /\ R(j) \in DOMAIN rows
      BY <1>1, <1>9
    <3>3. R(i) = R(j)
      BY <1>2, <3>1, <3>2
    <3> QED BY <1>9, <3>3
  <2> QED BY <2>1, <2>2 DEF Injection, IsInjective
<1>11. g \in Surjection(A, B)
  <2> HIDE DEF g
  <2> QED BY <1>7, <1>10, FS_Injection
<1>12. \A j \in B : \E i \in A : rows[R(i)].prev_tv_index = j
  BY <1>11 DEF Surjection
<1> HIDE DEF g
<1>13. ~ (rows[l].shifted_tv_index < x)
  <2> SUFFICES ASSUME rows[l].shifted_tv_index < x PROVE FALSE
    OBVIOUS
  <2>1. rows[l].prev_tv_index \in Nat /\ rows[l].prev_tv_index < p
    BY <1>5
  <2>2. rows[l].prev_tv_index \notin gone \cup unmatched
    BY <1>2
  <2>3. l \notin 1 .. k
    BY <1>1
  <2>4. rows[l].prev_tv_index \notin {rows[n].prev_tv_index : n \in moved}
    <3> SUFFICES ASSUME NEW n \in moved, rows[l].prev_tv_index = rows[n].prev_tv_index PROVE FALSE
      OBVIOUS
    <3>1. n \in 1 .. k /\ n \in DOMAIN rows
      BY <1>1
    <3> QED BY <1>2, <2>3, <3>1
  <2>5. rows[l].prev_tv_index \in B
    BY <1>3, <1>4, <2>1, <2>2, <2>4 DEF B
  <2>6. PICK i \in A : rows[R(i)].prev_tv_index = rows[l].prev_tv_index
    BY <1>12, <2>5
  <2>7. R(i) = l
    BY <1>1, <1>2, <1>9, <2>6
  <2> QED BY <1>9, <2>3, <2>7
<1>14. rows[l].shifted_tv_index # x
  <2>1. l # k + 1
    OBVIOUS
  <2> QED BY <1>5, <2>1
<1> QED BY <1>4, <1>5, <1>13, <1>14 DEF x

(* Only candidates have come before a row that was before them. *)
OthersStay(rows, candidates) ==
  \A l, m \in DOMAIN rows :
    l < m /\ rows[l].row_index \notin candidates => rows[l].prev_tv_index < rows[m].prev_tv_index

(* One more row is compared. *)
LEMMA CompareOne ==
  ASSUME NEW rows, NEW gone, NEW unmatched, NEW arrived, NEW prev, NEW next, NEW old, NEW new,
         Staying(rows, gone, unmatched, arrived, prev, next, old, new),
         NEW candidates, OthersStay(rows, candidates),
         NEW k \in Nat, k + 1 \in DOMAIN rows, NEW s \in Comparisons,
         NEW moved \in SUBSET (1 .. k), Apart(s, rows, k, moved, unmatched, arrived)
  PROVE  LET u == CompareUnsorted(s, rows[k + 1], candidates)
         IN  /\ u \in Comparisons /\ u.c.deletions = s.c.deletions /\ u.c.modifications = s.c.modifications
             /\ \E m \in SUBSET (1 .. k + 1) : Apart(u, rows, k + 1, m, unmatched, arrived)
<1> DEFINE row == rows[k + 1]
           u == CompareUnsorted(s, row, candidates)
           x == row.shifted_tv_index
           calc == unshift(s.c.insertions, row.tv_index) + count(s.removed, row.prev_tv_index)
           kept == u.c = s.c /\ u.removed = s.removed /\ u.expected = x + 1
<1>0. /\ DOMAIN rows = 1 .. Len(rows) /\ Len(rows) \in Nat
      /\ 1 .. k \subseteq DOMAIN rows /\ k + 1 \notin 1 .. k
      /\ 1 .. k + 1 = (1 .. k) \cup {k + 1}
  BY DEF Staying
<1>1. /\ s.c.insertions = arrived \cup {rows[l].tv_index : l \in moved}
      /\ s.removed = unmatched \cup {rows[l].prev_tv_index : l \in moved}
      /\ \A l \in (1 .. k) \ moved : rows[l].shifted_tv_index < s.expected
      /\ \A l \in DOMAIN rows : l > k => s.expected <= rows[l].shifted_tv_index
      /\ \A l, m \in (1 .. k) \ moved : l < m => rows[l].shifted_tv_index < rows[m].shifted_tv_index
      /\ \A i \in DOMAIN s.c.moves : \E l \in moved :
           s.c.moves[i] = Move(rows[l].prev_tv_index, rows[l].tv_index)
      /\ DifferentMoves(s.c.moves)
  BY DEF Apart
<1>2. /\ \A l \in DOMAIN rows : rows[l].shifted_tv_index \in Nat
      /\ \A l, m \in DOMAIN rows :
           /\ rows[l].shifted_tv_index < rows[m].shifted_tv_index
                <=> rows[l].prev_tv_index < rows[m].prev_tv_index
           /\ rows[l].shifted_tv_index = rows[m].shifted_tv_index => l = m
           /\ rows[l].prev_tv_index = rows[m].prev_tv_index => l = m
  <2>1. \A l, m \in DOMAIN rows : rows[l].prev_tv_index = rows[m].prev_tv_index => l = m
    BY DEF Staying
  <2>2. ASSUME NEW l \in DOMAIN rows, NEW m \in DOMAIN rows
        PROVE  /\ rows[l].shifted_tv_index \in Nat
               /\ rows[l].shifted_tv_index < rows[m].shifted_tv_index
                    <=> rows[l].prev_tv_index < rows[m].prev_tv_index
               /\ rows[l].shifted_tv_index = rows[m].shifted_tv_index => l = m
    BY ShiftedInOrder
  <2> QED BY <2>1, <2>2
<1>3. /\ row.prev_tv_index \in Nat /\ row.tv_index \in Nat /\ x \in Nat /\ s.expected \in Nat
      /\ s.expected <= x /\ s.c.moves \in Seq(Moves)
  <2>1. row.prev_tv_index \in Nat /\ row.tv_index \in Nat /\ x \in Nat
    BY ShiftedInOrder
  <2>2. s.expected <= x
    BY <1>0, <1>1
  <2> QED BY <2>1, <2>2 DEF Comparisons, ChangeSets
<1>4. /\ u \in Comparisons /\ u.c.deletions = s.c.deletions /\ u.c.modifications = s.c.modifications
      /\ \/ kept /\ x = s.expected
         \/ kept /\ row.row_index \notin candidates
         \/ kept /\ x = calc
         \/ /\ u.expected = s.expected
            /\ u.c.insertions = s.c.insertions \cup {row.tv_index}
            /\ u.removed = s.removed \cup {row.prev_tv_index}
            /\ u.c.moves = Append(s.c.moves, Move(row.prev_tv_index, row.tv_index))
  BY <1>3, CompareCases
<1> HIDE DEF u
<1>5. ASSUME kept, \A l \in DOMAIN rows : l > k + 1 => x < rows[l].shifted_tv_index
      PROVE  Apart(u, rows, k + 1, moved, unmatched, arrived)
  <2> DEFINE rest == (1 .. k + 1) \ moved
  <2>0. rest = ((1 .. k) \ moved) \cup {k + 1} /\ rest \subseteq DOMAIN rows
    BY <1>0
  <2>1. ASSUME NEW l \in (1 .. k) \ moved PROVE rows[l].shifted_tv_index < x
    <3>1. rows[l].shifted_tv_index < s.expected /\ rows[l].shifted_tv_index \in Nat
      BY <1>0, <1>1, <1>2
    <3> QED BY <1>3, <3>1
  <2> HIDE DEF rest
  <2>2. \A l \in rest : rows[l].shifted_tv_index < u.expected
    <3> TAKE l \in rest
    <3>1. rows[l].shifted_tv_index <= x /\ rows[l].shifted_tv_index \in Nat
      BY <1>2, <1>3, <2>0, <2>1
    <3> QED BY <1>3, <1>5, <3>1
  <2>3. \A l \in DOMAIN rows : l > k + 1 => u.expected <= rows[l].shifted_tv_index
    <3> SUFFICES ASSUME NEW l \in DOMAIN rows, l > k + 1
                 PROVE  u.expected <= rows[l].shifted_tv_index
      OBVIOUS
    <3>1. x < rows[l].shifted_tv_index /\ rows[l].shifted_tv_index \in Nat
      BY <1>2, <1>5
    <3> QED BY <1>3, <1>5, <3>1
  <2>4. \A l, m \in rest : l < m => rows[l].shifted_tv_index < rows[m].shifted_tv_index
    <3> SUFFICES ASSUME NEW l \in rest, NEW m \in rest, l < m
                 PROVE  rows[l].shifted_tv_index < rows[m].shifted_tv_index
      OBVIOUS
    <3>1. l \in (1 .. k) \ moved
      BY <1>0, <2>0
    <3>2. CASE m \in (1 .. k) \ moved
      BY <1>1, <3>1, <3>2
    <3>3. CASE m = k + 1
      BY <2>1, <3>1, <3>3
    <3> QED BY <2>0, <3>2, <3>3
  <2>5. /\ u.c.insertions = s.c.insertions /\ u.removed = s.removed /\ u.c.moves = s.c.moves
    BY <1>5
  <2> HIDE DEF kept
  <2> QED BY <1>1, <2>2, <2>3, <2>4, <2>5 DEF Apart, rest
<1>6. ASSUME kept, \A l \in DOMAIN rows : l > k + 1 => x < rows[l].shifted_tv_index
      PROVE  \E m \in SUBSET (1 .. k + 1) : Apart(u, rows, k + 1, m, unmatched, arrived)
  <2>1. moved \in SUBSET (1 .. k + 1)
    BY <1>0
  <2> QED BY <1>5, <1>6, <2>1
<1>7. ASSUME kept, x = s.expected
      PROVE  \E m \in SUBSET (1 .. k + 1) : Apart(u, rows, k + 1, m, unmatched, arrived)
  <2>1. ASSUME NEW l \in DOMAIN rows, l > k + 1 PROVE x < rows[l].shifted_tv_index
    <3>0. l \in Nat /\ l > k /\ l # k + 1
      BY <1>0, <2>1
    <3>1. s.expected <= rows[l].shifted_tv_index /\ rows[l].shifted_tv_index \in Nat
      BY <1>1, <1>2, <3>0
    <3>2. rows[l].shifted_tv_index # x
      BY <1>2, <3>0
    <3> QED BY <1>3, <1>7, <3>1, <3>2
  <2> QED BY <1>6, <1>7, <2>1
<1>8. ASSUME kept, row.row_index \notin candidates
      PROVE  \E m \in SUBSET (1 .. k + 1) : Apart(u, rows, k + 1, m, unmatched, arrived)
  <2>1. ASSUME NEW l \in DOMAIN rows, l > k + 1 PROVE x < rows[l].shifted_tv_index
    <3>1. row.prev_tv_index < rows[l].prev_tv_index
      <4>1. k + 1 < l
        BY <1>0, <2>1
      <4> QED BY <1>8, <4>1 DEF OthersStay
    <3> QED BY <1>2, <3>1
  <2> QED BY <1>6, <1>8, <2>1
<1>9. ASSUME kept, x = calc
      PROVE  \E m \in SUBSET (1 .. k + 1) : Apart(u, rows, k + 1, m, unmatched, arrived)
  <2>1. ASSUME NEW l \in DOMAIN rows, l > k + 1 PROVE x < rows[l].shifted_tv_index
    <3>1. x = unshift(s.c.insertions, row.tv_index) + count(s.removed, row.prev_tv_index)
      BY <1>9
    <3> QED BY <2>1, <3>1, NoneBefore
  <2> QED BY <1>6, <1>9, <2>1
<1>10. ASSUME u.expected = s.expected,
              u.c.insertions = s.c.insertions \cup {row.tv_index},
              u.removed = s.removed \cup {row.prev_tv_index},
              u.c.moves = Append(s.c.moves, Move(row.prev_tv_index, row.tv_index))
       PROVE  \E m \in SUBSET (1 .. k + 1) : Apart(u, rows, k + 1, m, unmatched, arrived)
  <2> DEFINE m == moved \cup {k + 1}
             o == Move(row.prev_tv_index, row.tv_index)
             moves == Append(s.c.moves, o)
  <2>1. m \in SUBSET (1 .. k + 1) /\ (1 .. k + 1) \ m = (1 .. k) \ moved
    BY <1>0
  <2>2. /\ u.c.insertions = arrived \cup {rows[l].tv_index : l \in m}
        /\ u.removed = unmatched \cup {rows[l].prev_tv_index : l \in m}
    BY <1>1, <1>10
  <2>3. \A l \in DOMAIN rows : l > k + 1 => u.expected <= rows[l].shifted_tv_index
    <3> SUFFICES ASSUME NEW l \in DOMAIN rows, l > k + 1
                 PROVE  s.expected <= rows[l].shifted_tv_index
      BY <1>10
    <3>1. l > k
      BY <1>0
    <3> QED BY <1>1, <3>1
  <2>4. o \in Moves /\ o.from = row.prev_tv_index /\ o.to = row.tv_index
    BY <1>3 DEF Move, Moves
  <2>5. /\ DOMAIN moves = DOMAIN s.c.moves \cup {Len(s.c.moves) + 1}
        /\ Len(s.c.moves) + 1 \notin DOMAIN s.c.moves
        /\ \A i \in DOMAIN s.c.moves : moves[i] = s.c.moves[i]
        /\ moves[Len(s.c.moves) + 1] = o
    <3> HIDE DEF o
    <3> QED BY <1>3, <2>4, AppendedMove
  <2>6. u.c.moves = moves
    BY <1>10
  <2> HIDE DEF moves
  <2>7. \A i \in DOMAIN moves : \E l \in m : moves[i] = Move(rows[l].prev_tv_index, rows[l].tv_index)
    <3> TAKE i \in DOMAIN moves
    <3>1. CASE i \in DOMAIN s.c.moves
      BY <1>1, <2>5, <3>1
    <3>2. CASE i = Len(s.c.moves) + 1
      BY <2>5, <3>2
    <3> QED BY <2>5, <3>1, <3>2
  <2>8. \A i \in DOMAIN s.c.moves : s.c.moves[i].from # o.from
    <3> TAKE i \in DOMAIN s.c.moves
    <3>1. PICK l \in moved : s.c.moves[i] = Move(rows[l].prev_tv_index, rows[l].tv_index)
      BY <1>1
    <3>2. s.c.moves[i].from = rows[l].prev_tv_index
      BY <3>1 DEF Move
    <3>3. l \in DOMAIN rows /\ l # k + 1
      BY <1>0
    <3> QED BY <1>2, <2>4, <3>2, <3>3
  <2> HIDE DEF o
  <2>9. DifferentMoves(moves)
    BY <1>1, <2>5, <2>8 DEF DifferentMoves
  <2>10. \A l \in (1 .. k + 1) \ m : rows[l].shifted_tv_index < u.expected
    BY <1>1, <1>10, <2>1
  <2>11. \A l, n \in (1 .. k + 1) \ m : l < n => rows[l].shifted_tv_index < rows[n].shifted_tv_index
    BY <1>1, <2>1
  <2> HIDE DEF m
  <2>12. Apart(u, rows, k + 1, m, unmatched, arrived)
    BY ONLY <2>2, <2>3, <2>6, <2>7, <2>9, <2>10, <2>11 DEF Apart
  <2> QED BY <2>1, <2>12
<1>11. /\ u \in Comparisons /\ u.c.deletions = s.c.deletions /\ u.c.modifications = s.c.modifications
       /\ \E m \in SUBSET (1 .. k + 1) : Apart(u, rows, k + 1, m, unmatched, arrived)
  <2> HIDE DEF kept
  <2> QED BY <1>4, <1>7, <1>8, <1>9, <1>10
<1> QED BY <1>11 DEF u

(* All rows are compared. *)
LEMMA CompareAll ==
  ASSUME NEW rows, NEW gone, NEW unmatched, NEW arrived, NEW prev, NEW next, NEW old, NEW new,
         Staying(rows, gone, unmatched, arrived, prev, next, old, new),
         NEW candidates, OthersStay(rows, candidates),
         NEW c \in ChangeSets, c.insertions = arrived, c.moves = << >>
  PROVE  \E s \in Comparisons, moved \in SUBSET DOMAIN rows :
           /\ Apart(s, rows, Len(rows), moved, unmatched, arrived)
           /\ s.c.deletions = c.deletions /\ s.c.modifications = c.modifications
           /\ calculate_moves_unsorted(rows, unmatched, candidates, c)
                = [s.c EXCEPT !.deletions = @ \cup s.removed]
<1> DEFINE n == Len(rows)
           base == [expected |-> 0, c |-> c, removed |-> unmatched]
<1>0. n \in Nat /\ DOMAIN rows = 1 .. n /\ unmatched \in IndexSets
  BY DEF Staying
<1>1. ASSUME NEW k \in DOMAIN rows
      PROVE  /\ rows[k].prev_tv_index \in Nat /\ rows[k].tv_index \in Nat
             /\ rows[k].shifted_tv_index \in Nat
  BY ShiftedInOrder
<1>h. PICK h : RowsCompared(h, rows, unmatched, candidates, c)
  <2>1. Len(rows) \in Nat /\ DOMAIN rows = 1 .. Len(rows) /\ c \in ChangeSets
    BY <1>0
  <2> QED BY ONLY <1>0, <1>1, <2>1, UnsortedSteps
<1>2. /\ h[0] = base
      /\ \A k \in 1 .. n : h[k] = CompareUnsorted(h[k - 1], rows[k], candidates)
      /\ calculate_moves_unsorted(rows, unmatched, candidates, c)
           = [h[n].c EXCEPT !.deletions = @ \cup h[n].removed]
  BY <1>h DEF RowsCompared
<1> HIDE DEF n
<1> DEFINE T == {k \in Nat : k <= n =>
                   /\ h[k] \in Comparisons /\ h[k].c.deletions = c.deletions /\ h[k].c.modifications = c.modifications
                   /\ \E m \in SUBSET (1 .. k) : Apart(h[k], rows, k, m, unmatched, arrived)}
<1>3. 0 \in T
  <2>1. /\ base \in Comparisons /\ base.c = c /\ base.removed = unmatched /\ base.expected = 0
    BY <1>0 DEF Comparisons
  <2> HIDE DEF base
  <2>2. \A l \in DOMAIN rows : base.expected <= rows[l].shifted_tv_index
    BY <1>1, <2>1
  <2>3. DOMAIN c.moves = {}
    OBVIOUS
  <2>4. DifferentMoves(base.c.moves)
    BY <2>1, <2>3 DEF DifferentMoves
  <2>5. 1 .. 0 = {} /\ {} \in SUBSET (1 .. 0)
    OBVIOUS
  <2>6. Apart(base, rows, 0, {}, unmatched, arrived)
    BY <2>1, <2>2, <2>3, <2>4, <2>5 DEF Apart
  <2>7. /\ h[0] \in Comparisons /\ h[0].c.deletions = c.deletions /\ h[0].c.modifications = c.modifications
        /\ \E m \in SUBSET (1 .. 0) : Apart(h[0], rows, 0, m, unmatched, arrived)
    BY <1>2, <2>1, <2>5, <2>6
  <2> QED BY <2>7
<1>4. ASSUME NEW k \in Nat, k \in T PROVE k + 1 \in T
  <2> SUFFICES ASSUME k + 1 <= n
               PROVE  /\ h[k + 1] \in Comparisons /\ h[k + 1].c.deletions = c.deletions /\ h[k + 1].c.modifications = c.modifications
                      /\ \E m \in SUBSET (1 .. k + 1) :
                           Apart(h[k + 1], rows, k + 1, m, unmatched, arrived)
    OBVIOUS
  <2>1. k <= n /\ k + 1 \in 1 .. n /\ (k + 1) - 1 = k
    BY <1>0
  <2>2. /\ h[k] \in Comparisons /\ h[k].c.deletions = c.deletions /\ h[k].c.modifications = c.modifications
        /\ \E m \in SUBSET (1 .. k) : Apart(h[k], rows, k, m, unmatched, arrived)
    BY <1>4, <2>1
  <2>3. h[k + 1] = CompareUnsorted(h[k], rows[k + 1], candidates)
    BY <1>2, <2>1
  <2>4. PICK m \in SUBSET (1 .. k) : Apart(h[k], rows, k, m, unmatched, arrived)
    BY <2>2
  <2>5. k + 1 \in DOMAIN rows
    BY <1>0, <2>1
  <2> HIDE DEF T
  <2>6. LET u == CompareUnsorted(h[k], rows[k + 1], candidates)
        IN  /\ u \in Comparisons /\ u.c.deletions = h[k].c.deletions /\ u.c.modifications = h[k].c.modifications
            /\ \E x \in SUBSET (1 .. k + 1) : Apart(u, rows, k + 1, x, unmatched, arrived)
    BY <2>2, <2>4, <2>5, CompareOne
  <2> QED BY <2>2, <2>3, <2>6
<1>5. n \in T
  <2> HIDE DEF T
  <2>1. Nat \subseteq T
    BY <1>3, <1>4, Induction
  <2> QED BY <1>0, <2>1
<1>6. /\ h[n] \in Comparisons /\ h[n].c.deletions = c.deletions /\ h[n].c.modifications = c.modifications
      /\ \E m \in SUBSET (1 .. n) : Apart(h[n], rows, n, m, unmatched, arrived)
  BY <1>0, <1>5
<1> QED BY <1>0, <1>2, <1>6 DEF n

(* What a comparison has come to, when some rows have moved and the others *)
(* are in their old order.                                                 *)
OthersKept(b, moved, rows, gone, unmatched, arrived) ==
  /\ moved \subseteq DOMAIN rows
  /\ b \in ChangeSets
  /\ b.deletions = gone \cup unmatched \cup {rows[l].prev_tv_index : l \in moved}
  /\ b.insertions = arrived \cup {rows[l].tv_index : l \in moved}
  /\ \A l, m \in DOMAIN rows \ moved : l < m => rows[l].prev_tv_index < rows[m].prev_tv_index

(* A comparison after which the rows that have not moved are in their old  *)
(* order makes the rows there are of those there were.                     *)
LEMMA KeptRowsLead ==
  ASSUME NEW E, NEW old \in Seq(E), NEW new \in Seq(E),
         NEW rows, NEW gone, NEW unmatched, NEW arrived, NEW prev, NEW next,
         Staying(rows, gone, unmatched, arrived, prev, next, old, new),
         NEW b, NEW moved, OthersKept(b, moved, rows, gone, unmatched, arrived)
  PROVE  b \in ChangeSets /\ Leads(b, old, new)
<1>0. /\ gone \in IndexSets /\ unmatched \in IndexSets /\ arrived \in IndexSets
      /\ gone \cup unmatched \subseteq Indices(old) /\ arrived \subseteq Indices(new)
      /\ DOMAIN rows = 1 .. Len(rows) /\ Len(rows) \in Nat
      /\ \A l \in DOMAIN rows :
           /\ rows[l].tv_index \in Indices(new) \ arrived
           /\ rows[l].prev_tv_index \in Indices(old) \ (gone \cup unmatched)
           /\ old[rows[l].prev_tv_index + 1] = new[rows[l].tv_index + 1]
      /\ \A i \in Indices(new) \ arrived : \E l \in DOMAIN rows : rows[l].tv_index = i
      /\ \A j \in Indices(old) \ (gone \cup unmatched) :
           \E l \in DOMAIN rows : rows[l].prev_tv_index = j
      /\ \A l, m \in DOMAIN rows : l < m => rows[l].tv_index < rows[m].tv_index
      /\ \A l, m \in DOMAIN rows : rows[l].prev_tv_index = rows[m].prev_tv_index => l = m
  BY DEF Staying
<1> DEFINE D == b.deletions
           I == b.insertions
<1>1. moved \subseteq DOMAIN rows /\ b \in ChangeSets
  BY DEF OthersKept
<1>2. \A l, m \in DOMAIN rows \ moved : l < m => rows[l].prev_tv_index < rows[m].prev_tv_index
  BY DEF OthersKept
<1>3. D \in IndexSets /\ I \in IndexSets
  BY <1>1 DEF ChangeSets
<1>4. /\ D = gone \cup unmatched \cup {rows[l].prev_tv_index : l \in moved}
      /\ I = arrived \cup {rows[l].tv_index : l \in moved}
  BY DEF OthersKept
<1> HIDE DEF D, I
<1>5. D \subseteq Indices(old) /\ I \subseteq Indices(new)
  BY <1>0, <1>1, <1>4
<1>6. \A l, m \in DOMAIN rows : rows[l].tv_index = rows[m].tv_index => l = m
  <2> SUFFICES ASSUME NEW l \in DOMAIN rows, NEW m \in DOMAIN rows,
                      rows[l].tv_index = rows[m].tv_index, l # m
               PROVE  FALSE
    OBVIOUS
  <2>1. l < m \/ m < l
    BY <1>0
  <2>2. rows[l].tv_index \in Nat /\ rows[m].tv_index \in Nat
    BY <1>0 DEF Indices
  <2> QED BY <1>0, <2>1, <2>2
<1> DEFINE Q(i) == CHOOSE l \in DOMAIN rows : rows[l].tv_index = i
           f == [i \in Indices(new) \ I |-> rows[Q(i)].prev_tv_index]
<1>7. ASSUME NEW i \in Indices(new) \ I
      PROVE  /\ Q(i) \in DOMAIN rows \ moved /\ rows[Q(i)].tv_index = i
             /\ rows[Q(i)].prev_tv_index \in Indices(old) \ D
  <2>1. Q(i) \in DOMAIN rows /\ rows[Q(i)].tv_index = i
    BY <1>0, <1>4
  <2> HIDE DEF Q
  <2>2. Q(i) \notin moved
    BY <1>4, <2>1
  <2>3. rows[Q(i)].prev_tv_index \notin {rows[l].prev_tv_index : l \in moved}
    BY <1>0, <1>1, <2>1, <2>2
  <2> QED BY <1>0, <1>4, <2>1, <2>2, <2>3
<1>8. \A l \in DOMAIN rows : Q(rows[l].tv_index) = l
  BY <1>6
<1> HIDE DEF Q
<1>9. f \in [Indices(new) \ I -> Indices(old) \ D]
  BY <1>7
<1>10. ASSUME NEW j \in Indices(old) \ D PROVE \E i \in Indices(new) \ I : f[i] = j
  <2>1. PICK l \in DOMAIN rows : rows[l].prev_tv_index = j
    BY <1>0, <1>4
  <2>2. l \notin moved
    BY <1>4, <2>1
  <2>3. rows[l].tv_index \notin {rows[m].tv_index : m \in moved}
    BY <1>1, <1>6, <2>2
  <2>4. rows[l].tv_index \in Indices(new) \ I
    BY <1>0, <1>4, <2>3
  <2> QED BY <1>8, <2>1, <2>4
<1>11. ASSUME NEW i \in Indices(new) \ I, NEW k \in Indices(new) \ I, i < k PROVE f[i] < f[k]
  <2>1. /\ Q(i) \in DOMAIN rows \ moved /\ Q(k) \in DOMAIN rows \ moved
        /\ rows[Q(i)].tv_index = i /\ rows[Q(k)].tv_index = k
    BY <1>7
  <2>2. i \in Nat /\ k \in Nat /\ Q(i) \in Nat /\ Q(k) \in Nat
    BY <1>0, <2>1 DEF Indices
  <2>3. ~ (Q(k) < Q(i)) /\ Q(k) # Q(i)
    BY <1>0, <1>11, <2>1, <2>2
  <2>4. Q(i) < Q(k)
    BY <2>2, <2>3
  <2>5. rows[Q(i)].prev_tv_index < rows[Q(k)].prev_tv_index
    BY <1>2, <2>1, <2>4
  <2> QED BY <2>5
<1>12. \A i \in Indices(new) \ I : old[f[i] + 1] = new[i + 1]
  BY <1>0, <1>7
<1> HIDE DEF f
<1>13. Leads(b, old, new)
  <2>1. D = b.deletions /\ I = b.insertions
    BY DEF D, I
  <2>2. b.deletions \in IndexSets /\ b.insertions \in IndexSets
    BY <1>3, <2>1
  <2>3. b.deletions \subseteq Indices(old) /\ b.insertions \subseteq Indices(new)
    BY <1>5, <2>1
  <2>4. f \in [Indices(new) \ b.insertions -> Indices(old) \ b.deletions]
    BY <1>9, <2>1
  <2>5. \A j \in Indices(old) \ b.deletions : \E i \in Indices(new) \ b.insertions : f[i] = j
    BY <1>10, <2>1
  <2>6. \A i, k \in Indices(new) \ b.insertions : i < k => f[i] < f[k]
    BY <1>11, <2>1
  <2>7. \A i \in Indices(new) \ b.insertions : old[f[i] + 1] = new[i + 1]
    BY <1>12, <2>1
  <2> HIDE DEF D, I
  <2> QED BY <2>2, <2>3, <2>4, <2>5, <2>6, <2>7, KeptInOrder
<1> QED BY <1>1, <1>13

(* calculate_moves_unsorted: what it makes of the deletions and the        *)
(* insertions, and the moves it adds, are exact where only candidates have *)
(* come before others.                                                     *)
THEOREM UnsortedIsExact ==
  ASSUME NEW E, NEW old \in Seq(E), NEW new \in Seq(E),
         NEW rows, NEW gone, NEW unmatched, NEW arrived, NEW prev, NEW next,
         Staying(rows, gone, unmatched, arrived, prev, next, old, new),
         NEW candidates, OthersStay(rows, candidates),
         NEW c \in ChangeSets, c.deletions = gone, c.insertions = arrived, c.moves = << >>
  PROVE  LET b == calculate_moves_unsorted(rows, unmatched, candidates, c)
         IN  /\ b \in ChangeSets /\ Leads(b, old, new) /\ MovesAreMoves(b, old, new)
             /\ b.modifications = c.modifications
<1> DEFINE b == calculate_moves_unsorted(rows, unmatched, candidates, c)
<1>0. /\ gone \in IndexSets /\ unmatched \in IndexSets /\ arrived \in IndexSets
      /\ gone \cup unmatched \subseteq Indices(old) /\ arrived \subseteq Indices(new)
      /\ DOMAIN rows = 1 .. Len(rows) /\ Len(rows) \in Nat
      /\ \A l \in DOMAIN rows :
           /\ rows[l].tv_index \in Indices(new) \ arrived
           /\ rows[l].prev_tv_index \in Indices(old) \ (gone \cup unmatched)
           /\ old[rows[l].prev_tv_index + 1] = new[rows[l].tv_index + 1]
      /\ \A i \in Indices(new) \ arrived : \E l \in DOMAIN rows : rows[l].tv_index = i
      /\ \A j \in Indices(old) \ (gone \cup unmatched) :
           \E l \in DOMAIN rows : rows[l].prev_tv_index = j
      /\ \A l, m \in DOMAIN rows : l < m => rows[l].tv_index < rows[m].tv_index
      /\ \A l, m \in DOMAIN rows : rows[l].prev_tv_index = rows[m].prev_tv_index => l = m
  BY DEF Staying
<1>1. PICK s \in Comparisons, moved \in SUBSET DOMAIN rows :
        /\ Apart(s, rows, Len(rows), moved, unmatched, arrived)
        /\ s.c.deletions = c.deletions /\ s.c.modifications = c.modifications
        /\ b = [s.c EXCEPT !.deletions = @ \cup s.removed]
  BY CompareAll
<1> HIDE DEF b
<1>2. /\ s.c.insertions = arrived \cup {rows[l].tv_index : l \in moved}
      /\ s.removed = unmatched \cup {rows[l].prev_tv_index : l \in moved}
      /\ \A l, m \in DOMAIN rows \ moved : l < m => rows[l].shifted_tv_index < rows[m].shifted_tv_index
      /\ \A i \in DOMAIN s.c.moves : \E l \in moved :
           s.c.moves[i] = Move(rows[l].prev_tv_index, rows[l].tv_index)
      /\ DifferentMoves(s.c.moves)
  BY <1>0, <1>1 DEF Apart
<1> DEFINE D == gone \cup s.removed
           I == s.c.insertions
<1>3. /\ b \in ChangeSets /\ b.deletions = D /\ b.insertions = I /\ b.moves = s.c.moves
      /\ D \in IndexSets /\ I \in IndexSets /\ b.modifications = s.c.modifications
  <2>1. s.c \in ChangeSets /\ s.removed \in IndexSets
    BY DEF Comparisons
  <2>2. D \in IndexSets
    BY <1>0, <2>1, UnionIsFinite
  <2>3. b = [s.c EXCEPT !.deletions = D]
    BY <1>1
  <2> HIDE DEF D
  <2> QED BY <2>1, <2>2, <2>3 DEF ChangeSets
<1>4. /\ D = gone \cup unmatched \cup {rows[l].prev_tv_index : l \in moved}
      /\ I = arrived \cup {rows[l].tv_index : l \in moved}
  BY <1>2
<1> HIDE DEF D, I
<1>5. ASSUME NEW l \in DOMAIN rows \ moved, NEW m \in DOMAIN rows \ moved, l < m
      PROVE  rows[l].prev_tv_index < rows[m].prev_tv_index
  <2>1. rows[l].shifted_tv_index < rows[m].shifted_tv_index
    BY <1>2, <1>5
  <2> QED BY <2>1, ShiftedInOrder
<1>6. Leads(b, old, new)
  <2>1. OthersKept(b, moved, rows, gone, unmatched, arrived)
    BY <1>3, <1>4, <1>5 DEF OthersKept
  <2> QED BY <2>1, KeptRowsLead
<1>7. MovesAreMoves(b, old, new)
  <2> SUFFICES ASSUME NEW k \in DOMAIN b.moves
               PROVE  /\ b.moves[k].from \in b.deletions \cap Indices(old)
                      /\ b.moves[k].to \in b.insertions \cap Indices(new)
                      /\ old[b.moves[k].from + 1] = new[b.moves[k].to + 1]
                      /\ \A l \in DOMAIN b.moves \ {k} : b.moves[l].from # b.moves[k].from
    BY DEF MovesAreMoves
  <2>1. PICK l \in moved : b.moves[k] = Move(rows[l].prev_tv_index, rows[l].tv_index)
    BY <1>2, <1>3
  <2>2. b.moves[k].from = rows[l].prev_tv_index /\ b.moves[k].to = rows[l].tv_index
    BY <2>1 DEF Move
  <2>3. l \in DOMAIN rows
    OBVIOUS
  <2>4. \A m \in DOMAIN b.moves \ {k} : b.moves[m].from # b.moves[k].from
    BY <1>2, <1>3 DEF DifferentMoves
  <2> QED BY <1>0, <1>3, <1>4, <2>2, <2>3, <2>4
<1> QED BY <1>1, <1>3, <1>6, <1>7 DEF b

-----------------------------------------------------------------------------
(* The rows of a query in any order. *)

Blocks == [i : Int, j : Int, size : Int, modified : Int]

LongestSoFar == [best : Blocks, last : [j : Int, size : Int]]

(* Rows that are all in another sequence. *)
RowsIn(a, b) == a \in Seq(Nat) /\ b \in Seq(Nat) /\ \A k \in DOMAIN a : \E l \in DOMAIN b : b[l] = a[k]

(* A block that two sequences have in common, in these ranges. *)
InBoth(m, a, b, begin1, end1, begin2, end2) ==
  /\ m.i \in Nat /\ m.j \in Nat /\ m.size \in Nat
  /\ begin1 <= m.i /\ m.i + m.size <= end1
  /\ begin2 <= m.j /\ m.j + m.size <= end2
  /\ \A x \in 0 .. m.size - 1 : a[m.i + x + 1] = b[m.j + x + 1]

LEMMA CountBetweenType ==
  ASSUME NEW S \in IndexSets, NEW first, NEW end
  PROVE  countBetween(S, first, end) \in Int
<1>1. {i \in S : first <= i /\ i < end} \subseteq S /\ IsFiniteSet(S)
  BY DEF IndexSets
<1>2. Cardinality({i \in S : first <= i /\ i < end}) \in Nat
  BY <1>1, FS_Subset, FS_CardinalityType
<1> QED BY <1>2 DEF countBetween

(* What a row of a makes of the best block, and of the last one: nothing,  *)
(* or it ends a block.                                                     *)
RowMatched(u, s, a, b, i, j, size, begin2, end2) ==
  /\ u \in LongestSoFar /\ j \in Nat /\ b[j + 1] = a[i + 1]
  /\ \/ u.best = s.best /\ u.last.j = npos - 1 /\ u.last.size = 0
     \/ /\ begin2 <= j /\ j < end2 /\ u.last.j = j /\ u.last.size = size
        /\ \/ u.best.i = s.best.i /\ u.best.j = s.best.j /\ u.best.size = s.best.size
           \/ u.best.i = i - size + 1 /\ u.best.j = j - size + 1 /\ u.best.size = size

LEMMA MatchRowCases ==
  ASSUME NEW a, NEW b, RowsIn(a, b), NEW mods \in IndexSets,
         NEW begin2 \in Nat, NEW end2 \in Nat,
         NEW s \in LongestSoFar, NEW i \in 0 .. Len(a) - 1,
         NEW j, j = PlaceIn(b, a[i + 1]), NEW size, size = length(s.last, j),
         NEW u, u = MatchRow(a, b, mods, begin2, end2, s, i)
  PROVE  RowMatched(u, s, a, b, i, j, size, begin2, end2)
<1> DEFINE here == countBetween(mods, j - size + 1, j + 1)
           around == countBetween(mods, s.best.j - size + 1, s.best.j + 1)
           Here(m) == Block(i - size + 1, j - size + 1, size, m)
           best == IF s.best.modified = npos THEN [s.best EXCEPT !.modified = around] ELSE s.best
<1>1. j \in Nat /\ b[j + 1] = a[i + 1]
  <2> DEFINE k == CHOOSE k \in DOMAIN b : b[k] = a[i + 1]
  <2>0. a \in Seq(Nat) /\ b \in Seq(Nat)
    BY DEF RowsIn
  <2>1. i + 1 \in DOMAIN a
    BY <2>0
  <2>2. \E l \in DOMAIN b : b[l] = a[i + 1]
    BY <2>1 DEF RowsIn
  <2>3. k \in DOMAIN b /\ b[k] = a[i + 1] /\ j = k - 1
    BY <2>2 DEF PlaceIn
  <2> HIDE DEF k
  <2>4. k \in 1 .. Len(b) /\ Len(b) \in Nat
    BY <2>0, <2>3
  <2>5. j \in Nat /\ j + 1 = k
    BY <2>3, <2>4
  <2> QED BY <2>3, <2>5
<1>2. u = IF j < begin2 \/ j >= end2 THEN [s EXCEPT !.last = [j |-> npos - 1, size |-> 0]]
          ELSE [last |-> [j |-> j, size |-> size],
                best |-> CASE size > s.best.size -> Here(npos)
                           [] size < s.best.size -> s.best
                           [] OTHER -> IF here < best.modified THEN Here(here) ELSE best]
  BY DEF MatchRow
<1>3. /\ s.best \in Blocks /\ s.best.i \in Int /\ s.best.j \in Int /\ s.best.size \in Int
      /\ s.best.modified \in Int /\ s.last.j \in Int /\ s.last.size \in Int
      /\ s = [best |-> s.best, last |-> s.last]
  BY DEF LongestSoFar, Blocks
<1>4. size \in Int /\ here \in Int /\ around \in Int /\ npos \in Int /\ i \in Int
  <2>1. here \in Int /\ around \in Int
    BY CountBetweenType
  <2> QED BY <1>1, <1>3, <2>1 DEF npos, length
<1> HIDE DEF here, around
<1>5. /\ best \in Blocks /\ best.i = s.best.i /\ best.j = s.best.j /\ best.size = s.best.size
  BY <1>3, <1>4 DEF Blocks
<1>6. \A m \in Int : /\ Here(m) \in Blocks /\ Here(m).i = i - size + 1
                     /\ Here(m).j = j - size + 1 /\ Here(m).size = size
  BY <1>1, <1>4 DEF Block, Blocks
<1> HIDE DEF best, Here
<1>7. CASE j < begin2 \/ j >= end2
  <2>1. u = [best |-> s.best, last |-> [j |-> npos - 1, size |-> 0]]
    BY <1>2, <1>3, <1>7
  <2>2. [j |-> npos - 1, size |-> 0] \in [j : Int, size : Int]
    BY <1>4
  <2> QED BY <1>1, <1>3, <2>1, <2>2 DEF LongestSoFar, RowMatched
<1>8. CASE ~ (j < begin2 \/ j >= end2)
  <2> DEFINE v == CASE size > s.best.size -> Here(npos)
                    [] size < s.best.size -> s.best
                    [] OTHER -> IF here < best.modified THEN Here(here) ELSE best
  <2>1. u = [last |-> [j |-> j, size |-> size], best |-> v]
    BY <1>2, <1>8
  <2>2. v \in {Here(npos), s.best, Here(here), best}
    <3>1. CASE size > s.best.size
      <4>1. ~ (size < s.best.size)
        BY <1>3, <1>4, <3>1
      <4>2. v = Here(npos)
        BY <3>1, <4>1
      <4> QED BY <4>2
    <3>2. CASE size < s.best.size
      <4>1. ~ (size > s.best.size)
        BY <1>3, <1>4, <3>2
      <4>2. v = s.best
        BY <3>2, <4>1
      <4> QED BY <4>2
    <3>3. CASE ~ (size > s.best.size) /\ ~ (size < s.best.size)
      BY <3>3
    <3> QED BY <3>1, <3>2, <3>3
  <2> HIDE DEF v
  <2>3. /\ v \in Blocks
        /\ \/ v.i = s.best.i /\ v.j = s.best.j /\ v.size = s.best.size
           \/ v.i = i - size + 1 /\ v.j = j - size + 1 /\ v.size = size
    <3>1. CASE v \in {s.best, best}
      BY <1>3, <1>5, <3>1
    <3>2. CASE v \in {Here(npos), Here(here)}
      BY <1>4, <1>6, <3>2
    <3> QED BY <2>2, <3>1, <3>2
  <2>4. u.best = v /\ u.last = [j |-> j, size |-> size] /\ u \in LongestSoFar
    BY <1>1, <1>4, <2>1, <2>3 DEF LongestSoFar
  <2>5. begin2 <= j /\ j < end2
    BY <1>1, <1>8
  <2> QED BY <1>1, <2>3, <2>4, <2>5 DEF RowMatched
<1> QED BY <1>7, <1>8

(* The rows of a up to p are matched: the best block is one, and the last  *)
(* one ends at p.                                                          *)
Matched(s, a, b, begin1, p, begin2, end2) ==
  /\ s \in LongestSoFar
  /\ s.best.size = 0 \/ InBoth(s.best, a, b, begin1, p, begin2, end2)
  /\ \/ s.last.size = 0 /\ s.last.j = npos - 1
     \/ /\ s.last.size \in Nat \ {0} /\ s.last.j \in Nat
        /\ InBoth([i |-> p - s.last.size, j |-> (s.last.j + 1) - s.last.size, size |-> s.last.size],
                  a, b, begin1, p, begin2, end2)

(* A block, and one row more. *)
LEMMA LongerBlock ==
  ASSUME NEW a, NEW b, NEW begin1 \in Nat, NEW begin2 \in Nat, NEW end2 \in Nat,
         NEW p \in Nat, NEW j \in Nat, NEW l \in Nat, l + 1 = j, j < end2,
         NEW z \in Nat, a[p + 1] = b[j + 1],
         NEW ended, ended = [i |-> p - z, j |-> (l + 1) - z, size |-> z],
         InBoth(ended, a, b, begin1, p, begin2, end2), NEW size, size = z + 1,
         NEW here, here = [i |-> (p + 1) - size, j |-> (j + 1) - size, size |-> size]
  PROVE  InBoth(here, a, b, begin1, p + 1, begin2, end2)
<1> DEFINE x1 == (p + 1) - size
           y1 == (j + 1) - size
<1>1. /\ p - z \in Nat /\ (l + 1) - z \in Nat /\ begin1 <= p - z /\ begin2 <= (l + 1) - z
      /\ \A x \in 0 .. z - 1 : a[(p - z) + x + 1] = b[((l + 1) - z) + x + 1]
  BY DEF InBoth
<1>2. x1 = p - z /\ y1 = (l + 1) - z /\ x1 + size = p + 1 /\ y1 + size = j + 1
  OBVIOUS
<1>3. x1 + z + 1 = p + 1 /\ y1 + z + 1 = j + 1
  OBVIOUS
<1> HIDE DEF x1, y1
<1>4. ASSUME NEW x \in 0 .. size - 1 PROVE a[x1 + x + 1] = b[y1 + x + 1]
  <2>1. x \in 0 .. z - 1 \/ x = z
    OBVIOUS
  <2> QED BY <1>1, <1>2, <1>3, <2>1
<1>5. y1 + size <= end2 /\ x1 + size <= p + 1 /\ size \in Nat
  BY <1>2
<1>6. x1 \in Nat /\ y1 \in Nat /\ begin1 <= x1 /\ begin2 <= y1
  BY <1>1, <1>2
<1> DEFINE m == [i |-> x1, j |-> y1, size |-> size]
<1>7. m.i = x1 /\ m.j = y1 /\ m.size = size
  OBVIOUS
<1> HIDE DEF m
<1>8. InBoth(m, a, b, begin1, p + 1, begin2, end2)
  BY ONLY <1>4, <1>5, <1>6, <1>7 DEF InBoth
<1> QED BY <1>8 DEF m, x1, y1

LEMMA MatchRowMatches ==
  ASSUME NEW a, NEW b, RowsIn(a, b), NEW mods \in IndexSets,
         NEW begin1 \in Nat, NEW begin2 \in Nat, NEW end2 \in Nat,
         NEW s, NEW p \in 0 .. Len(a) - 1, begin1 <= p,
         Matched(s, a, b, begin1, p, begin2, end2)
  PROVE  Matched(MatchRow(a, b, mods, begin2, end2, s, p), a, b, begin1, p + 1, begin2, end2)
<1>0. s \in LongestSoFar /\ p \in Nat
  BY DEF Matched
<1>1. PICK j, size, u : /\ j = PlaceIn(b, a[p + 1]) /\ size = length(s.last, j)
                        /\ u = MatchRow(a, b, mods, begin2, end2, s, p)
  OBVIOUS
<1> DEFINE here == [i |-> (p + 1) - size, j |-> (j + 1) - size, size |-> size]
<1>2. /\ u \in LongestSoFar /\ j \in Nat /\ b[j + 1] = a[p + 1]
      /\ \/ u.best = s.best /\ u.last.j = npos - 1 /\ u.last.size = 0
         \/ /\ begin2 <= j /\ j < end2 /\ u.last.j = j /\ u.last.size = size
            /\ \/ u.best.i = s.best.i /\ u.best.j = s.best.j /\ u.best.size = s.best.size
               \/ u.best.i = p - size + 1 /\ u.best.j = j - size + 1 /\ u.best.size = size
  <2> DEFINE N == 0 .. Len(a) - 1
  <2>1. /\ RowsIn(a, b) /\ mods \in IndexSets /\ begin2 \in Nat /\ end2 \in Nat
        /\ s \in LongestSoFar /\ p \in N
    BY <1>0
  <2>2. RowMatched(u, s, a, b, p, j, size, begin2, end2)
    BY ONLY <1>1, <2>1, MatchRowCases
  <2> QED BY ONLY <2>2 DEF RowMatched
<1>3. ASSUME begin2 <= j, j < end2
      PROVE  size \in Nat \ {0} /\ InBoth(here, a, b, begin1, p + 1, begin2, end2)
  <2> DEFINE z == s.last.size
             l == s.last.j
             ended == [i |-> p - z, j |-> (l + 1) - z, size |-> z]
  <2>1. \/ z = 0 /\ l = npos - 1
        \/ /\ z \in Nat \ {0} /\ l \in Nat
           /\ InBoth(ended, a, b, begin1, p, begin2, end2)
    BY DEF Matched
  <2>2. size = IF l + 1 = j THEN z + 1 ELSE 1
    BY <1>1 DEF length
  <2> HIDE DEF z, l
  <2>3. CASE l + 1 = j
    <3>1. z \in Nat \ {0} /\ l \in Nat /\ InBoth(ended, a, b, begin1, p, begin2, end2)
      BY <1>2, <2>1, <2>3 DEF npos
    <3>2. size = z + 1
      BY <2>2, <2>3
    <3>3. a[p + 1] = b[j + 1] /\ j \in Nat
      BY <1>2
    <3>4. here = [i |-> (p + 1) - size, j |-> (j + 1) - size, size |-> size]
      OBVIOUS
    <3>5. ended = [i |-> p - z, j |-> (l + 1) - z, size |-> z]
      OBVIOUS
    <3>6. z \in Nat /\ size \in Nat \ {0}
      BY <3>1, <3>2
    <3> HIDE DEF here, ended
    <3>7. InBoth(here, a, b, begin1, p + 1, begin2, end2)
      BY ONLY <1>0, <1>3, <2>3, <3>1, <3>2, <3>3, <3>4, <3>5, <3>6,
              begin1 \in Nat, begin2 \in Nat, end2 \in Nat, LongerBlock
    <3> QED BY <3>6, <3>7
  <2>4. CASE l + 1 # j
    <3>1. size = 1
      BY <2>2, <2>4
    <3>2. j \in Nat /\ b[j + 1] = a[p + 1]
      BY <1>2
    <3>3. (p + 1) - 1 = p /\ (j + 1) - 1 = j /\ p + 1 <= p + 1 /\ j + 1 <= end2
      BY <1>0, <1>3, <3>2
    <3>4. here.i = p /\ here.j = j /\ here.size = 1
      BY <3>1, <3>3
    <3> HIDE DEF here
    <3>5. \A x \in 0 .. here.size - 1 : a[here.i + x + 1] = b[here.j + x + 1]
      <4>1. \A x \in 0 .. here.size - 1 : here.i + x + 1 = p + 1 /\ here.j + x + 1 = j + 1
        BY <1>0, <3>2, <3>4
      <4> QED BY <3>2, <4>1
    <3> QED BY <1>0, <1>3, <3>1, <3>2, <3>3, <3>4, <3>5 DEF InBoth
  <2> QED BY <2>3, <2>4
<1>4. ASSUME NEW m, InBoth(m, a, b, begin1, p, begin2, end2)
      PROVE  InBoth(m, a, b, begin1, p + 1, begin2, end2)
  <2>1. m.i \in Nat /\ m.size \in Nat /\ m.i + m.size <= p
    BY <1>4 DEF InBoth
  <2>2. m.i + m.size <= p + 1
    BY <1>0, <2>1
  <2> QED BY <1>4, <2>2 DEF InBoth
<1>5. s.best.size = 0 \/ InBoth(s.best, a, b, begin1, p + 1, begin2, end2)
  BY <1>4 DEF Matched
<1>6. CASE u.best = s.best /\ u.last.j = npos - 1 /\ u.last.size = 0
  BY <1>1, <1>2, <1>5, <1>6 DEF Matched
<1>7. CASE /\ begin2 <= j /\ j < end2 /\ u.last.j = j /\ u.last.size = size
           /\ \/ u.best.i = s.best.i /\ u.best.j = s.best.j /\ u.best.size = s.best.size
              \/ u.best.i = p - size + 1 /\ u.best.j = j - size + 1 /\ u.best.size = size
  <2>1. size \in Nat \ {0} /\ InBoth(here, a, b, begin1, p + 1, begin2, end2) /\ j \in Nat
    BY <1>2, <1>3, <1>7
  <2>2. ASSUME u.best.i = s.best.i, u.best.j = s.best.j, u.best.size = s.best.size
        PROVE  u.best.size = 0 \/ InBoth(u.best, a, b, begin1, p + 1, begin2, end2)
    BY <1>5, <2>2 DEF InBoth
  <2>3. ASSUME u.best.i = p - size + 1, u.best.j = j - size + 1, u.best.size = size
        PROVE  InBoth(u.best, a, b, begin1, p + 1, begin2, end2)
    <3>1. p - size + 1 = (p + 1) - size /\ j - size + 1 = (j + 1) - size
      BY <1>0, <2>1
    <3>2. u.best.i = here.i /\ u.best.j = here.j /\ u.best.size = here.size
      BY <2>3, <3>1
    <3> HIDE DEF here
    <3> QED BY <2>1, <3>2 DEF InBoth
  <2>4. u.best.size = 0 \/ InBoth(u.best, a, b, begin1, p + 1, begin2, end2)
    BY <1>7, <2>2, <2>3
  <2>5. [i |-> (p + 1) - u.last.size, j |-> (u.last.j + 1) - u.last.size, size |-> u.last.size] = here
    BY <1>7
  <2>6. u.last.size \in Nat \ {0} /\ u.last.j \in Nat
    BY <1>7, <2>1
  <2> HIDE DEF here
  <2>7. Matched(u, a, b, begin1, p + 1, begin2, end2)
    BY <1>2, <2>1, <2>4, <2>5, <2>6 DEF Matched
  <2> QED BY <1>1, <2>7
<1> QED BY <1>2, <1>6, <1>7

(* The rows of a range of a, one after another. *)
RowByRow(h, n, a, b, mods, begin1, end1, begin2, end2) ==
  /\ h[0] = [best |-> Block(begin1, begin2, 0, 0), last |-> [j |-> npos - 1, size |-> 0]]
  /\ \A k \in 1 .. n : h[k] = MatchRow(a, b, mods, begin2, end2, h[k - 1], begin1 + k - 1)
  /\ find_longest_match(a, b, mods, begin1, end1, begin2, end2) = h[n].best

LEMMA MatchRowSteps ==
  ASSUME NEW a, NEW b, RowsIn(a, b), NEW mods \in IndexSets,
         NEW begin1 \in Nat, NEW end1 \in 0 .. Len(a), NEW begin2 \in Nat, NEW end2 \in Nat,
         NEW n \in Nat, 1 .. end1 - begin1 = 1 .. n, \A k \in 1 .. n : begin1 + k - 1 < end1
  PROVE  \E h : RowByRow(h, n, a, b, mods, begin1, end1, begin2, end2)
<1> DEFINE base == [best |-> Block(begin1, begin2, 0, 0), last |-> [j |-> npos - 1, size |-> 0]]
           seq == [k \in 1 .. end1 - begin1 |-> begin1 + k - 1]
           Row(s, i) == MatchRow(a, b, mods, begin2, end2, s, i)
           Folds(g) == g = [s \in SUBSET DOMAIN seq |->
                             IF s = {} THEN base ELSE Row(g[s \ {Max(s)}], seq[Max(s)])]
           F == [p \in LongestSoFar \X (1 .. n) |-> Row(p[1], begin1 + p[2] - 1)]
<1>0. DOMAIN seq = 1 .. n /\ \A k \in 1 .. n : seq[k] = begin1 + k - 1
  OBVIOUS
<1>1. base \in LongestSoFar
  <2>1. Block(begin1, begin2, 0, 0) \in Blocks
    BY DEF Block, Blocks
  <2>2. [j |-> npos - 1, size |-> 0] \in [j : Int, size : Int]
    BY DEF npos
  <2> QED BY <2>1, <2>2 DEF LongestSoFar
<1>2. F \in [LongestSoFar \X (1 .. n) -> LongestSoFar]
  <2>1. ASSUME NEW d \in LongestSoFar, NEW k \in 1 .. n
        PROVE  Row(d, begin1 + k - 1) \in LongestSoFar
    <3> DEFINE i == begin1 + k - 1
    <3>1. i \in 0 .. Len(a) - 1
      <4>1. Len(a) \in Nat
        BY DEF RowsIn
      <4> QED BY <4>1
    <3> HIDE DEF i
    <3>2. PICK j, size, u : j = PlaceIn(b, a[i + 1]) /\ size = length(d.last, j) /\ u = Row(d, i)
      OBVIOUS
    <3>3. RowMatched(u, d, a, b, i, j, size, begin2, end2)
      BY <3>1, <3>2, MatchRowCases
    <3>4. u \in LongestSoFar
      BY ONLY <3>3 DEF RowMatched
    <3> QED BY <3>2, <3>4 DEF i
  <2> HIDE DEF Row
  <2> QED BY <2>1
<1>3. \E g : Folds(g)
  <2> HIDE DEF base, Row, seq
  <2>1. PICK g \in [SUBSET (1 .. n) -> LongestSoFar] : Folded(g, n, base, F)
    <3> HIDE DEF F
    <3> QED BY <1>1, <1>2, FoldIsThere
  <2>2. ASSUME NEW s \in SUBSET (1 .. n), s # {}
        PROVE  F[<<g[s \ {Max(s)}], Max(s)>>] = Row(g[s \ {Max(s)}], seq[Max(s)])
    <3>1. Max(s) \in 1 .. n
      BY <2>2, LastOfInitial
    <3>2. g[s \ {Max(s)}] \in LongestSoFar
      BY <2>1
    <3>3. seq[Max(s)] = begin1 + Max(s) - 1
      BY <1>0, <3>1
    <3> QED BY <3>1, <3>2, <3>3
  <2>3. g = [s \in SUBSET (1 .. n) |->
               IF s = {} THEN base ELSE Row(g[s \ {Max(s)}], seq[Max(s)])]
    <3> HIDE DEF F
    <3> QED BY <2>1, <2>2 DEF Folded
  <2> QED BY <1>0, <2>3
<1> DEFINE f == CHOOSE g : Folds(g)
           h == [k \in 0 .. n |-> f[1 .. k]]
<1>4. find_longest_match(a, b, mods, begin1, end1, begin2, end2) = f[DOMAIN seq].best
  BY DEF find_longest_match, FoldLeft, MapThenFoldSet
<1>5. Folds(f)
  <2> HIDE DEF Folds
  <2> QED BY <1>3
<1> HIDE DEF f, base, seq, Row
<1>6. f[{}] = base
  BY <1>5
<1>7. \A k \in 1 .. n : f[1 .. k] = Row(f[1 .. k - 1], begin1 + k - 1)
  <2> TAKE k \in 1 .. n
  <2>1. k \in Nat \ {0} /\ 1 .. k \in SUBSET DOMAIN seq
    BY <1>0
  <2>2. 1 .. k # {} /\ Max(1 .. k) = k /\ (1 .. k) \ {k} = 1 .. k - 1
    BY <2>1, InitialSegments
  <2>3. seq[k] = begin1 + k - 1
    BY <1>0
  <2> QED BY <1>5, <2>1, <2>2, <2>3
<1>8. h[0] = base
  BY <1>6
<1>9. \A k \in 1 .. n : h[k] = Row(h[k - 1], begin1 + k - 1)
  BY <1>7
<1>10. find_longest_match(a, b, mods, begin1, end1, begin2, end2) = h[n].best
  BY <1>0, <1>4
<1>11. RowByRow(h, n, a, b, mods, begin1, end1, begin2, end2)
  <2> HIDE DEF h
  <2> QED BY ONLY <1>8, <1>9, <1>10 DEF RowByRow, base, Row
<1> QED BY <1>11

(* find_longest_match: what it finds, if anything, is a block that both    *)
(* have in common, in their ranges, as the code asserts.                   *)
THEOREM LongestMatchIsOne ==
  ASSUME NEW a, NEW b, RowsIn(a, b), NEW mods \in IndexSets,
         NEW begin1 \in Nat, NEW end1 \in 0 .. Len(a), NEW begin2 \in Nat, NEW end2 \in Nat,
         NEW m, m = find_longest_match(a, b, mods, begin1, end1, begin2, end2)
  PROVE  m \in Blocks /\ (m.size = 0 \/ InBoth(m, a, b, begin1, end1, begin2, end2))
<1> DEFINE n == IF begin1 <= end1 THEN end1 - begin1 ELSE 0
<1>0. Len(a) \in Nat /\ end1 \in Nat
  BY DEF RowsIn
<1>1. n \in Nat /\ 1 .. end1 - begin1 = 1 .. n
  BY <1>0
<1>2. \A k \in 1 .. n : begin1 + k - 1 < end1
  BY <1>0
<1>3. n # 0 => begin1 + n = end1
  BY <1>0
<1> HIDE DEF n
<1> DEFINE base == [best |-> Block(begin1, begin2, 0, 0), last |-> [j |-> npos - 1, size |-> 0]]
<1>4. PICK h : /\ h[0] = base
               /\ \A k \in 1 .. n : h[k] = MatchRow(a, b, mods, begin2, end2, h[k - 1], begin1 + k - 1)
               /\ m = h[n].best
  <2>1. PICK h : RowByRow(h, n, a, b, mods, begin1, end1, begin2, end2)
    BY <1>1, <1>2, MatchRowSteps
  <2> QED BY <2>1 DEF RowByRow
<1>5. Matched(base, a, b, begin1, begin1, begin2, end2)
  <2>1. Block(begin1, begin2, 0, 0) \in Blocks /\ Block(begin1, begin2, 0, 0).size = 0
    BY DEF Block, Blocks
  <2>2. [j |-> npos - 1, size |-> 0] \in [j : Int, size : Int]
    BY DEF npos
  <2> QED BY <2>1, <2>2 DEF Matched, LongestSoFar
<1> HIDE DEF base
<1> DEFINE T == {k \in Nat : k <= n => Matched(h[k], a, b, begin1, begin1 + k, begin2, end2)}
<1>6. 0 \in T
  <2>1. begin1 + 0 = begin1
    OBVIOUS
  <2> QED BY <1>4, <1>5, <2>1
<1>7. ASSUME NEW k \in Nat, k \in T PROVE k + 1 \in T
  <2> SUFFICES ASSUME k + 1 <= n
               PROVE  Matched(h[k + 1], a, b, begin1, begin1 + (k + 1), begin2, end2)
    OBVIOUS
  <2> DEFINE p == begin1 + k
  <2>1. k <= n /\ k + 1 \in 1 .. n /\ (k + 1) - 1 = k /\ begin1 + (k + 1) - 1 = p
    BY <1>1
  <2>2. Matched(h[k], a, b, begin1, p, begin2, end2)
    BY <1>7, <2>1
  <2>3. h[k + 1] = MatchRow(a, b, mods, begin2, end2, h[k], p)
    BY <1>4, <2>1
  <2>4. p \in 0 .. Len(a) - 1 /\ begin1 <= p /\ begin1 + (k + 1) = p + 1
    <3>1. p < end1
      BY <1>2, <2>1
    <3> QED BY <1>0, <3>1
  <2> HIDE DEF p, T
  <2>5. Matched(MatchRow(a, b, mods, begin2, end2, h[k], p), a, b, begin1, p + 1, begin2, end2)
    BY <2>2, <2>4, MatchRowMatches
  <2> QED BY <2>3, <2>4, <2>5
<1>8. n \in T
  <2> HIDE DEF T
  <2>1. Nat \subseteq T
    BY <1>6, <1>7, Induction
  <2> QED BY <1>1, <2>1
<1>9. Matched(h[n], a, b, begin1, begin1 + n, begin2, end2)
  BY <1>1, <1>8
<1>10. CASE n # 0
  <2>1. Matched(h[n], a, b, begin1, end1, begin2, end2)
    BY <1>3, <1>9, <1>10
  <2> QED BY <1>4, <2>1 DEF Matched, LongestSoFar
<1>11. CASE n = 0
  <2>1. m = Block(begin1, begin2, 0, 0)
    BY <1>4, <1>11 DEF base
  <2> QED BY <2>1 DEF Block, Blocks
<1> QED BY <1>10, <1>11

(* Blocks one after another in both sequences. *)
Chain(ms, a, b, begin1, end1, begin2, end2) ==
  /\ ms \in Seq(Blocks)
  /\ \A k \in DOMAIN ms : InBoth(ms[k], a, b, begin1, end1, begin2, end2)
  /\ \A k, l \in DOMAIN ms : k < l => /\ ms[k].i + ms[k].size <= ms[l].i
                                       /\ ms[k].j + ms[k].size <= ms[l].j

LEMMA WiderRanges ==
  ASSUME NEW m, NEW a, NEW b, NEW begin1 \in Nat, NEW end1 \in Nat, NEW begin2 \in Nat, NEW end2 \in Nat,
         NEW begin3 \in Nat, NEW end3 \in Nat, NEW begin4 \in Nat, NEW end4 \in Nat,
         begin3 <= begin1, end1 <= end3, begin4 <= begin2, end2 <= end4,
         InBoth(m, a, b, begin1, end1, begin2, end2)
  PROVE  InBoth(m, a, b, begin3, end3, begin4, end4)
<1>1. /\ m.i \in Nat /\ m.j \in Nat /\ m.size \in Nat
      /\ begin1 <= m.i /\ m.i + m.size <= end1 /\ begin2 <= m.j /\ m.j + m.size <= end2
  BY DEF InBoth
<1>2. PICK i \in Nat, j \in Nat, z \in Nat : i = m.i /\ j = m.j /\ z = m.size
  BY <1>1
<1>3. /\ begin1 <= i /\ i + z <= end1 /\ begin2 <= j /\ j + z <= end2
  BY <1>1, <1>2
<1>4. /\ begin3 <= i /\ i + z <= end3 /\ begin4 <= j /\ j + z <= end4
  BY ONLY <1>3, i \in Nat, j \in Nat, z \in Nat, begin1 \in Nat, end1 \in Nat, begin2 \in Nat,
          end2 \in Nat, begin3 \in Nat, end3 \in Nat, begin4 \in Nat, end4 \in Nat,
          begin3 <= begin1, end1 <= end3, begin4 <= begin2, end2 <= end4
<1> QED BY <1>1, <1>2, <1>4 DEF InBoth

LEMMA ChainOfBoth ==
  ASSUME NEW s, NEW t, NEW a, NEW b, NEW begin1 \in Nat, NEW mid1 \in Nat, NEW end1 \in Nat,
         NEW begin2 \in Nat, NEW mid2 \in Nat, NEW end2 \in Nat,
         begin1 <= mid1, mid1 <= end1, begin2 <= mid2, mid2 <= end2,
         Chain(s, a, b, begin1, mid1, begin2, mid2), Chain(t, a, b, mid1, end1, mid2, end2)
  PROVE  Chain(s \o t, a, b, begin1, end1, begin2, end2)
<1> DEFINE u == s \o t
<1>0. s \in Seq(Blocks) /\ t \in Seq(Blocks)
  BY DEF Chain
<1>1. /\ u \in Seq(Blocks)
      /\ \A i \in DOMAIN s : i \in DOMAIN u /\ u[i] = s[i]
      /\ \A i \in DOMAIN t : Len(s) + i \in DOMAIN u /\ u[Len(s) + i] = t[i]
      /\ \A k \in DOMAIN u : k \in DOMAIN s \/ \E i \in DOMAIN t : k = Len(s) + i
  BY <1>0, Concatenated
<1> HIDE DEF u
<1>2. /\ \A k \in DOMAIN s : InBoth(s[k], a, b, begin1, mid1, begin2, mid2)
      /\ \A k, l \in DOMAIN s : k < l => s[k].i + s[k].size <= s[l].i /\ s[k].j + s[k].size <= s[l].j
      /\ \A k \in DOMAIN t : InBoth(t[k], a, b, mid1, end1, mid2, end2)
      /\ \A k, l \in DOMAIN t : k < l => t[k].i + t[k].size <= t[l].i /\ t[k].j + t[k].size <= t[l].j
  BY DEF Chain
<1>3. ASSUME NEW k \in DOMAIN u PROVE InBoth(u[k], a, b, begin1, end1, begin2, end2)
  <2>1. CASE k \in DOMAIN s
    <3>1. InBoth(u[k], a, b, begin1, mid1, begin2, mid2)
      BY <1>1, <1>2, <2>1
    <3>2. begin1 <= begin1 /\ begin2 <= begin2
      OBVIOUS
    <3> QED BY <3>1, <3>2, WiderRanges
  <2>2. ASSUME NEW i \in DOMAIN t, k = Len(s) + i PROVE InBoth(u[k], a, b, begin1, end1, begin2, end2)
    <3>1. InBoth(u[k], a, b, mid1, end1, mid2, end2)
      BY <1>1, <1>2, <2>2
    <3>2. end1 <= end1 /\ end2 <= end2
      OBVIOUS
    <3> QED BY <3>1, <3>2, WiderRanges
  <2> QED BY <1>1, <2>1, <2>2
<1>4. ASSUME NEW k \in DOMAIN u, NEW l \in DOMAIN u, k < l
      PROVE  u[k].i + u[k].size <= u[l].i /\ u[k].j + u[k].size <= u[l].j
  <2>0. /\ DOMAIN s \subseteq Nat /\ DOMAIN t \subseteq Nat \ {0} /\ Len(s) \in Nat
        /\ \A i \in DOMAIN s : i <= Len(s)
    BY <1>0
  <2>1. CASE k \in DOMAIN s /\ l \in DOMAIN s
    BY <1>1, <1>2, <1>4, <2>1
  <2>2. ASSUME NEW i \in DOMAIN t, l = Len(s) + i, k \in DOMAIN s
        PROVE  u[k].i + u[k].size <= u[l].i /\ u[k].j + u[k].size <= u[l].j
    <3>1. InBoth(u[k], a, b, begin1, mid1, begin2, mid2) /\ InBoth(u[l], a, b, mid1, end1, mid2, end2)
      BY <1>1, <1>2, <2>2
    <3>2. /\ u[k].i \in Nat /\ u[k].j \in Nat /\ u[k].size \in Nat
          /\ u[k].i + u[k].size <= mid1 /\ u[k].j + u[k].size <= mid2
          /\ u[l].i \in Nat /\ u[l].j \in Nat /\ mid1 <= u[l].i /\ mid2 <= u[l].j
      BY <3>1 DEF InBoth
    <3> QED BY <3>2
  <2>3. ASSUME NEW i \in DOMAIN t, k = Len(s) + i, NEW j \in DOMAIN t, l = Len(s) + j
        PROVE  u[k].i + u[k].size <= u[l].i /\ u[k].j + u[k].size <= u[l].j
    <3>1. i < j /\ u[k] = t[i] /\ u[l] = t[j]
      BY <1>1, <1>4, <2>0, <2>3
    <3> QED BY <1>2, <3>1
  <2>4. ASSUME NEW i \in DOMAIN t, k = Len(s) + i, l \in DOMAIN s PROVE FALSE
    BY <1>4, <2>0, <2>4
  <2> QED BY <1>1, <2>1, <2>2, <2>3, <2>4
<1> QED BY <1>1, <1>3, <1>4 DEF Chain, u

(* One block is a chain, and none is one. *)
LEMMA ShortChains ==
  ASSUME NEW a, NEW b, NEW begin1, NEW end1, NEW begin2, NEW end2
  PROVE  /\ Chain(<< >>, a, b, begin1, end1, begin2, end2)
         /\ \A m \in Blocks : InBoth(m, a, b, begin1, end1, begin2, end2) =>
              Chain(<<m>>, a, b, begin1, end1, begin2, end2)
<1>1. << >> \in Seq(Blocks) /\ DOMAIN << >> = {}
  OBVIOUS
<1>2. Chain(<< >>, a, b, begin1, end1, begin2, end2)
  BY <1>1 DEF Chain
<1>3. ASSUME NEW m \in Blocks, InBoth(m, a, b, begin1, end1, begin2, end2)
      PROVE  Chain(<<m>>, a, b, begin1, end1, begin2, end2)
  <2>1. <<m>> \in Seq(Blocks) /\ DOMAIN <<m>> = {1} /\ <<m>>[1] = m
    OBVIOUS
  <2>2. \A k, l \in DOMAIN <<m>> : ~ (k < l)
    BY <2>1
  <2> QED BY <1>3, <2>1, <2>2 DEF Chain
<1> QED BY <1>2, <1>3

(* The blocks that stay in these ranges, when matches has those in smaller *)
(* ones: the body of the recursion of find_longest_matches.                *)
MatchesIn(matches, a, b, mods, r) ==
  LET m == find_longest_match(a, b, mods, r.begin1, r.end1, r.begin2, r.end2)
  IN  IF m.size = 0 THEN << >>
      ELSE (IF m.i > r.begin1 /\ m.j > r.begin2
            THEN matches[[r EXCEPT !.end1 = m.i, !.end2 = m.j]] ELSE << >>)
           \o <<m>>
           \o (IF m.i + m.size < r.end2 /\ m.j + m.size < r.end2
               THEN matches[[r EXCEPT !.begin1 = m.i + m.size, !.begin2 = m.j + m.size]]
               ELSE << >>)

LongestIn(a, b, mods, r) == find_longest_match(a, b, mods, r.begin1, r.end1, r.begin2, r.end2)

BeforeIt(r, m) == [r EXCEPT !.end1 = m.i, !.end2 = m.j]
AfterIt(r, m)  == [r EXCEPT !.begin1 = m.i + m.size, !.begin2 = m.j + m.size]

GoesBefore(r, m) == m.size # 0 /\ m.i > r.begin1 /\ m.j > r.begin2
GoesAfter(r, m)  == m.size # 0 /\ m.i + m.size < r.end2 /\ m.j + m.size < r.end2

RowsLeft(r) == IF r.begin1 <= r.end1 THEN r.end1 - r.begin1 ELSE 0

(* The ranges before and after a block are smaller. *)
LEMMA SmallerRanges ==
  ASSUME NEW a, NEW b, RowsIn(a, b), NEW mods \in IndexSets, NEW r \in Ranges(a, b),
         NEW m, m = LongestIn(a, b, mods, r)
  PROVE  /\ m \in Blocks
         /\ m.size # 0 => InBoth(m, a, b, r.begin1, r.end1, r.begin2, r.end2)
         /\ GoesBefore(r, m) => BeforeIt(r, m) \in Ranges(a, b) /\ RowsLeft(BeforeIt(r, m)) < RowsLeft(r)
         /\ GoesAfter(r, m) => AfterIt(r, m) \in Ranges(a, b) /\ RowsLeft(AfterIt(r, m)) < RowsLeft(r)
         /\ RowsLeft(r) \in 0 .. Len(a)
<1>0. /\ Len(a) \in Nat /\ Len(b) \in Nat
      /\ r.begin1 \in 0 .. Len(a) /\ r.end1 \in 0 .. Len(a)
      /\ r.begin2 \in 0 .. Len(b) /\ r.end2 \in 0 .. Len(b)
  BY DEF RowsIn, Ranges
<1>1. /\ r.begin1 \in Nat /\ r.begin2 \in Nat /\ r.end2 \in Nat
  BY <1>0
<1>2. m \in Blocks /\ (m.size = 0 \/ InBoth(m, a, b, r.begin1, r.end1, r.begin2, r.end2))
  BY <1>0, <1>1, LongestMatchIsOne DEF LongestIn
<1>3. ASSUME GoesBefore(r, m)
      PROVE  BeforeIt(r, m) \in Ranges(a, b) /\ RowsLeft(BeforeIt(r, m)) < RowsLeft(r)
  <2>1. /\ m.i \in Nat /\ m.j \in Nat /\ m.size \in Nat /\ m.size # 0
        /\ m.i > r.begin1 /\ m.j > r.begin2
        /\ m.i + m.size <= r.end1 /\ m.j + m.size <= r.end2
    BY <1>2, <1>3 DEF GoesBefore, InBoth
  <2>2. m.i \in 0 .. Len(a) /\ m.j \in 0 .. Len(b) /\ m.i < r.end1
    BY <1>0, <2>1
  <2>4. BeforeIt(r, m) \in Ranges(a, b)
    BY ONLY <2>2, r \in Ranges(a, b) DEF BeforeIt, Ranges
  <2>5. BeforeIt(r, m).begin1 = r.begin1 /\ BeforeIt(r, m).end1 = m.i
    BY ONLY r \in Ranges(a, b) DEF BeforeIt, Ranges
  <2>6. RowsLeft(BeforeIt(r, m)) = m.i - r.begin1 /\ RowsLeft(r) = r.end1 - r.begin1
    BY <1>0, <2>1, <2>2, <2>5 DEF RowsLeft
  <2> QED BY <1>0, <2>1, <2>2, <2>4, <2>6
<1>4. ASSUME GoesAfter(r, m)
      PROVE  AfterIt(r, m) \in Ranges(a, b) /\ RowsLeft(AfterIt(r, m)) < RowsLeft(r)
  <2>1. /\ m.i \in Nat /\ m.j \in Nat /\ m.size \in Nat /\ m.size # 0
        /\ r.begin1 <= m.i
        /\ m.i + m.size <= r.end1 /\ m.j + m.size <= r.end2
    BY <1>2, <1>4 DEF GoesAfter, InBoth
  <2> DEFINE p == m.i + m.size
             q == m.j + m.size
  <2>2. /\ p \in 0 .. Len(a) /\ q \in 0 .. Len(b)
        /\ r.begin1 < p
    <3>1. PICK i \in Nat, j \in Nat, z \in Nat : i = m.i /\ j = m.j /\ z = m.size
      BY <2>1
    <3>2. z # 0 /\ r.begin1 <= i /\ i + z <= r.end1 /\ j + z <= r.end2
      BY <2>1, <3>1
    <3>3. p = i + z /\ q = j + z
      BY <3>1
    <3> HIDE DEF p, q
    <3> QED BY ONLY <1>0, <3>2, <3>3, i \in Nat, j \in Nat, z \in Nat
  <2>3. AfterIt(r, m) = [r EXCEPT !.begin1 = p, !.begin2 = q]
    BY DEF AfterIt
  <2> HIDE DEF p, q
  <2>4. AfterIt(r, m) \in Ranges(a, b)
    BY ONLY <2>2, <2>3, r \in Ranges(a, b) DEF Ranges
  <2>5. AfterIt(r, m).begin1 = p /\ AfterIt(r, m).end1 = r.end1
    BY ONLY <2>3, r \in Ranges(a, b) DEF Ranges
  <2>6. RowsLeft(AfterIt(r, m)) = r.end1 - p /\ RowsLeft(r) = r.end1 - r.begin1
    <3>1. p <= r.end1
      BY <2>1 DEF p
    <3> QED BY ONLY <1>0, <2>2, <2>5, <3>1 DEF RowsLeft
  <2> QED BY <1>0, <2>1, <2>2, <2>4, <2>6
<1>5. RowsLeft(r) \in 0 .. Len(a)
  BY <1>0 DEF RowsLeft
<1> QED BY <1>2, <1>3, <1>4, <1>5

(* So the recursion of find_longest_matches has a solution. *)
LEMMA MatchesAreThere ==
  ASSUME NEW a, NEW b, RowsIn(a, b), NEW mods \in IndexSets
  PROVE  \E g : g = [r \in Ranges(a, b) |-> MatchesIn(g, a, b, mods, r)]
<1> DEFINE D == Ranges(a, b)
           V == Seq(Blocks)
           longest(r) == LongestIn(a, b, mods, r)
           size == [r \in D |-> RowsLeft(r)]
           hasLeft == [r \in D |-> GoesBefore(r, longest(r))]
           hasRight == [r \in D |-> GoesAfter(r, longest(r))]
           left == [r \in D |-> BeforeIt(r, longest(r))]
           right == [r \in D |-> AfterIt(r, longest(r))]
           Join(r, s, t) == IF longest(r).size = 0 THEN << >> ELSE s \o <<longest(r)>> \o t
           F == [p \in D \X V \X V |-> Join(p[1], p[2], p[3])]
           n == Len(a) + 1
<1>0. n \in Nat /\ Len(a) \in Nat
  BY DEF RowsIn
<1>1. \A r \in D : /\ longest(r) \in Blocks
                   /\ GoesBefore(r, longest(r)) =>
                        BeforeIt(r, longest(r)) \in D /\ RowsLeft(BeforeIt(r, longest(r))) < RowsLeft(r)
                   /\ GoesAfter(r, longest(r)) =>
                        AfterIt(r, longest(r)) \in D /\ RowsLeft(AfterIt(r, longest(r))) < RowsLeft(r)
                   /\ RowsLeft(r) \in 0 .. Len(a)
  BY SmallerRanges
<1>2. size \in [D -> Nat] /\ \A r \in D : size[r] < n
  <2> HIDE DEF D
  <2> QED BY <1>0, <1>1
<1>3. hasLeft \in [D -> BOOLEAN] /\ hasRight \in [D -> BOOLEAN]
  <2>1. \A r \in D : GoesBefore(r, longest(r)) \in BOOLEAN /\ GoesAfter(r, longest(r)) \in BOOLEAN
    BY DEF GoesBefore, GoesAfter
  <2> QED BY <2>1
<1>4. \A r \in D : hasLeft[r] => left[r] \in D /\ size[left[r]] < size[r]
  <2> HIDE DEF D, longest
  <2> QED BY <1>1
<1>5. \A r \in D : hasRight[r] => right[r] \in D /\ size[right[r]] < size[r]
  <2> HIDE DEF D, longest
  <2> QED BY <1>1
<1>6. << >> \in V
  OBVIOUS
<1>7. F \in [D \X V \X V -> V]
  <2>1. ASSUME NEW r \in D, NEW s \in V, NEW t \in V PROVE Join(r, s, t) \in V
    <3>1. longest(r) \in Blocks
      BY <1>1
    <3> HIDE DEF D, longest
    <3>2. <<longest(r)>> \in V
      BY <3>1
    <3>3. s \o <<longest(r)>> \in V
      BY <3>2, Concatenated
    <3>4. s \o <<longest(r)>> \o t \in V
      BY <3>3, Concatenated
    <3> QED BY <1>6, <3>4
  <2> HIDE DEF D, V, Join
  <2> QED BY <2>1
<1> HIDE DEF D, V, size, hasLeft, hasRight, left, right, F, n
<1>8. PICK g \in [D -> V] : Solves(g, D, << >>, hasLeft, hasRight, left, right, F)
  <2>1. size \in [D -> Nat] /\ n \in Nat
    BY <1>0, <1>2
  <2>2. \A d \in D : size[d] < n
    BY <1>2
  <2>3. GoesDown(D, size, hasLeft, left) /\ GoesDown(D, size, hasRight, right)
    BY <1>4, <1>5 DEF GoesDown
  <2>4. Solvable(D, V, << >>, hasLeft, hasRight, left, right, F)
    BY ONLY <1>3, <1>6, <1>7, <2>1, <2>2, <2>3, RecursionIsThere
  <2> QED BY ONLY <2>4 DEF Solvable
<1>9. ASSUME NEW r \in D PROVE g[r] = MatchesIn(g, a, b, mods, r)
  <2> DEFINE l == IF hasLeft[r] THEN g[left[r]] ELSE << >>
             t == IF hasRight[r] THEN g[right[r]] ELSE << >>
  <2>1. l \in V /\ t \in V
    BY <1>4, <1>5, <1>6, <1>8
  <2>2. F[<<r, l, t>>] = Join(r, l, t)
    <3> HIDE DEF l, t, Join
    <3> QED BY <2>1 DEF F
  <2>3. g[r] = Join(r, l, t)
    BY <1>8, <2>2 DEF Solves
  <2>4. /\ l = IF GoesBefore(r, longest(r)) THEN g[BeforeIt(r, longest(r))] ELSE << >>
        /\ t = IF GoesAfter(r, longest(r)) THEN g[AfterIt(r, longest(r))] ELSE << >>
    BY DEF hasLeft, hasRight, left, right
  <2> HIDE DEF l, t
  <2>5. CASE longest(r).size = 0
    BY <2>3, <2>5 DEF MatchesIn, LongestIn
  <2>6. CASE longest(r).size # 0
    <3>1. g[r] = l \o <<longest(r)>> \o t
      BY <2>3, <2>6
    <3>2. /\ l = IF longest(r).i > r.begin1 /\ longest(r).j > r.begin2
                 THEN g[BeforeIt(r, longest(r))] ELSE << >>
          /\ t = IF longest(r).i + longest(r).size < r.end2 /\ longest(r).j + longest(r).size < r.end2
                 THEN g[AfterIt(r, longest(r))] ELSE << >>
      BY <2>4, <2>6 DEF GoesBefore, GoesAfter
    <3> QED BY <2>6, <3>1, <3>2 DEF MatchesIn, LongestIn, BeforeIt, AfterIt
  <2> QED BY <2>5, <2>6
<1>10. g = [r \in D |-> MatchesIn(g, a, b, mods, r)]
  BY <1>8, <1>9
<1> QED BY <1>10 DEF D

(* find_longest_matches: whatever the recursion comes to are blocks that   *)
(* both sequences have, one after another in both.                         *)
THEOREM MatchesAreChain ==
  ASSUME NEW a, NEW b, RowsIn(a, b), NEW mods \in IndexSets,
         NEW first \in 0 .. Len(a), first \in 0 .. Len(b),
         NEW ms, ms = find_longest_matches(a, b, mods, first)
  PROVE  Chain(ms, a, b, first, Len(a), first, Len(b))
<1> DEFINE D == Ranges(a, b)
           matches == CHOOSE g : g = [r \in D |-> MatchesIn(g, a, b, mods, r)]
           whole == [begin1 |-> first, end1 |-> Len(a), begin2 |-> first, end2 |-> Len(b)]
<1>1. ms = matches[whole]
  BY DEF find_longest_matches, MatchesIn
<1>2. matches = [r \in D |-> MatchesIn(matches, a, b, mods, r)]
  BY MatchesAreThere
<1> HIDE DEF matches
<1>3. \A r \in D : matches[r] = MatchesIn(matches, a, b, mods, r)
  BY <1>2
<1>4. Len(a) \in Nat /\ Len(b) \in Nat
  BY DEF RowsIn
<1> DEFINE ChainOf(r) == Chain(matches[r], a, b, r.begin1, r.end1, r.begin2, r.end2)
           T == {k \in Nat : \A r \in D : RowsLeft(r) < k => ChainOf(r)}
<1>5. ASSUME NEW r \in D, \A q \in D : RowsLeft(q) < RowsLeft(r) => ChainOf(q)
      PROVE  ChainOf(r)
  <2> DEFINE m == LongestIn(a, b, mods, r)
             before == IF m.i > r.begin1 /\ m.j > r.begin2 THEN matches[BeforeIt(r, m)] ELSE << >>
             after == IF m.i + m.size < r.end2 /\ m.j + m.size < r.end2
                      THEN matches[AfterIt(r, m)] ELSE << >>
  <2>1. CASE m.size = 0
    <3>1. matches[r] = << >>
      BY <1>3, <2>1 DEF MatchesIn, LongestIn
    <3> QED BY <3>1, ShortChains
  <2>2. CASE m.size # 0
    <3>1. matches[r] = before \o <<m>> \o after
      BY <1>3, <2>2 DEF MatchesIn, LongestIn, BeforeIt, AfterIt
    <3>2. /\ m \in Blocks
          /\ InBoth(m, a, b, r.begin1, r.end1, r.begin2, r.end2)
          /\ GoesBefore(r, m) => BeforeIt(r, m) \in D /\ RowsLeft(BeforeIt(r, m)) < RowsLeft(r)
          /\ GoesAfter(r, m) => AfterIt(r, m) \in D /\ RowsLeft(AfterIt(r, m)) < RowsLeft(r)
      BY <2>2, SmallerRanges
    <3> HIDE DEF m
    <3>3. /\ m.i \in Nat /\ m.j \in Nat /\ m.size \in Nat
          /\ r.begin1 <= m.i /\ m.i + m.size <= r.end1
          /\ r.begin2 <= m.j /\ m.j + m.size <= r.end2
          /\ \A x \in 0 .. m.size - 1 : a[m.i + x + 1] = b[m.j + x + 1]
      BY <3>2 DEF InBoth
    <3>4. r.begin1 \in Nat /\ r.end1 \in Nat /\ r.begin2 \in Nat /\ r.end2 \in Nat
      BY <1>4 DEF Ranges
    <3>5. Chain(before, a, b, r.begin1, m.i, r.begin2, m.j)
      <4>1. CASE m.i > r.begin1 /\ m.j > r.begin2
        <5>1. BeforeIt(r, m) \in D /\ RowsLeft(BeforeIt(r, m)) < RowsLeft(r)
          BY <2>2, <3>2, <4>1 DEF GoesBefore
        <5>2. ChainOf(BeforeIt(r, m))
          BY <1>5, <5>1
        <5>3. /\ BeforeIt(r, m).begin1 = r.begin1 /\ BeforeIt(r, m).end1 = m.i
              /\ BeforeIt(r, m).begin2 = r.begin2 /\ BeforeIt(r, m).end2 = m.j
          BY DEF BeforeIt, Ranges
        <5> QED BY <4>1, <5>2, <5>3
      <4>2. CASE ~ (m.i > r.begin1 /\ m.j > r.begin2)
        <5>1. before = << >>
          BY <4>2
        <5> QED BY <5>1, ShortChains
      <4> QED BY <4>1, <4>2
    <3>6. Chain(<<m>>, a, b, m.i, m.i + m.size, m.j, m.j + m.size)
      <4>1. InBoth(m, a, b, m.i, m.i + m.size, m.j, m.j + m.size)
        BY <3>3 DEF InBoth
      <4> QED BY <3>2, <4>1, ShortChains
    <3>7. Chain(after, a, b, m.i + m.size, r.end1, m.j + m.size, r.end2)
      <4>1. CASE m.i + m.size < r.end2 /\ m.j + m.size < r.end2
        <5>1. AfterIt(r, m) \in D /\ RowsLeft(AfterIt(r, m)) < RowsLeft(r)
          BY <2>2, <3>2, <4>1 DEF GoesAfter
        <5>2. ChainOf(AfterIt(r, m))
          BY <1>5, <5>1
        <5>3. /\ AfterIt(r, m).begin1 = m.i + m.size /\ AfterIt(r, m).end1 = r.end1
              /\ AfterIt(r, m).begin2 = m.j + m.size /\ AfterIt(r, m).end2 = r.end2
          BY DEF AfterIt, Ranges
        <5> QED BY <4>1, <5>2, <5>3
      <4>2. CASE ~ (m.i + m.size < r.end2 /\ m.j + m.size < r.end2)
        <5>1. after = << >>
          BY <4>2
        <5> QED BY <5>1, ShortChains
      <4> QED BY <4>1, <4>2
    <3> HIDE DEF before, after
    <3>8. m.i + m.size \in Nat /\ m.j + m.size \in Nat /\ m.i <= m.i + m.size /\ m.j <= m.j + m.size
      BY <3>3
    <3>9. Chain(before \o <<m>>, a, b, r.begin1, m.i + m.size, r.begin2, m.j + m.size)
      BY <3>3, <3>4, <3>5, <3>6, <3>8, ChainOfBoth
    <3>10. r.begin1 <= m.i + m.size /\ r.begin2 <= m.j + m.size
      <4>1. r.begin1 <= m.i /\ r.begin2 <= m.j /\ m.i \in Nat /\ m.j \in Nat
        BY <3>3
      <4> QED BY ONLY <3>4, <3>8, <4>1
    <3>11. Chain(before \o <<m>> \o after, a, b, r.begin1, r.end1, r.begin2, r.end2)
      BY <3>3, <3>4, <3>7, <3>8, <3>9, <3>10, ChainOfBoth
    <3> QED BY <3>1, <3>11
  <2> QED BY <2>1, <2>2
<1>6. \A r \in D : RowsLeft(r) \in 0 .. Len(a)
  BY SmallerRanges
<1>7. whole \in D
  BY <1>4 DEF Ranges
<1>8. 0 \in T
  <2>1. \A r \in D : ~ (RowsLeft(r) < 0)
    BY <1>4, <1>6
  <2> QED BY <2>1
<1>9. ASSUME NEW k \in Nat, k \in T PROVE k + 1 \in T
  <2>1. ASSUME NEW r \in D, RowsLeft(r) < k + 1 PROVE ChainOf(r)
    <3>1. ASSUME NEW q \in D, RowsLeft(q) < RowsLeft(r) PROVE ChainOf(q)
      <4>1. RowsLeft(q) \in Nat /\ RowsLeft(r) \in Nat
        BY <1>4, <1>6
      <4>2. RowsLeft(q) < k
        BY <2>1, <3>1, <4>1
      <4> QED BY <1>9, <4>2
    <3> HIDE DEF ChainOf
    <3> QED BY <1>5, <3>1
  <2> HIDE DEF ChainOf
  <2> QED BY <2>1
<1>10. Len(a) + 1 \in T
  <2> HIDE DEF T
  <2>1. Nat \subseteq T
    BY <1>8, <1>9, Induction
  <2> QED BY <1>4, <2>1
<1>11. ChainOf(whole)
  <2>1. RowsLeft(whole) < Len(a) + 1
    BY <1>4, <1>6, <1>7
  <2> HIDE DEF ChainOf, whole
  <2> QED BY <1>7, <1>10, <2>1
<1> QED BY <1>1, <1>11

(* Rows in the order of their old indices: where each one is. *)
InOldOrder(p, rows, n) ==
  /\ p \in [1 .. n -> 1 .. n]
  /\ \A l \in 1 .. n : \E k \in 1 .. n : p[k] = l
  /\ \A k, l \in 1 .. n : k < l => rows[p[k]].prev_tv_index < rows[p[l]].prev_tv_index

OldOrderOf(before, p, rows, n) ==
  /\ DOMAIN before = 1 .. n /\ InOldOrder(p, rows, n)
  /\ \A k \in 1 .. n : before[k] = rows[p[k]]

(* std::sort in calculate_moves_sorted. *)
LEMMA ByOldIndexIs ==
  ASSUME NEW rows, NEW n \in Nat, DOMAIN rows = 1 .. n, NEW N \in Nat,
         \A k \in 1 .. n : rows[k].prev_tv_index \in 0 .. N - 1,
         \A k, l \in 1 .. n : rows[k].prev_tv_index = rows[l].prev_tv_index => k = l
  PROVE  \E p : OldOrderOf(ByOldIndex(rows), p, rows, n)
<1> DEFINE indices == {row.prev_tv_index : row \in ToSet(rows)}
           C == Cardinality(indices)
           Nth(k) == CHOOSE row \in ToSet(rows) : count(indices, row.prev_tv_index) = k - 1
           old == ByOldIndex(rows)
           prev == [k \in 1 .. n |-> rows[k].prev_tv_index]
<1>1. old = [k \in 1 .. n |-> Nth(k)]
  BY DEF ByOldIndex
<1>2. ToSet(rows) = {rows[k] : k \in 1 .. n}
  BY DEF ToSet
<1>3. indices = {rows[k].prev_tv_index : k \in 1 .. n} /\ indices \in SUBSET (0 .. N - 1)
  BY <1>2
<1>4. C = n
  <2>1. IsFiniteSet(1 .. n) /\ Cardinality(1 .. n) = n
    <3>1. IF 1 > n THEN Cardinality(1 .. n) = 0 ELSE Cardinality(1 .. n) = n - 1 + 1
      BY FS_Interval
    <3>2. IsFiniteSet(1 .. n)
      BY FS_Interval
    <3> QED BY <3>1, <3>2
  <2>2. prev \in [1 .. n -> indices]
    BY <1>3
  <2>3. \A k, l \in 1 .. n : prev[k] = prev[l] => k = l
    OBVIOUS
  <2>4. \A x \in indices : \E k \in 1 .. n : prev[k] = x
    BY <1>3
  <2> HIDE DEF prev, indices
  <2>5. prev \in Bijection(1 .. n, indices)
    BY <2>2, <2>3, <2>4 DEF Bijection, Injection, IsInjective, Surjection
  <2>6. ExistsBijection(1 .. n, indices)
    BY <2>5 DEF ExistsBijection
  <2> QED BY <2>1, <2>6, FS_Bijection
<1>5. /\ \A x \in indices : count(indices, x) \in 0 .. C - 1
      /\ \A x, y \in indices : count(indices, x) = count(indices, y) => x = y
      /\ \A k \in 0 .. C - 1 : \E x \in indices : count(indices, x) = k
      /\ indices \in IndexSets
  <2>1. indices \in SUBSET (0 .. N - 1)
    BY <1>3
  <2> HIDE DEF indices
  <2> QED BY ONLY <2>1, N \in Nat, NthIndex
<1>6. ASSUME NEW k \in 1 .. n
      PROVE  \E l \in 1 .. n : Nth(k) = rows[l] /\ count(indices, rows[l].prev_tv_index) = k - 1
  <2>1. k - 1 \in 0 .. C - 1
    BY <1>4
  <2>2. PICK x \in indices : count(indices, x) = k - 1
    BY <1>5, <2>1
  <2>3. \E row \in ToSet(rows) : count(indices, row.prev_tv_index) = k - 1
    BY <2>2
  <2> HIDE DEF indices
  <2>4. Nth(k) \in ToSet(rows) /\ count(indices, Nth(k).prev_tv_index) = k - 1
    BY <2>3
  <2> HIDE DEF Nth
  <2> QED BY <1>2, <2>4
<1> DEFINE p == [k \in 1 .. n |-> CHOOSE l \in 1 .. n :
                   Nth(k) = rows[l] /\ count(indices, rows[l].prev_tv_index) = k - 1]
<1> HIDE DEF Nth, indices, old, C
<1>7. \A k \in 1 .. n : /\ p[k] \in 1 .. n /\ Nth(k) = rows[p[k]]
                        /\ count(indices, rows[p[k]].prev_tv_index) = k - 1
  BY <1>6
<1> HIDE DEF p
<1>8. p \in [1 .. n -> 1 .. n]
  BY <1>7 DEF p
<1>9. ASSUME NEW l \in 1 .. n PROVE \E k \in 1 .. n : p[k] = l
  <2>1. rows[l].prev_tv_index \in indices
    BY <1>3
  <2>2. PICK k : k = count(indices, rows[l].prev_tv_index) + 1
    OBVIOUS
  <2>3. k \in 1 .. n /\ k - 1 = count(indices, rows[l].prev_tv_index)
    BY <1>4, <1>5, <2>1, <2>2
  <2>4. rows[p[k]].prev_tv_index \in indices
    BY <1>3, <1>7, <2>3
  <2>5. rows[p[k]].prev_tv_index = rows[l].prev_tv_index
    BY <1>5, <1>7, <2>1, <2>3, <2>4
  <2> QED BY <1>7, <2>3, <2>5
<1>10. ASSUME NEW k \in 1 .. n, NEW l \in 1 .. n, k < l
       PROVE  rows[p[k]].prev_tv_index < rows[p[l]].prev_tv_index
  <2> DEFINE x == rows[p[k]].prev_tv_index
             y == rows[p[l]].prev_tv_index
  <2>1. x \in Nat /\ y \in Nat
    BY <1>7
  <2>2. count(indices, x) = k - 1 /\ count(indices, y) = l - 1
    BY <1>7
  <2> HIDE DEF x, y
  <2>3. ASSUME y <= x PROVE FALSE
    <3>1. {i \in indices : i < y} \subseteq {i \in indices : i < x}
      <4>1. \A i \in indices : i \in Nat
        BY <1>3
      <4> QED BY <2>1, <2>3, <4>1
    <3>2. IsFiniteSet({i \in indices : i < x})
      BY <1>5, FS_Subset DEF IndexSets
    <3>3. count(indices, y) <= count(indices, x)
      BY <3>1, <3>2, FS_Subset DEF count
    <3> QED BY <1>10, <2>2, <3>3
  <2> QED BY <2>1, <2>3 DEF x, y
<1>11. InOldOrder(p, rows, n)
  BY <1>8, <1>9, <1>10 DEF InOldOrder
<1>12. DOMAIN old = 1 .. n /\ \A k \in 1 .. n : old[k] = rows[p[k]]
  BY <1>1, <1>7
<1>13. OldOrderOf(old, p, rows, n)
  BY <1>11, <1>12 DEF OldOrderOf
<1> QED BY <1>13 DEF old

(* How far the blocks have come. *)
Aligning == [i : Nat, j : Nat, c : ChangeSets]

(* A block within the first n of both. *)
Within(m, n) ==
  /\ m.i \in Nat /\ m.j \in Nat /\ m.size \in Nat
  /\ m.i + m.size <= n /\ m.j + m.size <= n

(* What a block adds. *)
AlignedTo(u, s, old, rows, match) ==
  /\ u \in Aligning
  /\ u.i = match.i + match.size /\ u.j = match.j + match.size
  /\ u.c.deletions = s.c.deletions \cup {old[k + 1].prev_tv_index : k \in s.i .. match.i - 1}
  /\ u.c.insertions = s.c.insertions \cup {rows[k + 1].tv_index : k \in s.j .. match.j - 1}
  /\ u.c.moves = s.c.moves /\ u.c.modifications = s.c.modifications

LEMMA AlignOne ==
  ASSUME NEW n \in Nat, NEW rows, NEW old,
         \A k \in 1 .. n : rows[k].tv_index \in Nat /\ old[k].prev_tv_index \in Nat,
         NEW s \in Aligning, NEW match, Within(match, n)
  PROVE  AlignedTo(Align(old, rows, s, match), s, old, rows, match)
<1> DEFINE D == {old[k + 1].prev_tv_index : k \in s.i .. match.i - 1}
           I == {rows[k + 1].tv_index : k \in s.j .. match.j - 1}
           del == s.c.deletions \cup D
           ins == s.c.insertions \cup I
           c == [s.c EXCEPT !.deletions = del, !.insertions = ins]
           u == Align(old, rows, s, match)
<1>0. /\ s.c \in ChangeSets /\ s.i \in Nat /\ s.j \in Nat
      /\ match.i \in Nat /\ match.j \in Nat /\ match.size \in Nat
      /\ match.i + match.size <= n /\ match.j + match.size <= n
  BY DEF Aligning, Within
<1>1. /\ \A k \in s.i .. match.i - 1 : k + 1 \in 1 .. n
      /\ \A k \in s.j .. match.j - 1 : k + 1 \in 1 .. n
  BY <1>0
<1>2. D \in IndexSets /\ I \in IndexSets
  <2> DEFINE P == s.i .. match.i - 1
             Q == s.j .. match.j - 1
             f == [k \in P |-> old[k + 1].prev_tv_index]
             g == [k \in Q |-> rows[k + 1].tv_index]
  <2>1. IsFiniteSet(P) /\ IsFiniteSet(Q)
    <3>1. \A x, y \in Int : IsFiniteSet(x .. y)
      BY FS_Interval
    <3>2. s.i \in Int /\ s.j \in Int /\ match.i - 1 \in Int /\ match.j - 1 \in Int
      BY <1>0
    <3> QED BY <3>1, <3>2
  <2>2. f \in [P -> Nat] /\ g \in [Q -> Nat]
    <3> HIDE DEF P, Q
    <3>1. /\ \A k \in P : k + 1 \in 1 .. n
          /\ \A k \in Q : k + 1 \in 1 .. n
      BY <1>1 DEF P, Q
    <3> QED BY <3>1
  <2>3. D = {f[k] : k \in P} /\ I = {g[k] : k \in Q}
    OBVIOUS
  <2> HIDE DEF D, I, f, g, P, Q
  <2> QED BY <2>1, <2>2, <2>3, ImageIsFinite
<1>3. u = [i |-> match.i + match.size, j |-> match.j + match.size, c |-> c]
  BY DEF Align
<1> HIDE DEF D, I
<1>4. del \in IndexSets /\ ins \in IndexSets
  <2>1. s.c.deletions \in IndexSets /\ s.c.insertions \in IndexSets
    BY <1>0 DEF ChangeSets
  <2> QED BY <1>2, <2>1, UnionIsFinite
<1> HIDE DEF del, ins
<1>5. /\ c \in ChangeSets /\ c.deletions = del /\ c.insertions = ins
      /\ c.moves = s.c.moves /\ c.modifications = s.c.modifications
  BY <1>0, <1>4 DEF ChangeSets
<1>6. match.i + match.size \in Nat /\ match.j + match.size \in Nat
  BY <1>0
<1> HIDE DEF c, u
<1>7. u \in Aligning /\ u.i = match.i + match.size /\ u.j = match.j + match.size /\ u.c = c
  BY <1>3, <1>5, <1>6 DEF Aligning
<1> HIDE DEF u
<1>8. AlignedTo(u, s, old, rows, match)
  BY ONLY <1>5, <1>7 DEF AlignedTo, del, ins, D, I
<1> QED BY <1>8 DEF u

(* The blocks, one after another. *)
BlockByBlock(h, base, old, rows, ms) ==
  /\ h[0] = base
  /\ \A k \in 1 .. Len(ms) : h[k] = Align(old, rows, h[k - 1], ms[k])
  /\ AlignAll(old, rows, base, ms) = h[Len(ms)]

LEMMA AlignSteps ==
  ASSUME NEW n \in Nat, NEW rows, NEW old,
         \A k \in 1 .. n : rows[k].tv_index \in Nat /\ old[k].prev_tv_index \in Nat,
         NEW ms \in Seq(Blocks), \A k \in 1 .. Len(ms) : Within(ms[k], n),
         NEW base \in Aligning
  PROVE  \E h : BlockByBlock(h, base, old, rows, ms)
<1> DEFINE z == Len(ms)
           One(s, match) == Align(old, rows, s, match)
           Folds(g) == g = [s \in SUBSET DOMAIN ms |->
                             IF s = {} THEN base ELSE One(g[s \ {Max(s)}], ms[Max(s)])]
           F == [p \in Aligning \X (1 .. z) |-> One(p[1], ms[p[2]])]
<1>0. z \in Nat /\ DOMAIN ms = 1 .. z
  OBVIOUS
<1>2. F \in [Aligning \X (1 .. z) -> Aligning]
  <2>1. ASSUME NEW d \in Aligning, NEW k \in 1 .. z PROVE One(d, ms[k]) \in Aligning
    <3>1. Within(ms[k], n)
      OBVIOUS
    <3>2. AlignedTo(One(d, ms[k]), d, old, rows, ms[k])
      BY <3>1, AlignOne
    <3> HIDE DEF One
    <3> QED BY <3>2 DEF AlignedTo
  <2> HIDE DEF One, z
  <2> QED BY <2>1
<1>3. \E g : Folds(g)
  <2> HIDE DEF One, z
  <2>1. PICK g \in [SUBSET (1 .. z) -> Aligning] : Folded(g, z, base, F)
    <3> HIDE DEF F
    <3> QED BY <1>0, <1>2, FoldIsThere
  <2>2. ASSUME NEW s \in SUBSET (1 .. z), s # {}
        PROVE  F[<<g[s \ {Max(s)}], Max(s)>>] = One(g[s \ {Max(s)}], ms[Max(s)])
    <3>1. Max(s) \in 1 .. z
      BY <1>0, <2>2, LastOfInitial
    <3>2. g[s \ {Max(s)}] \in Aligning
      BY <2>1
    <3> QED BY <3>1, <3>2
  <2>3. g = [s \in SUBSET (1 .. z) |->
               IF s = {} THEN base ELSE One(g[s \ {Max(s)}], ms[Max(s)])]
    <3> HIDE DEF F
    <3> QED BY <2>1, <2>2 DEF Folded
  <2> QED BY <1>0, <2>3
<1> DEFINE f == CHOOSE g : Folds(g)
           h == [k \in 0 .. z |-> f[1 .. k]]
<1>4. AlignAll(old, rows, base, ms) = f[DOMAIN ms]
  BY DEF AlignAll, FoldLeft, MapThenFoldSet
<1>5. Folds(f)
  <2> HIDE DEF Folds
  <2> QED BY <1>3
<1> HIDE DEF f, One, z
<1>6. f[{}] = base
  BY <1>5
<1>7. \A k \in 1 .. z : f[1 .. k] = One(f[1 .. k - 1], ms[k])
  <2> TAKE k \in 1 .. z
  <2>1. k \in Nat \ {0} /\ 1 .. k \in SUBSET DOMAIN ms
    BY <1>0
  <2>2. 1 .. k # {} /\ Max(1 .. k) = k /\ (1 .. k) \ {k} = 1 .. k - 1
    BY <2>1, InitialSegments
  <2> QED BY <1>5, <2>1, <2>2
<1>8. h[0] = base
  BY <1>0, <1>6
<1>9. \A k \in 1 .. z : h[k] = One(h[k - 1], ms[k])
  BY <1>0, <1>7
<1>10. AlignAll(old, rows, base, ms) = h[z]
  BY <1>0, <1>4
<1>11. BlockByBlock(h, base, old, rows, ms)
  <2> HIDE DEF h
  <2> QED BY ONLY <1>8, <1>9, <1>10 DEF BlockByBlock, One, z
<1> QED BY <1>11

(* Some rows have been kept, in their old order; the others up to here are *)
(* deleted and inserted. p is where the rows are that were here.           *)
Aligned(s, kept, rows, p, n, c) ==
  /\ s.i \in 0 .. n /\ s.j \in 0 .. n
  /\ kept \subseteq 1 .. s.i
  /\ \A x \in kept : p[x] \in 1 .. s.j
  /\ \A x, y \in kept : x < y => p[x] < p[y]
  /\ s.c.deletions = c.deletions \cup {rows[p[x]].prev_tv_index : x \in (1 .. s.i) \ kept}
  /\ s.c.insertions = c.insertions \cup {rows[l].tv_index : l \in (1 .. s.j) \ {p[x] : x \in kept}}
  /\ s.c.moves = c.moves /\ s.c.modifications = c.modifications

(* A block of rows that are in the same order. *)
BlockIn(m, p, n) == Within(m, n) /\ \A x \in 1 .. m.size : p[m.i + x] = m.j + x

AlignedUpTo(u, m, rows, p, n, c) ==
  /\ u \in Aligning /\ u.i = m.i + m.size /\ u.j = m.j + m.size
  /\ \E kept : Aligned(u, kept, rows, p, n, c)

(* The indices up to the end of a block that are in neither. *)
LEMMA UpToHere ==
  ASSUME NEW i \in Nat, NEW m \in Nat, NEW z \in Nat, i <= m,
         NEW P, \A x \in P : x \in Nat /\ x <= i
  PROVE  (1 .. m + z) \ (P \cup (m + 1 .. m + z)) = ((1 .. i) \ P) \cup (i + 1 .. m)
<1>1. ASSUME NEW x \in 1 .. m + z, x \notin P, x \notin m + 1 .. m + z
      PROVE  x \in ((1 .. i) \ P) \cup (i + 1 .. m)
  BY <1>1
<1>2. ASSUME NEW x \in 1 .. i, x \notin P
      PROVE  x \in 1 .. m + z /\ x \notin m + 1 .. m + z
  OBVIOUS
<1>3. ASSUME NEW x \in i + 1 .. m
      PROVE  x \in 1 .. m + z /\ x \notin m + 1 .. m + z /\ x \notin P
  OBVIOUS
<1> QED BY ONLY <1>1, <1>2, <1>3

LEMMA AlignKeeps ==
  ASSUME NEW n \in Nat, NEW rows, NEW old, NEW p \in [1 .. n -> 1 .. n],
         \A k \in 1 .. n : rows[k].tv_index \in Nat /\ old[k].prev_tv_index \in Nat,
         \A k \in 1 .. n : old[k] = rows[p[k]],
         NEW c, NEW s \in Aligning, NEW kept, Aligned(s, kept, rows, p, n, c),
         NEW m, BlockIn(m, p, n), s.i <= m.i, s.j <= m.j,
         NEW u, u = Align(old, rows, s, m)
  PROVE  AlignedUpTo(u, m, rows, p, n, c)
<1>0. PICK i, j, mi, mj, z : i = s.i /\ j = s.j /\ mi = m.i /\ mj = m.j /\ z = m.size
  OBVIOUS
<1>1. /\ i \in 0 .. n /\ j \in 0 .. n /\ mi \in Nat /\ mj \in Nat /\ z \in Nat
      /\ mi + z <= n /\ mj + z <= n /\ i <= mi /\ j <= mj
      /\ \A x \in 1 .. z : p[mi + x] = mj + x
  BY <1>0 DEF Aligned, BlockIn, Within
<1>n. i \in Nat /\ j \in Nat /\ mi \in Nat /\ mj \in Nat /\ z \in Nat /\ i <= mi /\ j <= mj
  BY <1>1
<1>2. /\ kept \subseteq 1 .. i
      /\ \A x \in kept : p[x] \in 1 .. j
      /\ \A x, y \in kept : x < y => p[x] < p[y]
      /\ s.c.deletions = c.deletions \cup {rows[p[x]].prev_tv_index : x \in (1 .. i) \ kept}
      /\ s.c.insertions = c.insertions \cup {rows[l].tv_index : l \in (1 .. j) \ {p[x] : x \in kept}}
      /\ s.c.moves = c.moves /\ s.c.modifications = c.modifications
  BY <1>0 DEF Aligned
<1>3. /\ u \in Aligning /\ u.i = mi + z /\ u.j = mj + z
      /\ u.c.deletions = s.c.deletions \cup {old[k + 1].prev_tv_index : k \in i .. mi - 1}
      /\ u.c.insertions = s.c.insertions \cup {rows[k + 1].tv_index : k \in j .. mj - 1}
      /\ u.c.moves = s.c.moves /\ u.c.modifications = s.c.modifications
  <2>1. AlignedTo(u, s, old, rows, m)
    BY AlignOne DEF BlockIn
  <2> QED BY <1>0, <2>1 DEF AlignedTo
<1> DEFINE block == mi + 1 .. mi + z
           more == kept \cup block
<1>4. \A x \in block : /\ x \in 1 .. n /\ x > i /\ x \in Nat
                       /\ p[x] = x - mi + mj /\ p[x] \in mj + 1 .. mj + z
  <2> SUFFICES ASSUME NEW x \in block
               PROVE  /\ x \in 1 .. n /\ x > i /\ x \in Nat
                      /\ p[x] = x - mi + mj /\ p[x] \in mj + 1 .. mj + z
    OBVIOUS
  <2>1. x \in Nat /\ x >= mi + 1 /\ x <= mi + z
    BY <1>1
  <2>2. PICK y : y = x - mi
    OBVIOUS
  <2>3. y \in 1 .. z /\ mi + y = x
    BY <1>1, <2>1, <2>2
  <2>4. p[x] = mj + y
    BY <1>1, <2>3
  <2> QED BY <1>1, <2>1, <2>2, <2>3, <2>4
<1>5. more \subseteq 1 .. mi + z
  BY <1>1, <1>2
<1>6. \A x \in kept : x \in Nat /\ x <= i /\ p[x] \in Nat /\ p[x] <= j /\ x \in 1 .. n
  BY <1>1, <1>2
<1>7. \A x \in more : p[x] \in 1 .. mj + z
  <2>1. ASSUME NEW x \in kept PROVE p[x] \in 1 .. mj + z
    <3>1. p[x] \in Nat /\ p[x] <= j /\ 1 <= p[x]
      BY <1>1, <1>6
    <3> QED BY <1>1, <3>1
  <2>2. ASSUME NEW x \in block PROVE p[x] \in 1 .. mj + z
    <3>1. p[x] \in mj + 1 .. mj + z
      BY <1>4
    <3> QED BY <1>1, <3>1
  <2> QED BY <2>1, <2>2
<1>8. ASSUME NEW x \in more, NEW y \in more, x < y PROVE p[x] < p[y]
  <2>1. CASE x \in kept /\ y \in kept
    BY <1>2, <1>8, <2>1
  <2>2. CASE x \in kept /\ y \in block
    BY <1>1, <1>4, <1>6, <2>2
  <2>3. CASE x \in block /\ y \in kept
    BY <1>1, <1>4, <1>6, <1>8, <2>3
  <2>4. CASE x \in block /\ y \in block
    BY <1>1, <1>4, <1>8, <2>4
  <2> QED BY <2>1, <2>2, <2>3, <2>4
<1>9. {p[x] : x \in more} = {p[x] : x \in kept} \cup (mj + 1 .. mj + z)
  <2>1. ASSUME NEW l \in mj + 1 .. mj + z PROVE \E x \in block : p[x] = l
    <3>1. PICK x : x = l - mj + mi
      OBVIOUS
    <3>2. x \in block /\ x - mi + mj = l
      BY <1>1, <3>1
    <3> QED BY <1>4, <3>2
  <2>2. \A x \in block : p[x] \in mj + 1 .. mj + z
    BY <1>4
  <2> HIDE DEF block
  <2> QED BY <2>1, <2>2
<1>10. (1 .. mi + z) \ more = ((1 .. i) \ kept) \cup (i + 1 .. mi)
  <2>1. \A x \in kept : x \in Nat /\ x <= i
    BY <1>6
  <2> HIDE DEF block
  <2>2. (1 .. mi + z) \ (kept \cup (mi + 1 .. mi + z)) = ((1 .. i) \ kept) \cup (i + 1 .. mi)
    BY ONLY <1>n, <2>1, UpToHere
  <2> QED BY ONLY <2>2 DEF block
<1>11. (1 .. mj + z) \ {p[x] : x \in more} = ((1 .. j) \ {p[x] : x \in kept}) \cup (j + 1 .. mj)
  <2> DEFINE P == {p[x] : x \in kept}
  <2>1. \A l \in P : l \in Nat /\ l <= j
    BY <1>6
  <2>2. {p[x] : x \in more} = P \cup (mj + 1 .. mj + z)
    BY <1>9
  <2> HIDE DEF P
  <2>3. (1 .. mj + z) \ (P \cup (mj + 1 .. mj + z)) = ((1 .. j) \ P) \cup (j + 1 .. mj)
    BY ONLY <1>n, <2>1, UpToHere
  <2> QED BY ONLY <2>2, <2>3 DEF P
<1>12. {old[k + 1].prev_tv_index : k \in i .. mi - 1} = {rows[p[x]].prev_tv_index : x \in i + 1 .. mi}
  <2>1. ASSUME NEW k \in i .. mi - 1 PROVE k + 1 \in i + 1 .. mi /\ old[k + 1] = rows[p[k + 1]]
    <3>1. k + 1 \in i + 1 .. mi /\ k + 1 \in 1 .. n
      BY <1>1
    <3> QED BY <3>1
  <2>2. ASSUME NEW x \in i + 1 .. mi
        PROVE  x - 1 \in i .. mi - 1 /\ (x - 1) + 1 = x /\ old[x] = rows[p[x]]
    <3>1. x - 1 \in i .. mi - 1 /\ (x - 1) + 1 = x /\ x \in 1 .. n
      BY <1>1
    <3> QED BY <3>1
  <2> DEFINE V(x) == rows[p[x]].prev_tv_index
  <2>3. \A k \in i .. mi - 1 : old[k + 1].prev_tv_index = V(k + 1)
    BY <2>1
  <2>4. \A k \in i .. mi - 1 : k + 1 \in i + 1 .. mi
    BY <2>1
  <2>5. \A x \in i + 1 .. mi : x - 1 \in i .. mi - 1 /\ old[(x - 1) + 1].prev_tv_index = V(x)
    BY <2>2
  <2> HIDE DEF V
  <2>6. {old[k + 1].prev_tv_index : k \in i .. mi - 1} = {V(x) : x \in i + 1 .. mi}
    BY ONLY <2>3, <2>4, <2>5
  <2> QED BY <2>6 DEF V
<1>13. {rows[k + 1].tv_index : k \in j .. mj - 1} = {rows[l].tv_index : l \in j + 1 .. mj}
  <2>1. ASSUME NEW k \in j .. mj - 1 PROVE k + 1 \in j + 1 .. mj
    BY <1>1
  <2>2. ASSUME NEW l \in j + 1 .. mj PROVE l - 1 \in j .. mj - 1 /\ (l - 1) + 1 = l
    BY <1>1
  <2> QED BY ONLY <2>1, <2>2
<1> HIDE DEF more
<1>14. u.c.deletions = c.deletions \cup {rows[p[x]].prev_tv_index : x \in (1 .. mi + z) \ more}
  BY ONLY <1>2, <1>3, <1>10, <1>12
<1>15. u.c.insertions = c.insertions \cup {rows[l].tv_index : l \in (1 .. mj + z) \ {p[x] : x \in more}}
  BY ONLY <1>2, <1>3, <1>11, <1>13
<1>16. mi + z \in 0 .. n /\ mj + z \in 0 .. n
  BY <1>1
<1>17. Aligned(u, more, rows, p, n, c)
  BY ONLY <1>2, <1>3, <1>5, <1>7, <1>8, <1>14, <1>15, <1>16 DEF Aligned
<1>18. u.i = m.i + m.size /\ u.j = m.j + m.size /\ u \in Aligning
  BY <1>0, <1>3
<1> QED BY ONLY <1>17, <1>18 DEF AlignedUpTo

(* All the blocks. *)
LEMMA AlignAllKeeps ==
  ASSUME NEW n \in Nat, NEW rows, NEW old, NEW p \in [1 .. n -> 1 .. n],
         \A k \in 1 .. n : rows[k].tv_index \in Nat /\ old[k].prev_tv_index \in Nat,
         \A k \in 1 .. n : old[k] = rows[p[k]],
         NEW c, NEW base \in Aligning, NEW first, Aligned(base, first, rows, p, n, c),
         NEW ms \in Seq(Blocks), Len(ms) # 0,
         \A k \in 1 .. Len(ms) : BlockIn(ms[k], p, n) /\ base.i <= ms[k].i /\ base.j <= ms[k].j,
         \A k, l \in 1 .. Len(ms) : k < l => /\ ms[k].i + ms[k].size <= ms[l].i
                                              /\ ms[k].j + ms[k].size <= ms[l].j,
         NEW u, u = AlignAll(old, rows, base, ms)
  PROVE  AlignedUpTo(u, ms[Len(ms)], rows, p, n, c)
<1> DEFINE z == Len(ms)
<1>0. z \in Nat /\ z # 0
  OBVIOUS
<1>1. PICK h : BlockByBlock(h, base, old, rows, ms)
  <2>1. \A k \in 1 .. Len(ms) : Within(ms[k], n)
    BY DEF BlockIn
  <2> QED BY <2>1, AlignSteps
<1>2. h[0] = base /\ (\A k \in 1 .. z : h[k] = Align(old, rows, h[k - 1], ms[k])) /\ u = h[z]
  BY <1>1 DEF BlockByBlock
<1> HIDE DEF z
<1> DEFINE Up(k) == /\ h[k] \in Aligning
                    /\ k # 0 => h[k].i = ms[k].i + ms[k].size /\ h[k].j = ms[k].j + ms[k].size
                    /\ \E kept : Aligned(h[k], kept, rows, p, n, c)
           T == {k \in Nat : k <= z => Up(k)}
<1>3. 0 \in T
  BY <1>2
<1>4. ASSUME NEW k \in Nat, k \in T PROVE k + 1 \in T
  <2> SUFFICES ASSUME k + 1 <= z PROVE Up(k + 1)
    OBVIOUS
  <2>1. k <= z /\ k + 1 \in 1 .. z /\ (k + 1) - 1 = k
    BY <1>0
  <2>2. Up(k)
    BY <1>4, <2>1
  <2>3. PICK kept : Aligned(h[k], kept, rows, p, n, c)
    BY <2>2
  <2>4. h[k + 1] = Align(old, rows, h[k], ms[k + 1])
    BY <1>2, <2>1
  <2>5. BlockIn(ms[k + 1], p, n) /\ base.i <= ms[k + 1].i /\ base.j <= ms[k + 1].j
    BY <2>1 DEF z
  <2>6. h[k].i <= ms[k + 1].i /\ h[k].j <= ms[k + 1].j
    <3>1. CASE k = 0
      BY <1>2, <2>5, <3>1
    <3>2. CASE k # 0
      <4>1. k \in 1 .. z /\ k < k + 1
        BY <2>1, <3>2
      <4>2. ms[k].i + ms[k].size <= ms[k + 1].i /\ ms[k].j + ms[k].size <= ms[k + 1].j
        BY <2>1, <4>1 DEF z
      <4> QED BY <2>2, <3>2, <4>2
    <3> QED BY <3>1, <3>2
  <2>7. h[k] \in Aligning
    BY <2>2
  <2>8. AlignedUpTo(h[k + 1], ms[k + 1], rows, p, n, c)
    BY <2>3, <2>4, <2>5, <2>6, <2>7, AlignKeeps
  <2> QED BY <2>8 DEF AlignedUpTo
<1>5. z \in T
  <2> HIDE DEF T
  <2>1. Nat \subseteq T
    BY <1>3, <1>4, Induction
  <2> QED BY <1>0, <2>1
<1>6. Up(z)
  BY <1>0, <1>5
<1> QED BY <1>0, <1>2, <1>6 DEF z, AlignedUpTo

(* A row is known by its index in the table. *)
LEMMA RowsByIndex ==
  ASSUME NEW E, NEW old \in Seq(E), NEW new \in Seq(E), Distinct(old),
         NEW prev, NEW next, RowsOf(prev, next, old, new),
         NEW rows, NEW gone, NEW unmatched, NEW arrived,
         Staying(rows, gone, unmatched, arrived, prev, next, old, new),
         NEW k \in DOMAIN rows, NEW l \in DOMAIN rows, rows[k].row_index = rows[l].row_index
  PROVE  k = l
<1>1. /\ rows[k].prev_tv_index \in Indices(old) /\ rows[l].prev_tv_index \in Indices(old)
      /\ rows[l].tv_index \in Indices(new)
      /\ rows[k].row_index = prev[rows[k].prev_tv_index + 1]
      /\ rows[l].row_index = next[rows[l].tv_index + 1]
      /\ old[rows[l].prev_tv_index + 1] = new[rows[l].tv_index + 1]
      /\ rows[k].prev_tv_index = rows[l].prev_tv_index => k = l
  BY DEF Staying
<1>2. old[rows[k].prev_tv_index + 1] = new[rows[l].tv_index + 1]
  BY <1>1 DEF RowsOf
<1>3. rows[k].prev_tv_index = rows[l].prev_tv_index
  BY <1>1, <1>2, DistinctIndices
<1> QED BY <1>1, <1>3

(* And what it tells of moves and of modifications.                        *)
MovedApart(b, rows, gone, unmatched, arrived, c) ==
  /\ b.moves = c.moves /\ b.modifications = c.modifications
  /\ \E moved : OthersKept(b, moved, rows, gone, unmatched, arrived)

(* At the end: the rows that are not kept have moved. *)
LEMMA AlignedAtEnd ==
  ASSUME NEW n \in Nat, NEW rows, DOMAIN rows = 1 .. n, NEW p, InOldOrder(p, rows, n),
         \A k \in 1 .. n : rows[k].prev_tv_index \in Nat,
         NEW gone, NEW unmatched \in IndexSets, NEW arrived,
         NEW c, c.deletions = gone, c.insertions = arrived,
         NEW u \in Aligning, u.i = n, u.j = n, NEW kept, Aligned(u, kept, rows, p, n, c),
         NEW b, b = [u.c EXCEPT !.deletions = @ \cup unmatched]
  PROVE  MovedApart(b, rows, gone, unmatched, arrived, c)
<1> DEFINE moved == (1 .. n) \ {p[x] : x \in kept}
           del == u.c.deletions \cup unmatched
<1>1. /\ p \in [1 .. n -> 1 .. n]
      /\ \A l \in 1 .. n : \E k \in 1 .. n : p[k] = l
      /\ \A k, l \in 1 .. n : k < l => rows[p[k]].prev_tv_index < rows[p[l]].prev_tv_index
  BY DEF InOldOrder
<1>2. /\ kept \subseteq 1 .. n
      /\ \A x, y \in kept : x < y => p[x] < p[y]
      /\ u.c.deletions = gone \cup {rows[p[x]].prev_tv_index : x \in (1 .. n) \ kept}
      /\ u.c.insertions = arrived \cup {rows[l].tv_index : l \in moved}
      /\ u.c.moves = c.moves /\ u.c.modifications = c.modifications
  BY DEF Aligned
<1>3. \A k, l \in 1 .. n : p[k] = p[l] => k = l
  <2> SUFFICES ASSUME NEW k \in 1 .. n, NEW l \in 1 .. n, p[k] = p[l], k # l PROVE FALSE
    OBVIOUS
  <2>1. k < l \/ l < k
    OBVIOUS
  <2>2. PICK x : x = rows[p[k]].prev_tv_index
    OBVIOUS
  <2>3. x \in Nat /\ x = rows[p[l]].prev_tv_index
    BY <1>1, <2>2
  <2>4. x < x
    BY ONLY <1>1, <2>1, <2>2, <2>3
  <2> QED BY <2>3, <2>4
<1>4. {p[x] : x \in (1 .. n) \ kept} = moved
  BY <1>1, <1>2, <1>3
<1>5. {rows[p[x]].prev_tv_index : x \in (1 .. n) \ kept} = {rows[l].prev_tv_index : l \in moved}
  <2> HIDE DEF moved
  <2>1. \A x \in (1 .. n) \ kept : p[x] \in moved
    BY <1>4
  <2>2. \A l \in moved : \E x \in (1 .. n) \ kept : p[x] = l
    BY <1>4
  <2> QED BY ONLY <2>1, <2>2
<1>6. u.c \in ChangeSets /\ del \in IndexSets
  <2>1. u.c \in ChangeSets
    BY DEF Aligning
  <2>2. u.c.deletions \in IndexSets
    BY <2>1 DEF ChangeSets
  <2> QED BY <2>1, <2>2, UnionIsFinite
<1>7. b = [u.c EXCEPT !.deletions = del]
  OBVIOUS
<1>8. del = gone \cup unmatched \cup {rows[l].prev_tv_index : l \in moved}
  <2> HIDE DEF moved
  <2> QED BY <1>2, <1>5
<1> HIDE DEF del
<1>9. /\ b \in ChangeSets /\ b.deletions = del /\ b.insertions = u.c.insertions
      /\ b.moves = u.c.moves /\ b.modifications = u.c.modifications
  BY <1>6, <1>7 DEF ChangeSets
<1>10. ASSUME NEW l \in DOMAIN rows \ moved, NEW m \in DOMAIN rows \ moved, l < m
       PROVE  rows[l].prev_tv_index < rows[m].prev_tv_index
  <2>1. PICK x \in kept, y \in kept : p[x] = l /\ p[y] = m
    OBVIOUS
  <2>2. x \in 1 .. n /\ y \in 1 .. n /\ l \in Nat /\ m \in Nat
    BY <1>2
  <2>3. ~ (y < x) /\ x # y
    BY <1>2, <1>10, <2>1, <2>2
  <2>4. x < y
    BY <2>2, <2>3
  <2> QED BY <1>1, <2>1, <2>2, <2>4
<1>11. moved \subseteq DOMAIN rows
  OBVIOUS
<1> HIDE DEF moved
<1>12. OthersKept(b, moved, rows, gone, unmatched, arrived)
  BY <1>2, <1>8, <1>9, <1>10, <1>11 DEF OthersKept
<1> QED BY <1>2, <1>9, <1>12 DEF MovedApart

(* The blocks that stay, and the end. *)
BlocksToEnd(ms, p, n, first) ==
  /\ ms \in Seq(Blocks) /\ Len(ms) # 0
  /\ ms[Len(ms)].i = n /\ ms[Len(ms)].j = n /\ ms[Len(ms)].size = 0
  /\ \A k \in 1 .. Len(ms) : BlockIn(ms[k], p, n) /\ first <= ms[k].i /\ first <= ms[k].j
  /\ \A k, l \in 1 .. Len(ms) : k < l => /\ ms[k].i + ms[k].size <= ms[l].i
                                          /\ ms[k].j + ms[k].size <= ms[l].j

LEMMA MatchesAndEnd ==
  ASSUME NEW n \in Nat, NEW a \in Seq(Nat), NEW b \in Seq(Nat), Len(a) = n, Len(b) = n,
         NEW p \in [1 .. n -> 1 .. n], \A k, l \in 1 .. n : a[k] = b[l] => p[k] = l,
         NEW first \in 0 .. n, NEW found_, Chain(found_, a, b, first, n, first, n),
         NEW ms, ms = Append(found_, Block(n, n, 0, 0))
  PROVE  BlocksToEnd(ms, p, n, first)
<1> DEFINE end == Block(n, n, 0, 0)
           z == Len(found_)
<1>1. /\ found_ \in Seq(Blocks)
      /\ \A k \in DOMAIN found_ : InBoth(found_[k], a, b, first, n, first, n)
      /\ \A k, l \in DOMAIN found_ : k < l => /\ found_[k].i + found_[k].size <= found_[l].i
                                              /\ found_[k].j + found_[k].size <= found_[l].j
  BY DEF Chain
<1>2. end \in Blocks /\ end.i = n /\ end.j = n /\ end.size = 0
  BY DEF Block, Blocks
<1> HIDE DEF end
<1>3. /\ ms \in Seq(Blocks) /\ Len(ms) = z + 1 /\ ms[z + 1] = end /\ z \in Nat
      /\ DOMAIN found_ = 1 .. z /\ \A k \in 1 .. z : ms[k] = found_[k]
  BY <1>1, <1>2 DEF end
<1> HIDE DEF z
<1>4. ASSUME NEW k \in 1 .. z
      PROVE  /\ BlockIn(ms[k], p, n) /\ first <= ms[k].i /\ first <= ms[k].j
             /\ ms[k].i + ms[k].size <= n /\ ms[k].j + ms[k].size <= n
  <2>0. PICK m : m = ms[k]
    OBVIOUS
  <2>1. InBoth(m, a, b, first, n, first, n)
    BY <1>1, <1>3, <2>0
  <2>2. PICK i, j, s : i = m.i /\ j = m.j /\ s = m.size
    OBVIOUS
  <2>3. /\ i \in Nat /\ j \in Nat /\ s \in Nat
        /\ first <= i /\ i + s <= n /\ first <= j /\ j + s <= n
        /\ \A x \in 0 .. s - 1 : a[i + x + 1] = b[j + x + 1]
    BY <2>1, <2>2 DEF InBoth
  <2>4. ASSUME NEW y \in 1 .. s PROVE p[i + y] = j + y
    <3>1. PICK x : x = y - 1
      OBVIOUS
    <3>2. x \in 0 .. s - 1 /\ i + x + 1 = i + y /\ j + x + 1 = j + y
      BY <2>3, <3>1
    <3>3. i + y \in 1 .. n /\ j + y \in 1 .. n
      BY <2>3
    <3>4. a[i + y] = b[j + y]
      BY <2>3, <3>2
    <3> QED BY <3>3, <3>4
  <2>5. BlockIn(m, p, n)
    BY ONLY <2>2, <2>3, <2>4 DEF BlockIn, Within
  <2> QED BY <2>0, <2>2, <2>3, <2>5
<1>5. BlockIn(end, p, n)
  <2>1. \A x \in 1 .. 0 : FALSE
    OBVIOUS
  <2> QED BY <1>2, <2>1 DEF BlockIn, Within
<1>6. ASSUME NEW k \in 1 .. z + 1
      PROVE  BlockIn(ms[k], p, n) /\ first <= ms[k].i /\ first <= ms[k].j
  <2>1. CASE k \in 1 .. z
    BY <1>4, <2>1
  <2>2. CASE k = z + 1
    BY <1>2, <1>3, <1>5, <2>2
  <2> QED BY <1>3, <2>1, <2>2
<1>7. ASSUME NEW k \in 1 .. z + 1, NEW l \in 1 .. z + 1, k < l
      PROVE  ms[k].i + ms[k].size <= ms[l].i /\ ms[k].j + ms[k].size <= ms[l].j
  <2>1. k \in 1 .. z
    BY <1>3, <1>7
  <2>2. CASE l \in 1 .. z
    BY <1>1, <1>3, <1>7, <2>1, <2>2
  <2>3. CASE l = z + 1
    BY <1>2, <1>3, <1>4, <2>1, <2>3
  <2> QED BY <1>3, <2>2, <2>3
<1> QED BY <1>2, <1>3, <1>6, <1>7 DEF BlocksToEnd

(* calculate_moves_sorted: some rows are deleted and inserted, and the     *)
(* others are in their old order.                                          *)
LEMMA SortedKeeps ==
  ASSUME NEW rows, NEW n \in Nat, DOMAIN rows = 1 .. n, Len(rows) = n, NEW N \in Nat,
         \A k \in 1 .. n : /\ rows[k].prev_tv_index \in 0 .. N - 1 /\ rows[k].tv_index \in Nat
                           /\ rows[k].row_index \in Nat,
         \A k, l \in 1 .. n : rows[k].prev_tv_index = rows[l].prev_tv_index => k = l,
         \A k, l \in 1 .. n : rows[k].row_index = rows[l].row_index => k = l,
         NEW gone, NEW unmatched \in IndexSets, NEW arrived,
         NEW c \in ChangeSets, c.deletions = gone, c.insertions = arrived,
         NEW b, b = calculate_moves_sorted(rows, unmatched, c)
  PROVE  MovedApart(b, rows, gone, unmatched, arrived, c)
<1> DEFINE before == ByOldIndex(rows)
           were == [k \in DOMAIN rows |-> before[k].row_index]
           are == [k \in DOMAIN rows |-> rows[k].row_index]
           differences == {k \in DOMAIN rows : were[k] # are[k]}
           least == CHOOSE k \in differences : \A l \in differences : k <= l
           first == least - 1
           blocks == find_longest_matches(were, are, c.modifications, first)
           ms == Append(blocks, Block(Len(were), Len(are), 0, 0))
           base == [i |-> first, j |-> first, c |-> c]
           u == AlignAll(before, rows, base, ms)
<1>1. b = [(IF differences = {} THEN c ELSE u.c) EXCEPT !.deletions = @ \cup unmatched]
  BY DEF calculate_moves_sorted
<1>o. PICK p : OldOrderOf(before, p, rows, n)
  BY ByOldIndexIs
<1> HIDE DEF before
<1>2. DOMAIN before = 1 .. n /\ InOldOrder(p, rows, n) /\ \A k \in 1 .. n : before[k] = rows[p[k]]
  BY ONLY <1>o DEF OldOrderOf
<1>3. /\ p \in [1 .. n -> 1 .. n]
      /\ \A l \in 1 .. n : \E k \in 1 .. n : p[k] = l
      /\ \A k, l \in 1 .. n : k < l => rows[p[k]].prev_tv_index < rows[p[l]].prev_tv_index
  BY <1>2 DEF InOldOrder
<1>4. /\ were \in Seq(Nat) /\ are \in Seq(Nat) /\ Len(were) = n /\ Len(are) = n
      /\ DOMAIN were = 1 .. n /\ DOMAIN are = 1 .. n
      /\ \A k \in 1 .. n : were[k] = rows[p[k]].row_index /\ are[k] = rows[k].row_index
  <2>0. \A k \in 1 .. n : p[k] \in 1 .. n
    BY ONLY <1>3
  <2>1. \A k \in 1 .. n : before[k].row_index \in Nat /\ rows[k].row_index \in Nat
    BY <1>2, <2>0
  <2>2. were \in [1 .. n -> Nat] /\ are \in [1 .. n -> Nat]
    BY <2>1
  <2>3. \A k \in 1 .. n : were[k] = rows[p[k]].row_index /\ are[k] = rows[k].row_index
    BY <1>2
  <2> HIDE DEF were, are
  <2>4. were \in Seq(Nat) /\ are \in Seq(Nat)
    BY <2>2
  <2> QED BY <2>2, <2>3, <2>4
<1> HIDE DEF were, are
<1>5. \A k, l \in 1 .. n : were[k] = are[l] => p[k] = l
  <2>0. \A k \in 1 .. n : p[k] \in 1 .. n
    BY ONLY <1>3
  <2>1. ASSUME NEW k \in 1 .. n, NEW l \in 1 .. n, were[k] = are[l] PROVE p[k] = l
    <3>1. rows[p[k]].row_index = rows[l].row_index /\ p[k] \in 1 .. n
      BY <1>4, <2>0, <2>1
    <3> QED BY <3>1
  <2> QED BY ONLY <2>1
<1>6. \A k \in 1 .. n : k \notin differences => p[k] = k
  BY <1>5
<1>7. \A k \in 1 .. n : rows[k].prev_tv_index \in Nat
  OBVIOUS
<1>f. /\ n \in Nat /\ DOMAIN rows = 1 .. n /\ unmatched \in IndexSets
      /\ c.deletions = gone /\ c.insertions = arrived
  OBVIOUS
<1>8. CASE differences = {}
  <2> DEFINE v == [i |-> n, j |-> n, c |-> c]
  <2>1. v \in Aligning /\ v.i = n /\ v.j = n /\ v.c = c
    BY DEF Aligning
  <2> HIDE DEF v
  <2>2. \A x \in 1 .. n : p[x] = x
    BY <1>6, <1>8
  <2> HIDE DEF differences
  <2>3. (1 .. n) \ (1 .. n) = {} /\ {p[x] : x \in 1 .. n} = 1 .. n
    BY <2>2
  <2>4. Aligned(v, 1 .. n, rows, p, n, c)
    <3>1. n \in 0 .. n
      OBVIOUS
    <3>2. v.c.deletions = c.deletions \cup {rows[p[x]].prev_tv_index : x \in (1 .. n) \ (1 .. n)}
      BY <2>1, <2>3
    <3>3. v.c.insertions = c.insertions \cup {rows[l].tv_index : l \in (1 .. n) \ {p[x] : x \in 1 .. n}}
      BY <2>1, <2>3
    <3> QED BY <2>1, <2>2, <3>1, <3>2, <3>3 DEF Aligned
  <2>5. b = [v.c EXCEPT !.deletions = @ \cup unmatched]
    BY <1>1, <1>8, <2>1
  <2> QED BY ONLY <1>2, <1>7, <1>f, <2>1, <2>4, <2>5, AlignedAtEnd
<1>9. CASE differences # {}
  <2>1. least \in 1 .. n /\ \A l \in 1 .. n : l < least => p[l] = l
    <3>1. differences \in SUBSET Nat /\ differences \subseteq 1 .. n
      OBVIOUS
    <3> HIDE DEF differences
    <3>2. \E k \in differences : \A l \in differences : k <= l
      BY <1>9, <3>1, LeastNumber
    <3>3. least \in differences /\ \A l \in differences : least <= l
      BY <3>2
    <3> HIDE DEF least
    <3>4. ASSUME NEW l \in 1 .. n, l < least PROVE p[l] = l
      <4>1. l \notin differences
        <5> SUFFICES ASSUME l \in differences PROVE FALSE
          OBVIOUS
        <5>1. least <= l /\ l \in Nat /\ least \in Nat
          BY <3>1, <3>3
        <5> QED BY <3>4, <5>1
      <4> QED BY <1>6, <4>1
    <3> QED BY <3>1, <3>3, <3>4
  <2> HIDE DEF differences, least
  <2>2. first \in 0 .. n /\ \A x \in 1 .. first : x \in 1 .. n /\ p[x] = x
    BY <2>1
  <2> HIDE DEF first
  <2>3. RowsIn(were, are)
    <3>1. ASSUME NEW k \in 1 .. n PROVE are[p[k]] = were[k] /\ p[k] \in 1 .. n
      BY <1>3, <1>4
    <3> QED BY <1>4, <3>1 DEF RowsIn
  <2>4. c.modifications \in IndexSets
    BY DEF ChangeSets
  <2>5. Chain(blocks, were, are, first, Len(were), first, Len(are))
    <3> HIDE DEF blocks
    <3>1. first \in 0 .. Len(were) /\ first \in 0 .. Len(are)
      BY <1>4, <2>2
    <3>2. blocks = find_longest_matches(were, are, c.modifications, first)
      BY DEF blocks
    <3> QED BY <2>3, <2>4, <3>1, <3>2, MatchesAreChain
  <2>6. Chain(blocks, were, are, first, n, first, n) /\ ms = Append(blocks, Block(n, n, 0, 0))
    BY <1>4, <2>5
  <2> HIDE DEF blocks, ms
  <2>e. BlocksToEnd(ms, p, n, first)
    <3>1. p \in [1 .. n -> 1 .. n]
      BY <1>3
    <3> QED BY ONLY n \in Nat, <1>4, <1>5, <2>2, <2>6, <3>1, MatchesAndEnd
  <2>7. /\ ms \in Seq(Blocks) /\ Len(ms) # 0
        /\ ms[Len(ms)].i = n /\ ms[Len(ms)].j = n /\ ms[Len(ms)].size = 0
        /\ \A k \in 1 .. Len(ms) : BlockIn(ms[k], p, n) /\ first <= ms[k].i /\ first <= ms[k].j
        /\ \A k, l \in 1 .. Len(ms) : k < l => /\ ms[k].i + ms[k].size <= ms[l].i
                                                /\ ms[k].j + ms[k].size <= ms[l].j
    BY ONLY <2>e DEF BlocksToEnd
  <2>8. base \in Aligning /\ base.i = first /\ base.j = first /\ base.c = c
    BY <2>2 DEF Aligning
  <2> HIDE DEF base
  <2>9. Aligned(base, 1 .. first, rows, p, n, c)
    <3>1. (1 .. first) \ (1 .. first) = {} /\ {p[x] : x \in 1 .. first} = 1 .. first
      BY <2>2
    <3>2. base.c.deletions = c.deletions \cup {rows[p[x]].prev_tv_index : x \in (1 .. first) \ (1 .. first)}
      BY <2>8, <3>1
    <3>3. base.c.insertions = c.insertions \cup
            {rows[l].tv_index : l \in (1 .. first) \ {p[x] : x \in 1 .. first}}
      BY <2>8, <3>1
    <3> QED BY <2>2, <2>8, <3>2, <3>3 DEF Aligned
  <2>10. AlignedUpTo(u, ms[Len(ms)], rows, p, n, c)
    <3>0. \A k \in 1 .. n : p[k] \in 1 .. n
      BY ONLY <1>3
    <3>1. \A k \in 1 .. n : rows[k].tv_index \in Nat /\ before[k].prev_tv_index \in Nat
      BY <1>2, <3>0
    <3>2. \A k \in 1 .. Len(ms) : BlockIn(ms[k], p, n) /\ base.i <= ms[k].i /\ base.j <= ms[k].j
      BY <2>7, <2>8
    <3> HIDE DEF u
    <3>3. u = AlignAll(before, rows, base, ms)
      BY DEF u
    <3> QED BY <1>2, <1>3, <2>7, <2>8, <2>9, <3>1, <3>2, <3>3, AlignAllKeeps
  <2>11. b = [u.c EXCEPT !.deletions = @ \cup unmatched]
    BY <1>1, <1>9
  <2> HIDE DEF u
  <2>12. u \in Aligning /\ u.i = n /\ u.j = n
    BY <2>7, <2>10 DEF AlignedUpTo
  <2>13. PICK kept : Aligned(u, kept, rows, p, n, c)
    BY <2>10 DEF AlignedUpTo
  <2> QED BY ONLY <1>2, <1>7, <1>f, <2>11, <2>12, <2>13, AlignedAtEnd
<1> QED BY <1>8, <1>9

(* calculate_moves_sorted: what it makes of the deletions and the          *)
(* insertions is exact, in whatever order the rows were and are; it tells  *)
(* of no moves.                                                            *)
THEOREM SortedIsExact ==
  ASSUME NEW E, NEW old \in Seq(E), NEW new \in Seq(E), Distinct(old),
         NEW rows, NEW gone, NEW unmatched, NEW arrived, NEW prev, NEW next,
         RowsOf(prev, next, old, new),
         Staying(rows, gone, unmatched, arrived, prev, next, old, new),
         NEW c \in ChangeSets, c.deletions = gone, c.insertions = arrived, c.moves = << >>
  PROVE  LET b == calculate_moves_sorted(rows, unmatched, c)
         IN  /\ b \in ChangeSets /\ Leads(b, old, new) /\ MovesAreMoves(b, old, new)
             /\ b.modifications = c.modifications
<1> DEFINE b == calculate_moves_sorted(rows, unmatched, c)
           n == Len(rows)
<1>1. /\ DOMAIN rows = 1 .. n /\ n \in Nat /\ unmatched \in IndexSets
      /\ \A k \in 1 .. n : /\ rows[k].prev_tv_index \in Indices(old)
                           /\ rows[k].tv_index \in Indices(new) /\ rows[k].row_index \in Nat
      /\ \A k, l \in 1 .. n : rows[k].prev_tv_index = rows[l].prev_tv_index => k = l
  BY DEF Staying
<1>2. \A k \in 1 .. n : /\ rows[k].prev_tv_index \in 0 .. Len(old) - 1 /\ rows[k].tv_index \in Nat
                        /\ rows[k].row_index \in Nat
  BY <1>1 DEF Indices
<1>3. \A k, l \in 1 .. n : rows[k].row_index = rows[l].row_index => k = l
  <2> SUFFICES ASSUME NEW k \in 1 .. n, NEW l \in 1 .. n, rows[k].row_index = rows[l].row_index
               PROVE  k = l
    OBVIOUS
  <2>1. k \in DOMAIN rows /\ l \in DOMAIN rows
    BY <1>1
  <2> QED BY <2>1, RowsByIndex
<1>4. Len(old) \in Nat
  OBVIOUS
<1>5. MovedApart(b, rows, gone, unmatched, arrived, c)
  <2> DEFINE N == Len(old)
  <2>1. N \in Nat /\ n = Len(rows)
    BY <1>4
  <2>2. \A k \in 1 .. n : /\ rows[k].prev_tv_index \in 0 .. N - 1 /\ rows[k].tv_index \in Nat
                          /\ rows[k].row_index \in Nat
    BY <1>2
  <2>3. b = calculate_moves_sorted(rows, unmatched, c)
    OBVIOUS
  <2>4. c \in ChangeSets /\ c.deletions = gone /\ c.insertions = arrived
    OBVIOUS
  <2> HIDE DEF N, n, b
  <2> QED BY ONLY <1>1, <1>3, <2>1, <2>2, <2>3, <2>4, SortedKeeps
<1> HIDE DEF b, n
<1>6. PICK moved : OthersKept(b, moved, rows, gone, unmatched, arrived)
  BY ONLY <1>5 DEF MovedApart
<1>7. b \in ChangeSets /\ Leads(b, old, new)
  BY <1>6, KeptRowsLead
<1>8. MovesAreMoves(b, old, new)
  <2>1. b.moves = << >>
    BY <1>5 DEF MovedApart
  <2>2. DOMAIN b.moves = {}
    BY <2>1
  <2> QED BY <2>2 DEF MovesAreMoves
<1>9. b.modifications = c.modifications
  BY <1>5 DEF MovedApart
<1> QED BY <1>7, <1>8, <1>9 DEF b

(* What a comparison of rows says: what comes, goes and moves, and of the  *)
(* entries that stay, which have changed.                                  *)
Compares(c, old, new, next, did) ==
  /\ c \in ChangeSets /\ Leads(c, old, new) /\ MovesAreMoves(c, old, new)
  /\ \A j \in Indices(old), i \in Indices(new) :
       old[j + 1] = new[i + 1] => (i \in c.modifications <=> next[i + 1] \in did)

(* calculate: what its deletions, insertions and moves say is exact, of    *)
(* rows in any order; of rows in the order of the table, if only           *)
(* candidates come before others. Of the rows that stay, those modified    *)
(* are those that have changed.                                            *)
THEOREM CalculateIsExact ==
  ASSUME NEW E, NEW old \in Seq(E), NEW new \in Seq(E), Distinct(old), Distinct(new),
         NEW prev, NEW next, RowsOf(prev, next, old, new),
         NEW in_table_order \in BOOLEAN, NEW candidates,
         in_table_order => OthersStay(StayingRows(prev, next), candidates), NEW did
  PROVE  Compares(calculate(prev, next, did, in_table_order, candidates), old, new, next, did)
<1> DEFINE rows == StayingRows(prev, next)
           gone == Deleted(prev)
           unmatched == Unmatched(prev, next)
           arrived == Arrived(prev, next)
           set == {row.tv_index : row \in {r \in ToSet(rows) : r.row_index \in did}}
           c == [NoChanges EXCEPT !.deletions = gone, !.insertions = arrived, !.modifications = set]
           b == calculate(prev, next, did, in_table_order, candidates)
<1>1. Staying(rows, gone, unmatched, arrived, prev, next, old, new)
  BY StayingRowsStay
<1>2. b = IF in_table_order THEN calculate_moves_unsorted(rows, unmatched, candidates, c)
                            ELSE calculate_moves_sorted(rows, unmatched, c)
  BY DEF calculate
<1>3. in_table_order => OthersStay(rows, candidates)
  OBVIOUS
<1>a. arrived = {i \in 0 .. Len(next) - 1 : next[i + 1] \notin ToSet(prev)}
  BY DEF Arrived
<1> HIDE DEF rows, gone, unmatched, arrived
<1>9. ASSUME NEW j \in Indices(old), NEW i \in Indices(new), old[j + 1] = new[i + 1]
      PROVE  i \in set <=> next[i + 1] \in did
  <2>1. prev[j + 1] = next[i + 1] /\ j \in Indices(prev) /\ prev \in Seq(Nat \cup {npos})
    BY <1>9 DEF RowsOf
  <2>2. next[i + 1] \in ToSet(prev)
    <3>1. j + 1 \in DOMAIN prev
      BY <2>1 DEF Indices
    <3> QED BY <2>1, <3>1 DEF ToSet
  <2>3. i \notin arrived
    BY <1>a, <2>2
  <2>4. /\ \A k \in DOMAIN rows : rows[k].row_index = next[rows[k].tv_index + 1]
        /\ \E k \in DOMAIN rows : rows[k].tv_index = i
    BY <1>1, <2>3 DEF Staying
  <2>5. ToSet(rows) = {rows[k] : k \in DOMAIN rows}
    BY DEF ToSet
  <2>6. \A x : x \in set <=> \E k \in DOMAIN rows : rows[k].tv_index = x /\ rows[k].row_index \in did
    BY <2>5
  <2> HIDE DEF set
  <2> QED BY <2>4, <2>6
<1>4. set \in IndexSets
  <2>1. set \subseteq Indices(new)
    <3>1. \A r \in ToSet(rows) : r.tv_index \in Indices(new)
      BY <1>1 DEF Staying, ToSet
    <3> QED BY <3>1
  <2>2. IsFiniteSet(Indices(new)) /\ Indices(new) \in SUBSET Nat
    BY FS_Interval DEF Indices
  <2> QED BY <2>1, <2>2, FS_Subset DEF IndexSets
<1> HIDE DEF set
<1>5. gone \in IndexSets /\ arrived \in IndexSets
  BY <1>1 DEF Staying
<1>6. /\ c \in ChangeSets /\ c.deletions = gone /\ c.insertions = arrived /\ c.moves = << >>
      /\ c.modifications = set
  <2>1. NoChanges \in ChangeSets
    <3>1. << >> \in Seq({}) /\ {} \cap ToSet(<< >>) = {}
      OBVIOUS
    <3> QED BY <3>1, NothingRecords DEF Records
  <2>2. NoChanges.moves = << >>
    BY DEF NoChanges
  <2> QED BY <1>4, <1>5, <2>1, <2>2 DEF ChangeSets
<1> HIDE DEF c, b
<1>7. CASE in_table_order
  <2>1. /\ b \in ChangeSets /\ Leads(b, old, new) /\ MovesAreMoves(b, old, new)
        /\ b.modifications = c.modifications
    BY <1>1, <1>2, <1>3, <1>6, <1>7, UnsortedIsExact DEF b
  <2> QED BY <1>6, <1>9, <2>1 DEF b, Compares
<1>8. CASE ~in_table_order
  <2>1. /\ b \in ChangeSets /\ Leads(b, old, new) /\ MovesAreMoves(b, old, new)
        /\ b.modifications = c.modifications
    BY <1>1, <1>2, <1>6, <1>8, SortedIsExact DEF b
  <2> QED BY <1>6, <1>9, <2>1 DEF b, Compares
<1> QED BY <1>7, <1>8 DEF b

-----------------------------------------------------------------------------
(* Rows that are known to have moved are nearer to the beginning now:      *)
(* move_over takes the last one.                                           *)
Descending(c) == \A i \in DOMAIN c.mapping : i < c.mapping[i]

LEMMA MoveOverDescends ==
  ASSUME NEW c, NEW E, NEW old \in Seq(E), NEW mid \in Seq(E), NEW M,
         RecordsTable(c, old, mid, M), Descending(c), NEW row \in Indices(mid)
  PROVE  Descending(move_over(c, row, Len(mid) - 1))
<1> DEFINE last == Len(mid) - 1
<1>0. row \in Nat /\ last \in Nat /\ row <= last
  BY DEF Indices
<1>1. CASE row = last
  <2>1. LastGone(c, removeLast(c, row), row)
    BY <1>1, RemoveLastSets
  <2>2. move_over(c, row, last) = removeLast(c, row)
    BY <1>1 DEF move_over
  <2> DEFINE b == removeLast(c, row)
  <2> HIDE DEF b
  <2>3. Descending(b)
    BY <2>1 DEF LastGone, Descending, b
  <2> QED BY <2>2, <2>3 DEF b
<1>2. CASE row # last
  <2> DEFINE b == move_over(c, row, last)
  <2> HIDE DEF last
  <2>1. LastMoved(c, b, row, last)
    BY <1>0, <1>2, MoveOverSets DEF last
  <2>2. \A i \in DOMAIN c.mapping : i \in Nat /\ c.mapping[i] \in Nat /\ i < c.mapping[i]
    <3>1. c.mapping \in Mappings
      BY TableParts
    <3>2. PICK S \in IndexSets : c.mapping \in [S -> Nat]
      BY <3>1 DEF Mappings
    <3>3. S \subseteq Nat
      BY DEF IndexSets
    <3> QED BY <3>2, <3>3 DEF Descending
  <2> HIDE DEF b
  <2>3. ASSUME NEW i \in DOMAIN b.mapping PROVE i < b.mapping[i]
    <3>1. b.mapping[i] = IF i # row THEN c.mapping[i]
                         ELSE IF last \notin c.insertions THEN last ELSE c.mapping[last]
      BY <2>1 DEF LastMoved
    <3>2. CASE i # row
      <4>1. i \in DOMAIN c.mapping
        BY <2>1, <3>2 DEF LastMoved
      <4> QED BY <2>2, <3>1, <3>2, <4>1
    <3>3. CASE i = row /\ last \notin c.insertions
      BY <1>0, <1>2, <3>1, <3>3
    <3>4. CASE i = row /\ last \in c.insertions
      <4>1. last \in DOMAIN c.mapping
        BY <2>1, <3>4 DEF LastMoved
      <4>2. last < c.mapping[last] /\ c.mapping[last] \in Nat
        BY <2>2, <4>1
      <4> QED BY <1>0, <1>2, <3>1, <3>4, <4>2
    <3> QED BY <3>2, <3>3, <3>4
  <2> QED BY <2>3 DEF Descending, b, last
<1> QED BY <1>0, <1>1, <1>2

LEMMA OthersDescend ==
  ASSUME NEW c, NEW i
  PROVE  /\ Descending(c) /\ c \in ChangeSets => Descending(modify(c, i)) /\ Descending(insert(c, i))
         /\ Descending(clear_table_of(i)) /\ Descending(NoChanges)
<1>1. c \in ChangeSets => modify(c, i).mapping = c.mapping /\ insert(c, i).mapping = c.mapping
  BY DEF ChangeSets, modify, insert
<1>2. clear_table_of(i).mapping = << >> /\ NoChanges.mapping = << >> /\ DOMAIN << >> = {}
  BY DEF clear_table_of, NoChanges
<1> QED BY <1>1, <1>2 DEF Descending

(* So a row is never further from the beginning than it was, and one that  *)
(* is not known as inserted is where it was.                               *)
LEMMA RowsDescend ==
  ASSUME NEW c, NEW E, NEW old \in Seq(E), NEW new \in Seq(E), NEW M,
         RecordsTable(c, old, new, M), Distinct(old), Descending(c),
         NEW j \in Indices(old), NEW i \in Indices(new), old[j + 1] = new[i + 1]
  PROVE  i <= j /\ (i \notin parse_complete(c).insertions => i = j)
<1>0. i \in Nat /\ j \in Nat
  BY DEF Indices
<1>1. c \in ChangeSets
  BY TableParts
<1>2. \A k \in DOMAIN c.mapping : c.mapping[k] # k
  <2>1. c.mapping \in Mappings
    BY TableParts
  <2>2. PICK S \in IndexSets : c.mapping \in [S -> Nat]
    BY <2>1 DEF Mappings
  <2>3. S \subseteq Nat /\ DOMAIN c.mapping = S
    BY <2>2 DEF IndexSets
  <2> SUFFICES ASSUME NEW k \in DOMAIN c.mapping, c.mapping[k] = k PROVE FALSE
    OBVIOUS
  <2>4. k \in Nat /\ k < k
    BY <2>3 DEF Descending
  <2> QED BY <2>4
<1>3. parse_complete(c).insertions = c.insertions
  <2> DEFINE same == {k \in DOMAIN c.mapping : c.mapping[k] = k}
  <2>1. same = {}
    BY <1>2
  <2>2. parse_complete(c).insertions = c.insertions \ same
    BY <1>1 DEF parse_complete, ChangeSets
  <2> HIDE DEF same
  <2> QED BY <2>1, <2>2
<1>4. CASE i \notin c.insertions
  <2>1. i \in Indices(old) /\ old[i + 1] = new[i + 1]
    BY <1>4 DEF RecordsTable
  <2>2. i = j
    BY <2>1, DistinctIndices
  <2> QED BY <1>0, <2>2
<1>5. CASE i \in c.insertions
  <2>1. i \in DOMAIN c.mapping /\ c.mapping[i] = j
    BY <1>5 DEF RecordsTable
  <2>2. i < j
    BY <2>1 DEF Descending
  <2> QED BY <1>0, <1>3, <1>5, <2>2
<1> QED BY <1>4, <1>5

(* Where an entry is. *)
LEMMA IndexInIs ==
  ASSUME NEW E, NEW s \in Seq(E), NEW r \in ToSet(s)
  PROVE  IndexIn(s, r) \in Indices(s) /\ s[IndexIn(s, r) + 1] = r
<1>1. \E k \in DOMAIN s : s[k] = r
  BY DEF ToSet
<1>2. PICK k \in DOMAIN s : s[k] = r /\ IndexIn(s, r) = k - 1
  BY <1>1 DEF IndexIn
<1>3. k \in 1 .. Len(s) /\ (k - 1) + 1 = k
  OBVIOUS
<1> QED BY <1>2, <1>3 DEF Indices

(* Where a row of the last run is now (the lambda of calculate_changes).   *)
LEMMA NewIndexIs ==
  ASSUME NEW b \in ChangeSets, NEW E, NEW old \in Seq(E), NEW new \in Seq(E),
         Distinct(old), Distinct(new),
         Leads(b, old, new), MovesAreMoves(b, old, new), MovesAreTold(b, old, new),
         NEW j \in Indices(old)
  PROVE  /\ \A i \in Indices(new) : old[j + 1] = new[i + 1] => NewIndex(b, j) = i
         /\ (\A i \in Indices(new) : old[j + 1] # new[i + 1]) => NewIndex(b, j) = npos
<1> DEFINE D == b.deletions
           I == b.insertions
           moved == {k \in DOMAIN b.moves : b.moves[k].from = j}
<1>0. D \in IndexSets /\ I \in IndexSets
  BY DEF ChangeSets
<1>1. FollowsIndices(D, I, old, new)
  BY <1>0, LeadsIsFollowing
<1>2. \A i \in Indices(new), k \in Indices(new) : new[i + 1] = new[k + 1] => i = k
  BY DistinctIndices
<1>3. CASE j \notin D
  <2>1. NewIndex(b, j) = Before(I, D, j)
    BY <1>3 DEF NewIndex, Before
  <2> HIDE DEF D, I
  <2>2. Before(I, D, j) \in Indices(new) /\ old[j + 1] = new[Before(I, D, j) + 1]
    BY <1>0, <1>1, <1>3, KeptEntries
  <2> QED BY <1>2, <2>1, <2>2
<1>4. CASE j \in D
  <2>1. NewIndex(b, j) = IF moved = {} THEN npos ELSE b.moves[CHOOSE k \in moved : TRUE].to
    BY <1>4 DEF NewIndex
  <2>2. ASSUME NEW k \in moved
        PROVE  b.moves[k].to \in Indices(new) /\ old[j + 1] = new[b.moves[k].to + 1]
    BY MovesByIndex
  <2>3. ASSUME NEW i \in Indices(new), old[j + 1] = new[i + 1]
        PROVE  moved # {}
    <3>1. i \in I
      <4> HIDE DEF D, I
      <4> QED BY <1>0, <1>1, <1>4, <2>3, SameEntry
    <3>2. PICK k \in DOMAIN b.moves : b.moves[k] = [from |-> j, to |-> i]
      BY <1>4, <2>3, <3>1 DEF MovesAreTold
    <3> QED BY <3>2
  <2> HIDE DEF moved
  <2>4. moved # {} => (CHOOSE k \in moved : TRUE) \in moved
    OBVIOUS
  <2> QED BY <1>2, <2>1, <2>2, <2>3, <2>4
<1> QED BY <1>3, <1>4

(* A sequence by its length. *)
LEMMA OfLength ==
  ASSUME NEW n \in Nat, NEW S, NEW s \in [1 .. n -> S]
  PROVE  s \in Seq(S) /\ Len(s) = n
<1>1. s \in Seq(S) /\ DOMAIN s = 1 .. n
  OBVIOUS
<1>2. Len(s) \in Nat /\ DOMAIN s = 1 .. Len(s)
  BY <1>1
<1> QED BY <1>1, <1>2

(* Some entries of another sequence, in any order; and in its order. *)
SomeOf(t, s) == s \in Seq(Nat) /\ Distinct(s) /\ ToSet(s) \subseteq ToSet(t)

InOrderOf(t, s) ==
  /\ SomeOf(t, s)
  /\ \A k, l \in Indices(s), i, j \in Indices(t) :
       t[i + 1] = s[k + 1] /\ t[j + 1] = s[l + 1] /\ k < l => i < j

(* The rows that match. *)
LEMMA MatchingInOrder ==
  ASSUME NEW t \in Seq(Nat), Distinct(t), NEW m
  PROVE  InOrderOf(t, Matching(t, m))
<1> DEFINE S == {i \in Indices(t) : t[i + 1] \notin m}
           w == Matching(t, m)
           n == unshift(S, Len(t))
           Of(k) == shift(S, k - 1)
<1>1. S \in IndexSets
  <2>1. IsFiniteSet(Indices(t)) /\ Indices(t) \in SUBSET Nat
    BY FS_Interval DEF Indices
  <2> QED BY <2>1, FS_Subset DEF IndexSets
<1>2. w = Without(t, S)
  BY DEF Matching
<1> HIDE DEF S, w
<1>3. /\ n \in Nat /\ w \in Seq(Nat) /\ Len(w) = n /\ DOMAIN w = 1 .. n
      /\ \A k \in 1 .. n : Of(k) \in Indices(t) \ S /\ w[k] = t[Of(k) + 1]
      /\ \A k, l \in 1 .. n : k < l => Of(k) < Of(l)
  BY <1>1, <1>2, WithoutInOrder
<1> HIDE DEF n, Of
<1>4. \A i, j \in Indices(t) : t[i + 1] = t[j + 1] => i = j
  BY DistinctIndices
<1>5. Distinct(w)
  <2> SUFFICES ASSUME NEW k \in 1 .. n, NEW l \in 1 .. n, w[k] = w[l], k # l PROVE FALSE
    BY <1>3 DEF Distinct
  <2>0. Of(k) \in Indices(t) /\ Of(l) \in Indices(t) /\ t[Of(k) + 1] = t[Of(l) + 1]
    BY <1>3
  <2>1. Of(k) = Of(l) /\ Of(k) \in Nat
    <3>1. Of(k) = Of(l)
      BY ONLY <1>4, <2>0
    <3> QED BY ONLY <2>0, <3>1 DEF Indices
  <2>2. k < l \/ l < k
    OBVIOUS
  <2> QED BY <1>3, <2>1, <2>2
<1>6. ToSet(w) \subseteq ToSet(t)
  <2> SUFFICES ASSUME NEW k \in 1 .. n PROVE w[k] \in ToSet(t)
    BY <1>3 DEF ToSet
  <2>1. Of(k) + 1 \in DOMAIN t
    BY <1>3 DEF Indices
  <2> QED BY <1>3, <2>1 DEF ToSet
<1>7. ASSUME NEW k \in Indices(w), NEW l \in Indices(w), NEW i \in Indices(t), NEW j \in Indices(t),
             t[i + 1] = w[k + 1], t[j + 1] = w[l + 1], k < l
      PROVE  i < j
  <2>1. k + 1 \in 1 .. n /\ l + 1 \in 1 .. n /\ k + 1 < l + 1
    BY <1>3, <1>7 DEF Indices
  <2>2. i = Of(k + 1) /\ j = Of(l + 1)
    BY <1>3, <1>4, <1>7, <2>1
  <2> QED BY <1>3, <2>1, <2>2
<1>8. InOrderOf(t, w)
  BY <1>3, <1>5, <1>6, <1>7 DEF InOrderOf, SomeOf
<1> QED BY <1>8 DEF w

LEMMA NothingMatches ==
  ASSUME NEW t \in Seq(Nat)
  PROVE  Matching(t, {}) = << >>
<1> DEFINE S == {i \in Indices(t) : t[i + 1] \notin {}}
           n == unshift(S, Len(t))
<1>1. S = Indices(t) /\ S \in IndexSets
  <2>1. IsFiniteSet(Indices(t)) /\ Indices(t) \in SUBSET Nat
    BY FS_Interval DEF Indices
  <2> QED BY <2>1 DEF IndexSets
<1>2. Matching(t, {}) = Without(t, S)
  BY DEF Matching
<1> HIDE DEF S
<1>3. /\ n \in Nat /\ Without(t, S) \in Seq(Nat) /\ Len(Without(t, S)) = n
      /\ \A k \in 1 .. n : shift(S, k - 1) \in Indices(t) \ S
  BY <1>1, WithoutInOrder
<1> HIDE DEF n
<1>4. n = 0
  <2> SUFFICES ASSUME n # 0 PROVE FALSE
    OBVIOUS
  <2>1. 1 \in 1 .. n
    BY <1>3
  <2> QED BY <1>1, <1>3, <2>1
<1>5. Len(Without(t, S)) = 0 /\ Without(t, S) \in Seq(Nat)
  BY <1>3, <1>4
<1>6. Without(t, S) = << >>
  BY ONLY <1>5
<1> QED BY <1>2, <1>6

(* The rows that match, sorted in some way. *)
LEMMA SomeSorted ==
  ASSUME NEW t \in Seq(Nat), NEW m, NEW s \in SetToSeqs(m \cap ToSet(t))
  PROVE  SomeOf(t, s)
<1> DEFINE S == m \cap ToSet(t)
           n == Cardinality(S)
<1>1. ToSet(t) \subseteq Nat
  BY ElementOfSeq DEF ToSet
<1>2. IsFiniteSet(S)
  <2>1. ToSet(t) \in IndexSets
    <3> DEFINE f == [k \in 1 .. Len(t) |-> t[k]]
    <3>1. IsFiniteSet(1 .. Len(t))
      <4>1. Len(t) \in Nat
        OBVIOUS
      <4> QED BY <4>1, FS_Interval
    <3>2. f \in [1 .. Len(t) -> Nat]
      OBVIOUS
    <3>3. {f[k] : k \in 1 .. Len(t)} \in IndexSets
      BY ONLY <3>1, <3>2, ImageIsFinite
    <3>4. ToSet(t) = {f[k] : k \in 1 .. Len(t)}
      BY DEF ToSet
    <3> QED BY <3>3, <3>4
  <2> QED BY <2>1, FS_Subset DEF IndexSets
<1>3. n \in Nat
  BY <1>2, FS_CardinalityType
<1>4. s \in [1 .. n -> S] /\ \A i, j \in 1 .. n : i # j => s[i] # s[j]
  BY DEF SetToSeqs
<1> HIDE DEF n
<1>5. S \subseteq Nat /\ S \subseteq ToSet(t)
  BY <1>1
<1> HIDE DEF S
<1>6. s \in [1 .. n -> Nat] /\ DOMAIN s = 1 .. n
  BY <1>4, <1>5
<1>7. s \in Seq(Nat)
  BY <1>3, <1>6, OfLength
<1>8. Distinct(s)
  BY <1>4, <1>6 DEF Distinct
<1>9. ToSet(s) \subseteq ToSet(t)
  BY <1>4, <1>5, <1>6 DEF ToSet
<1> QED BY <1>7, <1>8, <1>9 DEF SomeOf

-----------------------------------------------------------------------------
(* The query: what its notifier found last are rows that the worker saw    *)
(* last, in their order if it is not sorted, and what is waiting for its   *)
(* callback makes it of what it was shown.                                 *)
QueryInv ==
  /\ Descending(info)
  /\ shown[Query] \in Seq(Nat) /\ Distinct(shown[Query])
  /\ SomeOf(start, found[Query])
  /\ observed.query = "in table order" => InOrderOf(start, found[Query])
  /\ observed.query = "none" => found[Query] = << >>
  /\ accumulated[Query] \in ChangeSets
  /\ Leads(accumulated[Query], shown[Query], found[Query])
  /\ MovesAreMoves(accumulated[Query], shown[Query], found[Query])

(* Nothing is recorded, so nothing has changed. *)
LEMMA SameTable ==
  ASSUME NEW E, NEW old \in Seq(E), NEW new \in Seq(E), NEW M,
         RecordsTable(NoChanges, old, new, M)
  PROVE  old = new
<1>1. /\ NoChanges.insertions = {} /\ NoChanges.deletions = {}
  BY DEF NoChanges
<1>2. /\ Indices(old) \subseteq Indices(new) /\ Indices(new) \subseteq Indices(old)
      /\ \A i \in Indices(new) : old[i + 1] = new[i + 1]
  BY <1>1 DEF RecordsTable
<1>3. Len(old) = Len(new)
  <2>1. Len(old) \in Nat /\ Len(new) \in Nat
    OBVIOUS
  <2>2. ~ (Len(old) < Len(new))
    <3> SUFFICES ASSUME Len(old) < Len(new) PROVE FALSE
      OBVIOUS
    <3>1. Len(old) \in Indices(new) /\ Len(old) \notin Indices(old)
      BY <2>1 DEF Indices
    <3> QED BY <1>2, <3>1
  <2>3. ~ (Len(new) < Len(old))
    <3> SUFFICES ASSUME Len(new) < Len(old) PROVE FALSE
      OBVIOUS
    <3>1. Len(new) \in Indices(old) /\ Len(new) \notin Indices(new)
      BY <2>1 DEF Indices
    <3> QED BY <1>2, <3>1
  <2> QED BY <2>1, <2>2, <2>3
<1>4. \A k \in 1 .. Len(new) : old[k] = new[k]
  <2> TAKE k \in 1 .. Len(new)
  <2>1. k - 1 \in Indices(new) /\ (k - 1) + 1 = k
    BY DEF Indices
  <2> QED BY <1>2, <2>1
<1> QED BY <1>3, <1>4

(* The rows of the query before and now, as calculate_changes gives them   *)
(* to calculate.                                                           *)
LEMMA RowsOfQuery ==
  ASSUME NEW b \in ChangeSets, NEW old \in Seq(Nat), NEW new \in Seq(Nat),
         Distinct(old), Distinct(new),
         Leads(b, old, new), MovesAreMoves(b, old, new), MovesAreTold(b, old, new),
         NEW was, SomeOf(old, was), NEW next, SomeOf(new, next),
         NEW prev, prev = [k \in DOMAIN prev |-> prev[k]], DOMAIN prev = DOMAIN was,
         \A k \in DOMAIN was : prev[k] = NewIndex(b, IndexIn(old, was[k])),
         NEW rows, rows = [k \in DOMAIN rows |-> rows[k]], DOMAIN rows = DOMAIN next,
         \A k \in DOMAIN next : rows[k] = IndexIn(new, next[k])
  PROVE  /\ RowsOf(prev, rows, was, next)
         /\ \A k \in DOMAIN next : rows[k] \in Indices(new) /\ new[rows[k] + 1] = next[k]
<1>1. /\ was \in Seq(Nat) /\ next \in Seq(Nat)
      /\ ToSet(was) \subseteq ToSet(old) /\ ToSet(next) \subseteq ToSet(new)
  BY DEF SomeOf
<1>2. ASSUME NEW k \in DOMAIN next
      PROVE  rows[k] \in Indices(new) /\ new[rows[k] + 1] = next[k]
  <2>1. next[k] \in ToSet(new)
    BY <1>1 DEF ToSet
  <2> QED BY <2>1, IndexInIs
<1>3. ASSUME NEW k \in DOMAIN was
      PROVE  /\ prev[k] \in Nat \cup {npos}
             /\ \A i \in Indices(new) : was[k] = new[i + 1] => prev[k] = i
             /\ (\A i \in Indices(new) : was[k] # new[i + 1]) => prev[k] = npos
  <2> DEFINE j == IndexIn(old, was[k])
  <2>1. was[k] \in ToSet(old)
    BY <1>1 DEF ToSet
  <2>2. j \in Indices(old) /\ old[j + 1] = was[k]
    BY <2>1, IndexInIs
  <2>3. prev[k] = NewIndex(b, j)
    OBVIOUS
  <2> HIDE DEF j
  <2>4. /\ \A i \in Indices(new) : old[j + 1] = new[i + 1] => NewIndex(b, j) = i
        /\ (\A i \in Indices(new) : old[j + 1] # new[i + 1]) => NewIndex(b, j) = npos
    BY <2>2, NewIndexIs
  <2>5. Indices(new) \subseteq Nat
    BY DEF Indices
  <2> QED BY <2>2, <2>3, <2>4, <2>5
<1>4. /\ DOMAIN prev = DOMAIN was /\ DOMAIN rows = DOMAIN next
      /\ DOMAIN was = 1 .. Len(was) /\ DOMAIN next = 1 .. Len(next)
      /\ Len(was) \in Nat /\ Len(next) \in Nat
  BY <1>1
<1>5. prev \in Seq(Nat \cup {npos}) /\ Len(prev) = Len(was)
  <2>1. prev = [k \in 1 .. Len(was) |-> prev[k]]
    BY <1>4
  <2>2. \A k \in 1 .. Len(was) : prev[k] \in Nat \cup {npos}
    BY <1>3, <1>4
  <2>3. prev \in [1 .. Len(was) -> Nat \cup {npos}]
    BY <2>1, <2>2
  <2> QED BY <1>4, <2>3, OfLength
<1>6. rows \in Seq(Nat) /\ Len(rows) = Len(next)
  <2>1. rows = [k \in 1 .. Len(next) |-> rows[k]]
    BY <1>4
  <2>2. \A k \in 1 .. Len(next) : rows[k] \in Nat
    BY <1>2, <1>4 DEF Indices
  <2>3. rows \in [1 .. Len(next) -> Nat]
    BY <2>1, <2>2
  <2> QED BY <1>4, <2>3, OfLength
<1>7. /\ Indices(prev) = Indices(was) /\ Indices(rows) = Indices(next)
  BY <1>5, <1>6 DEF Indices
<1>8. ASSUME NEW j \in Indices(was), NEW i \in Indices(next)
      PROVE  was[j + 1] = next[i + 1] <=> prev[j + 1] = rows[i + 1]
  <2>1. j + 1 \in DOMAIN was /\ i + 1 \in DOMAIN next
    BY <1>4 DEF Indices
  <2>2. rows[i + 1] \in Indices(new) /\ new[rows[i + 1] + 1] = next[i + 1]
    BY <1>2, <2>1
  <2>3. was[j + 1] = next[i + 1] => prev[j + 1] = rows[i + 1]
    BY <1>3, <2>1, <2>2
  <2>4. ASSUME prev[j + 1] = rows[i + 1] PROVE was[j + 1] = next[i + 1]
    <3>1. prev[j + 1] # npos
      BY <2>2, <2>4 DEF Indices, npos
    <3>2. PICK k \in Indices(new) : was[j + 1] = new[k + 1]
      BY <1>3, <2>1, <3>1
    <3>3. prev[j + 1] = k
      BY <1>3, <2>1, <3>2
    <3> QED BY <2>2, <2>4, <3>2, <3>3
  <2> QED BY <2>3, <2>4
<1>9. RowsOf(prev, rows, was, next)
  BY <1>5, <1>6, <1>7, <1>8 DEF RowsOf
<1> QED BY <1>2, <1>9

(* Only rows that move_over has moved come before others: calculate is     *)
(* right to take only those for moved.                                     *)
THEOREM OnlyMovedComeBefore ==
  ASSUME NEW c, NEW old \in Seq(Nat), NEW new \in Seq(Nat), NEW M,
         RecordsTable(c, old, new, M), Distinct(old), Distinct(new), Descending(c),
         NEW was, InOrderOf(old, was), NEW next, InOrderOf(new, next),
         NEW prev, NEW rows, RowsOf(prev, rows, was, next),
         \A k \in DOMAIN next : rows[k] \in Indices(new) /\ new[rows[k] + 1] = next[k]
  PROVE  OthersStay(StayingRows(prev, rows), parse_complete(c).insertions)
<1> DEFINE stay == StayingRows(prev, rows)
           I == parse_complete(c).insertions
<1>0. /\ was \in Seq(Nat) /\ Distinct(was) /\ ToSet(was) \subseteq ToSet(old)
      /\ next \in Seq(Nat) /\ Distinct(next)
      /\ \A k, l \in Indices(was), i, j \in Indices(old) :
           old[i + 1] = was[k + 1] /\ old[j + 1] = was[l + 1] /\ k < l => i < j
      /\ \A k, l \in Indices(next), i, j \in Indices(new) :
           new[i + 1] = next[k + 1] /\ new[j + 1] = next[l + 1] /\ k < l => i < j
  BY DEF InOrderOf, SomeOf
<1>1. Staying(stay, Deleted(prev), Unmatched(prev, rows), Arrived(prev, rows), prev, rows, was, next)
  BY <1>0, StayingRowsStay
<1>2. /\ \A k \in DOMAIN stay :
           /\ stay[k].tv_index \in Indices(next) /\ stay[k].prev_tv_index \in Indices(was)
           /\ was[stay[k].prev_tv_index + 1] = next[stay[k].tv_index + 1]
           /\ stay[k].row_index = rows[stay[k].tv_index + 1]
      /\ \A k, l \in DOMAIN stay : k < l => stay[k].tv_index < stay[l].tv_index
  BY <1>1 DEF Staying
<1> HIDE DEF stay, I
<1>3. SUFFICES ASSUME NEW l \in DOMAIN stay, NEW m \in DOMAIN stay, l < m, stay[l].row_index \notin I
               PROVE  stay[l].prev_tv_index < stay[m].prev_tv_index
  BY DEF OthersStay, stay, I
<1> DEFINE a == stay[l].tv_index
           z == stay[m].tv_index
           p == stay[l].prev_tv_index
           q == stay[m].prev_tv_index
           s == rows[a + 1]
           t == rows[z + 1]
<1>4. /\ a \in Indices(next) /\ z \in Indices(next) /\ p \in Indices(was) /\ q \in Indices(was)
      /\ was[p + 1] = next[a + 1] /\ was[q + 1] = next[z + 1] /\ a < z /\ s \notin I
  BY <1>2, <1>3
<1> HIDE DEF a, z, p, q
<1>5. /\ s \in Indices(new) /\ new[s + 1] = next[a + 1]
      /\ t \in Indices(new) /\ new[t + 1] = next[z + 1]
  <2>1. a + 1 \in DOMAIN next /\ z + 1 \in DOMAIN next
    BY <1>0, <1>4 DEF Indices
  <2> QED BY <2>1
<1> HIDE DEF s, t
<1>6. s < t
  BY <1>0, <1>4, <1>5
<1>7. PICK u \in Indices(old) : old[u + 1] = was[p + 1]
  <2>1. p + 1 \in DOMAIN was
    <3>1. was \in Seq(Nat) /\ p \in Indices(was)
      BY <1>0, <1>4
    <3> QED BY ONLY <3>1 DEF Indices
  <2>2. was[p + 1] \in ToSet(old)
    BY <1>0, <2>1 DEF ToSet
  <2> QED BY <2>2, IndexInIs
<1>8. PICK v \in Indices(old) : old[v + 1] = was[q + 1]
  <2>1. q + 1 \in DOMAIN was
    <3>1. was \in Seq(Nat) /\ q \in Indices(was)
      BY <1>0, <1>4
    <3> QED BY ONLY <3>1 DEF Indices
  <2>2. was[q + 1] \in ToSet(old)
    BY <1>0, <2>1 DEF ToSet
  <2> QED BY <2>2, IndexInIs
<1>9. s = u
  <2>1. old[u + 1] = new[s + 1]
    BY <1>4, <1>5, <1>7
  <2> QED BY <1>4, <1>5, <2>1, RowsDescend DEF I
<1>10. t <= v
  <2>1. old[v + 1] = new[t + 1]
    BY <1>4, <1>5, <1>8
  <2> QED BY <1>5, <2>1, RowsDescend
<1>11. u \in Nat /\ v \in Nat /\ s \in Nat /\ t \in Nat /\ p \in Nat /\ q \in Nat
  BY <1>4, <1>5 DEF Indices
<1>12. u < v
  BY <1>6, <1>9, <1>10, <1>11
<1>13. ~ (q < p)
  <2> SUFFICES ASSUME q < p PROVE FALSE
    OBVIOUS
  <2>1. v < u
    BY <1>0, <1>4, <1>7, <1>8
  <2> QED BY <1>11, <1>12, <2>1
<1>14. p # q
  <2> SUFFICES ASSUME p = q PROVE FALSE
    OBVIOUS
  <2>1. u = v
    <3>1. old[u + 1] = old[v + 1]
      BY <1>7, <1>8
    <3> QED BY <3>1, DistinctIndices
  <2> QED BY <1>11, <1>12, <2>1
<1> QED BY <1>11, <1>13, <1>14 DEF p, q

(* A sequence of some things is one of more. *)
LEMMA SeqWider ==
  ASSUME NEW S, NEW T, S \subseteq T, NEW s \in Seq(S)
  PROVE  s \in Seq(T)
<1>1. Len(s) \in Nat /\ s \in [1 .. Len(s) -> S]
  OBVIOUS
<1>2. s \in [1 .. Len(s) -> T]
  BY <1>1
<1> QED BY <1>1, <1>2, OfLength

(* Changes that say the same of what comes, goes and moves. *)
LEMMA SaidTheSame ==
  ASSUME NEW a, NEW t, t.deletions = a.deletions, t.insertions = a.insertions,
         t.moves = a.moves, NEW old, NEW new, Leads(a, old, new), MovesAreMoves(a, old, new)
  PROVE  Leads(t, old, new) /\ MovesAreMoves(t, old, new)
BY DEF Leads, MovesAreMoves

(* The notifier of the query has neither run nor called back. *)
LEMMA QueryKept ==
  ASSUME QueryInv, UNCHANGED <<observed, start>>,
         found'[Query] = found[Query], shown'[Query] = shown[Query],
         accumulated'[Query] = accumulated[Query], Descending(info')
  PROVE  QueryInv'
BY DEF QueryInv

(* The table has changed. *)
LEMMA TableOfQuery ==
  ASSUME TableInv, QueryInv, UNCHANGED <<observed, start, found, shown, accumulated>>,
         NEW c, Record(c), observed.query # "none" => Descending(c)
  PROVE  QueryInv'
<1>1. info' = c \/ info' = NoChanges
  BY DEF Record
<1>2. Descending(info')
  BY <1>1, OthersDescend DEF Record
<1> QED BY <1>2, QueryKept

(* What is recorded, by rows that come and are modified. *)
LEMMA InfoDescends ==
  ASSUME TableInv, QueryInv, observed.query # "none"
  PROVE  /\ info \in ChangeSets /\ Descending(info)
         /\ \A i, k : Descending(modify(info, i)) /\ Descending(modify(insert(info, k), i))
<1>1. RecordsTable(info, start, table, modified[Query])
  BY DEF TableInv
<1>2. info \in ChangeSets
  BY <1>1 DEF RecordsTable
<1>3. Descending(info)
  BY DEF QueryInv
<1>4. \A i, k : /\ modify(info, i).mapping = info.mapping
                /\ modify(insert(info, k), i).mapping = info.mapping
  BY <1>2 DEF ChangeSets, modify, insert
<1> QED BY <1>2, <1>3, <1>4 DEF Descending

(* What the query finds. *)
LEMMA QueryFinds ==
  ASSUME TableInv, QueryInv, table \in Seq(Nat), start \in Seq(Nat),
         NEW touched, NEW next \in Find(touched)
  PROVE  /\ SomeOf(table, next)
         /\ observed.query = "in table order" => InOrderOf(table, next)
         /\ observed.query = "none" => next = << >>
<1>0. Distinct(table)
  BY DEF TableInv
<1>1. /\ SomeOf(start, found[Query])
      /\ observed.query = "in table order" => InOrderOf(start, found[Query])
      /\ observed.query = "none" => found[Query] = << >>
  BY DEF QueryInv
<1>2. SomeOf(table, << >>)
  BY DEF SomeOf, Distinct, ToSet
<1>3. CASE observed.query = "none"
  <2>1. next = << >>
    BY <1>1, <1>3 DEF Find
  <2> QED BY <1>2, <1>3, <2>1
<1>4. CASE observed.query # "none" /\ info = NoChanges /\ touched = {}
  <2>1. next = found[Query]
    BY <1>4 DEF Find
  <2>2. start = table
    <3> DEFINE N == Nat
               M == modified[Query]
    <3>1. table \in Seq(N) /\ start \in Seq(N) /\ RecordsTable(NoChanges, start, table, M)
      BY <1>4 DEF TableInv
    <3> HIDE DEF N, M
    <3> QED BY ONLY <3>1, SameTable
  <2> QED BY <1>1, <1>4, <2>1, <2>2
<1>5. CASE observed.query = "in table order" /\ ~ (info = NoChanges /\ touched = {})
  <2>1. next = Matching(table, matching)
    BY <1>5 DEF Find
  <2>2. InOrderOf(table, next)
    BY <1>0, <2>1, MatchingInOrder
  <2> QED BY <1>5, <2>2 DEF InOrderOf
<1>6. CASE /\ observed.query \notin {"none", "in table order"}
           /\ ~ (info = NoChanges /\ touched = {})
  <2>1. next \in SetToSeqs(matching \cap ToSet(table))
    BY <1>6 DEF Find
  <2> QED BY <1>6, <2>1, SomeSorted
<1> QED BY <1>3, <1>4, <1>5, <1>6

(* The rows that stay and have changed, or link to what has, by where they *)
(* are in the table.                                                       *)
RowsChanged(next, touched) ==
  {IndexIn(table, r) : r \in
     row_did_change(columns, At(table, parse_complete(info).modifications) \cup touched,
                    Matching(next, ToSet(found[Query])))}

(* What has been of the rows of the query, when the worker runs. *)
LEMMA QueryCompared ==
  ASSUME TableInv, QueryInv, table \in Seq(Nat), start \in Seq(Nat),
         observed.query # "none", NEW touched, ~ (info = NoChanges /\ touched = {}),
         NEW next, SomeOf(table, next),
         observed.query = "in table order" => InOrderOf(table, next)
  PROVE  LET n == runQuery(next, touched)
         IN  /\ n \in ChangeSets
             /\ Leads(n, found[Query], next) /\ MovesAreMoves(n, found[Query], next)
             /\ \A j \in Indices(found[Query]), i \in Indices(next) :
                  found[Query][j + 1] = next[i + 1]
                    => (i \in n.modifications
                          <=> IndexIn(table, next[i + 1]) \in RowsChanged(next, touched))
<1> DEFINE was == found[Query]
           n == runQuery(next, touched)
           b == parse_complete(info)
           in_order == observed.query = "in table order"
           prev == [k \in DOMAIN was |-> NewIndex(b, IndexIn(start, was[k]))]
           rows == [k \in DOMAIN next |-> IndexIn(table, next[k])]
           did == RowsChanged(next, touched)
           M == modified[Query]
<1>1. Distinct(start) /\ Distinct(table) /\ RecordsTable(info, start, table, M)
  BY DEF TableInv
<1>2. /\ Descending(info) /\ SomeOf(start, was) /\ SomeOf(table, next)
      /\ in_order => InOrderOf(start, was) /\ InOrderOf(table, next)
      /\ in_order \in BOOLEAN
  BY DEF QueryInv
<1>3. n = calculate(prev, rows, did, in_order, b.insertions)
  <2>1. n = calculate_changes(b, next, touched)
    BY DEF runQuery
  <2>2. calculate_changes(b, next, touched) = calculate(prev, rows, did, in_order, b.insertions)
    BY DEF calculate_changes, RowsChanged
  <2> HIDE DEF b, prev, rows, did, in_order, n
  <2> QED BY <2>1, <2>2
<1>r. \A i \in Indices(next) : rows[i + 1] = IndexIn(table, next[i + 1])
  <2>1. next \in Seq(Nat)
    BY DEF SomeOf
  <2>2. \A i \in Indices(next) : i + 1 \in DOMAIN next
    BY ONLY <2>1 DEF Indices
  <2> QED BY <2>2
<1> HIDE DEF n, was, did, M, in_order
<1>4. /\ was \in Seq(Nat) /\ Distinct(was) /\ next \in Seq(Nat) /\ Distinct(next)
  BY <1>2 DEF SomeOf
<1>5. /\ b \in ChangeSets /\ Leads(b, start, table)
      /\ MovesAreMoves(b, start, table) /\ MovesAreTold(b, start, table)
  BY <1>1, ParseIsExact
<1>6. /\ RowsOf(prev, rows, was, next)
      /\ \A k \in DOMAIN next : rows[k] \in Indices(table) /\ table[rows[k] + 1] = next[k]
  <2>1. /\ DOMAIN prev = DOMAIN was /\ DOMAIN rows = DOMAIN next
        /\ \A k \in DOMAIN was : prev[k] = NewIndex(b, IndexIn(start, was[k]))
        /\ \A k \in DOMAIN next : rows[k] = IndexIn(table, next[k])
        /\ prev = [k \in DOMAIN prev |-> prev[k]]
        /\ rows = [k \in DOMAIN rows |-> rows[k]]
    OBVIOUS
  <2>2. /\ start \in Seq(Nat) /\ table \in Seq(Nat) /\ SomeOf(table, next)
    OBVIOUS
  <2> HIDE DEF b, prev, rows
  <2> QED BY ONLY <1>1, <1>2, <1>5, <2>1, <2>2, RowsOfQuery
<1> HIDE DEF prev, rows
<1>7. in_order => OthersStay(StayingRows(prev, rows), b.insertions)
  <2> SUFFICES ASSUME in_order PROVE OthersStay(StayingRows(prev, rows), b.insertions)
    OBVIOUS
  <2>1. /\ start \in Seq(Nat) /\ table \in Seq(Nat) /\ Descending(info)
        /\ InOrderOf(start, was) /\ InOrderOf(table, next)
    BY <1>2
  <2>2. OthersStay(StayingRows(prev, rows), parse_complete(info).insertions)
    BY ONLY <1>1, <1>6, <2>1, OnlyMovedComeBefore
  <2> QED BY <2>2
<1> HIDE DEF b
<1>8. /\ n \in ChangeSets /\ Leads(n, was, next) /\ MovesAreMoves(n, was, next)
      /\ \A j \in Indices(was), i \in Indices(next) :
           was[j + 1] = next[i + 1] => (i \in n.modifications <=> rows[i + 1] \in did)
  <2> DEFINE arrived == b.insertions
  <2>1. in_order => OthersStay(StayingRows(prev, rows), arrived)
    BY <1>7
  <2> HIDE DEF arrived
  <2>2. Compares(calculate(prev, rows, did, in_order, arrived), was, next, rows, did)
    BY ONLY <1>2, <1>4, <1>6, <2>1, CalculateIsExact
  <2>3. n = calculate(prev, rows, did, in_order, arrived)
    BY <1>3 DEF arrived
  <2> QED BY ONLY <2>2, <2>3 DEF Compares
<1> QED BY <1>8, <1>r DEF n, was, did

(* The rows, by their names. *)
LEMMA RowsAreNumbers ==
  ASSUME IInv, TableInv
  PROVE  table \in Seq(Nat) /\ start \in Seq(Nat)
<1> DEFINE N == Names
<1>1. NamesInv /\ start \in Seq(N)
  BY IInvParts DEF TableInv
<1>2. table \in Seq(N) /\ N \subseteq Nat
  BY <1>1 DEF NamesInv, Names
<1> HIDE DEF N
<1> QED BY <1>1, <1>2, SeqWider

(* What the notifier of the query tells when the worker runs. *)
LEMMA QueryLeads ==
  ASSUME TableInv, QueryInv, table \in Seq(Nat), start \in Seq(Nat),
         NEW touched, NEW next \in Find(touched)
  PROVE  LET n == runQuery(next, touched)
         IN  n \in ChangeSets /\ Leads(n, found[Query], next) /\ MovesAreMoves(n, found[Query], next)
<1>1. /\ SomeOf(table, next) /\ SomeOf(start, found[Query])
      /\ observed.query = "in table order" => InOrderOf(table, next)
      /\ observed.query = "none" => next = << >> /\ found[Query] = << >>
  BY QueryFinds DEF QueryInv
<1>2. CASE observed.query = "none" \/ (info = NoChanges /\ touched = {})
  <2> DEFINE was == found[Query]
  <2>1. runQuery(next, touched) = NoChanges
    BY <1>2 DEF runQuery
  <2>2. next = was /\ was \in Seq(Nat)
    BY <1>1, <1>2 DEF Find, SomeOf
  <2> HIDE DEF was
  <2>3. NoChanges \in ChangeSets /\ Leads(NoChanges, was, was) /\ MovesAreMoves(NoChanges, was, was)
    BY <2>2, NothingSince DEF Tells
  <2> QED BY <2>1, <2>2, <2>3 DEF was
<1>3. CASE observed.query # "none" /\ ~ (info = NoChanges /\ touched = {})
  BY <1>1, <1>3, QueryCompared
<1> QED BY <1>2, <1>3

(* The worker runs. *)
LEMMA QueryRuns ==
  ASSUME IInv, TableInv, QueryInv, NEW touched, NEW next \in Find(touched), Run(next, touched)
  PROVE  QueryInv'
<1> DEFINE was == found[Query]
           a == accumulated[Query]
           n == runQuery(next, touched)
           old == shown[Query]
<1>1. table \in Seq(Nat) /\ start \in Seq(Nat)
  BY RowsAreNumbers
<1>2. /\ SomeOf(table, next)
      /\ observed.query = "in table order" => InOrderOf(table, next)
      /\ observed.query = "none" => next = << >>
  BY <1>1, QueryFinds
<1>3. /\ old \in Seq(Nat) /\ Distinct(old) /\ SomeOf(start, was)
      /\ observed.query = "none" => was = << >>
      /\ a \in ChangeSets /\ Leads(a, old, was) /\ MovesAreMoves(a, old, was)
  BY DEF QueryInv
<1>4. /\ accumulated'[Query] = merge(a, n) /\ found'[Query] = next /\ start' = table
      /\ info' = NoChanges /\ UNCHANGED <<observed, shown>>
  <2>1. /\ accumulated' = [m \in Notifiers |->
              merge(accumulated[m], IF m = Query THEN runQuery(next, touched) ELSE runList(m, touched))]
        /\ found' = AllFound(next) /\ start' = table /\ info' = NoChanges
        /\ UNCHANGED <<observed, shown>>
    BY DEF Run
  <2> QED BY <2>1 DEF AllFound, Notifiers
<1>5. Descending(NoChanges)
  BY OthersDescend
<1>6. /\ merge(a, n) \in ChangeSets /\ Leads(merge(a, n), old, next)
      /\ MovesAreMoves(merge(a, n), old, next)
  <2>1. n \in ChangeSets /\ Leads(n, was, next) /\ MovesAreMoves(n, was, next)
    BY <1>1, QueryLeads
  <2>2. was \in Seq(Nat) /\ Distinct(was) /\ next \in Seq(Nat) /\ Distinct(next)
    BY <1>2, <1>3 DEF SomeOf
  <2> HIDE DEF n, a, was, old
  <2> QED BY <1>3, <2>1, <2>2, MergeLeads
<1> HIDE DEF n, a, old
<1> QED BY <1>2, <1>3, <1>4, <1>5, <1>6 DEF QueryInv, old

(* A callback is called, of the query or of a list. *)
LEMMA QueryDelivered ==
  ASSUME IInv, QueryInv, NEW n \in Notifiers, Deliver(n)
  PROVE  QueryInv'
<1>0. /\ accumulated' = [accumulated EXCEPT ![n] = NoChanges]
      /\ shown' = [shown EXCEPT ![n] = found[n]]
      /\ UNCHANGED <<observed, info, start, found>>
  BY DEF Deliver
<1>1. /\ DOMAIN accumulated = Notifiers /\ DOMAIN shown = Notifiers /\ Query \in Notifiers
  BY IInvParts DEF NamesInv, Notifiers
<1>2. CASE n # Query
  <2>1. accumulated'[Query] = accumulated[Query] /\ shown'[Query] = shown[Query]
    BY <1>0, <1>2
  <2>2. Descending(info')
    BY <1>0 DEF QueryInv
  <2> QED BY <1>0, <2>1, <2>2, QueryKept
<1>3. CASE n = Query
  <2> DEFINE s == found[Query]
  <2>1. accumulated'[Query] = NoChanges /\ shown'[Query] = s /\ found'[Query] = s
    BY <1>0, <1>1, <1>3
  <2>2. /\ Descending(info) /\ SomeOf(start, s)
        /\ observed.query = "in table order" => InOrderOf(start, s)
        /\ observed.query = "none" => s = << >>
    BY <1>0 DEF QueryInv
  <2>3. s \in Seq(Nat) /\ Distinct(s)
    BY <2>2 DEF SomeOf
  <2> HIDE DEF s
  <2>4. NoChanges \in ChangeSets /\ Leads(NoChanges, s, s) /\ MovesAreMoves(NoChanges, s, s)
    BY <2>3, NothingSince DEF Tells
  <2> QED BY <1>0, <2>1, <2>2, <2>3, <2>4 DEF QueryInv
<1> QED BY <1>2, <1>3

(* At first nothing waits for the callback. *)
LEMMA InitQueryInv ==
  ASSUME NEW s \in Scenarios, Begin(s)
  PROVE  QueryInv
<1>1. /\ start = table /\ info = NoChanges
      /\ found = AllFound(Matching(table, matching)) /\ shown = found
      /\ accumulated = [n \in Notifiers |-> NoChanges]
  BY DEF Begin
<1> DEFINE w == Matching(table, matching)
<1>2. found[Query] = w /\ shown[Query] = w /\ accumulated[Query] = NoChanges
  BY <1>1 DEF AllFound, Notifiers
<1>3. table \in Seq(Nat)
  <2> DEFINE N == Names
  <2>1. NamesInv
    BY InitIInv, IInvParts
  <2>2. table \in Seq(N)
    BY <2>1 DEF NamesInv
  <2>3. N \subseteq Nat
    BY <2>1 DEF NamesInv, Names
  <2> HIDE DEF N
  <2> QED BY <2>2, <2>3, SeqWider
<1>4. Distinct(table)
  BY InitTableInv DEF TableInv
<1> HIDE DEF w
<1>5. InOrderOf(table, w)
  BY <1>3, <1>4, MatchingInOrder DEF w
<1>6. SomeOf(table, w) /\ w \in Seq(Nat) /\ Distinct(w)
  BY <1>5 DEF InOrderOf, SomeOf
<1>7. NoChanges \in ChangeSets /\ Leads(NoChanges, w, w) /\ MovesAreMoves(NoChanges, w, w)
  BY <1>6, NothingSince DEF Tells
<1>8. Descending(NoChanges)
  BY OthersDescend
<1>9. observed.query = "none" => w = << >>
  <2>1. observed.query = s.query /\ matching = s.matching
    BY DEF Begin
  <2>2. observed.query = "none" => matching = {}
    BY <2>1, ScenarioParts
  <2> QED BY <1>3, <2>2, NothingMatches DEF w
<1> QED BY <1>1, <1>2, <1>5, <1>6, <1>7, <1>8, <1>9 DEF QueryInv

(* The invariant of the query, by all that can happen. *)
THEOREM QueryInvariance == Spec => []QueryInv
<1>1. Init => QueryInv
  BY InitQueryInv DEF Init
<1>2. IInv /\ TableInv /\ QueryInv /\ [Next]_vars => QueryInv'
  <2> SUFFICES ASSUME IInv, TableInv, QueryInv, [Next]_vars PROVE QueryInv'
    OBVIOUS
  <2>1. ASSUME NEW match \in BOOLEAN, insert_empty_rows(match) PROVE QueryInv'
    <3>1. /\ Record(modify(insert(info, Len(table)), Len(table)))
          /\ UNCHANGED <<observed, start, found, shown, accumulated>>
      BY <2>1 DEF insert_empty_rows, Rows
    <3>2. observed.query # "none"
            => Descending(modify(insert(info, Len(table)), Len(table)))
      BY InfoDescends
    <3> QED BY <3>1, <3>2, TableOfQuery
  <2>2. ASSUME NEW match \in BOOLEAN, NEW row \in Indices(table), mark_dirty(row, match)
        PROVE  QueryInv'
    <3>1. Record(modify(info, row)) /\ UNCHANGED <<observed, start, found, shown, accumulated>>
      BY <2>2 DEF mark_dirty
    <3>2. observed.query # "none" => Descending(modify(info, row))
      BY InfoDescends
    <3> QED BY <3>1, <3>2, TableOfQuery
  <2>3. ASSUME NEW row \in Indices(table), erase_rows(row) PROVE QueryInv'
    <3>1. /\ Record(move_over(info, row, Len(table) - 1))
          /\ UNCHANGED <<observed, start, found, shown, accumulated>>
      BY <2>3 DEF erase_rows, Rows
    <3>2. ASSUME observed.query # "none"
          PROVE  Descending(move_over(info, row, Len(table) - 1))
      <4> DEFINE M == modified[Query]
      <4>1. /\ table \in Seq(Names) /\ start \in Seq(Names) /\ RecordsTable(info, start, table, M)
        BY <3>2, IInvParts DEF NamesInv, TableInv
      <4>2. Descending(info)
        BY <3>2, InfoDescends
      <4> HIDE DEF M
      <4> QED BY <4>1, <4>2, MoveOverDescends
    <3> QED BY <3>1, <3>2, TableOfQuery
  <2>4. ASSUME clear_table PROVE QueryInv'
    <3>1. /\ Record(clear_table_of(MaxRows))
          /\ UNCHANGED <<observed, start, found, shown, accumulated>>
      BY <2>4 DEF clear_table, Rows
    <3>2. Descending(clear_table_of(MaxRows))
      BY OthersDescend
    <3> QED BY <3>1, <3>2, TableOfQuery
  <2>5. ASSUME NEW l, NEW entries, NEW set, NEW recorded, Change(l, entries, set, recorded)
        PROVE  QueryInv'
    <3>1. /\ Record(modify(info, IndexIn(table, l)))
          /\ UNCHANGED <<observed, start, found, shown, accumulated>>
      BY <2>5 DEF Change
    <3>2. observed.query # "none" => Descending(modify(info, IndexIn(table, l)))
      BY InfoDescends
    <3> QED BY <3>1, <3>2, TableOfQuery
  <2>6. ASSUME NEW l \in Lists \cap ToSet(table),
               \/ \E i \in 0 .. Len(contents[l]) : link_list_insert(l, i)
               \/ \E i \in Indices(contents[l]) :
                    \/ link_list_erase(l, i)
                    \/ link_list_set(l, i)
                    \/ \E j \in Indices(contents[l]) :
                         link_list_move(l, i, j) \/ link_list_swap(l, i, j)
               \/ link_list_clear(l)
        PROVE  QueryInv'
    <3>1. \E entries, set, recorded : Change(l, entries, set, recorded)
      BY <2>6 DEF link_list_insert, link_list_erase, link_list_set, link_list_move,
                  link_list_swap, link_list_clear
    <3> QED BY <2>5, <3>1
  <2>7. ASSUME NEW touched, NEW next \in Find(touched), Run(next, touched) PROVE QueryInv'
    BY <2>7, QueryRuns
  <2>8. CASE UNCHANGED vars
    <3>1. UNCHANGED <<observed, start, info, found, shown, accumulated>>
      BY <2>8 DEF vars
    <3>2. Descending(info')
      BY <3>1 DEF QueryInv
    <3> QED BY <3>1, <3>2, QueryKept
  <2> QED BY <2>1, <2>2, <2>3, <2>4, <2>6, <2>7, <2>8, QueryDelivered DEF Next
<1> QED BY <1>1, <1>2, Invariance, TableInvariance, PTL DEF Spec

(* What an observer of a query is handed makes what the query found of     *)
(* what he was shown, and its moves are moves, in the order of the table   *)
(* or sorted in any way, for every table and any operations on the rows,   *)
(* and however many runs of the worker are merged.                         *)
THEOREM QueryIsExactHolds == Spec => []QueryIsExact
<1>1. QueryInv => QueryIsExact
  <2> SUFFICES ASSUME QueryInv PROVE QueryIsExact
    OBVIOUS
  <2> DEFINE a == accumulated[Query]
             t == finalize(a)
  <2>1. Leads(a, shown[Query], found[Query]) /\ MovesAreMoves(a, shown[Query], found[Query])
    BY DEF QueryInv
  <2> HIDE DEF a
  <2>2. t.deletions = a.deletions /\ t.insertions = a.insertions /\ t.moves = a.moves
    BY DEF finalize
  <2> HIDE DEF t
  <2>3. Leads(t, shown[Query], found[Query]) /\ MovesAreMoves(t, shown[Query], found[Query])
    BY <2>1, <2>2, SaidTheSame
  <2> QED BY <2>3 DEF QueryIsExact, Makes, t, a
<1> QED BY <1>1, QueryInvariance, PTL
-----------------------------------------------------------------------------
(* The modifications. *)

(* What is left of a sequence, as a set. *)
LEMMA EntriesLeft ==
  ASSUME NEW E, NEW s \in Seq(E), NEW S \in IndexSets
  PROVE  /\ Without(s, S) \in Seq(E)
         /\ \A x : x \in ToSet(Without(s, S)) <=> \E i \in Indices(s) \ S : x = s[i + 1]
<1> DEFINE w == Without(s, S)
           n == unshift(S, Len(s))
           Of(k) == shift(S, k - 1)
<1>1. /\ w \in Seq(E) /\ DOMAIN w = 1 .. n
      /\ \A k \in 1 .. n : Of(k) \in Indices(s) \ S /\ w[k] = s[Of(k) + 1]
      /\ \A i \in Indices(s) \ S : \E k \in 1 .. n : Of(k) = i
  BY WithoutInOrder
<1> HIDE DEF w, n, Of
<1>2. ToSet(w) = {w[k] : k \in 1 .. n}
  BY <1>1 DEF ToSet
<1>3. \A x : x \in ToSet(w) <=> \E i \in Indices(s) \ S : x = s[i + 1]
  BY <1>1, <1>2
<1> QED BY <1>1, <1>3 DEF w

(* A sequence by its entries. *)
LEMMA SeqOfEntries ==
  ASSUME NEW E, NEW s \in Seq(E), NEW S, ToSet(s) \subseteq S
  PROVE  s \in Seq(S)
<1>1. Len(s) \in Nat /\ DOMAIN s = 1 .. Len(s) /\ s \in [1 .. Len(s) -> E]
  OBVIOUS
<1>2. \A k \in 1 .. Len(s) : s[k] \in S
  BY <1>1 DEF ToSet
<1>3. s \in [1 .. Len(s) -> S]
  BY <1>1, <1>2
<1> QED BY <1>1, <1>3, OfLength

(* Everything there is links to objects only. *)
LEMMA ColumnsLink ==
  ASSUME IInv
  PROVE  /\ DOMAIN columns = ToSet(table) \cup Objects
         /\ AreLinks(columns)
         /\ \A r \in DOMAIN columns : \A x : LinksTo(columns, {}, r, x) => x \in Objects
<1> DEFINE R == ToSet(table) \cup Objects
           O == Objects
<1>1. /\ DOMAIN columns = R
      /\ \A r \in R : columns[r] = IF r \in Lists THEN <<contents[r]>>
                                   ELSE IF r \in DOMAIN observed.links THEN observed.links[r]
                                   ELSE << >>
  BY DEF columns
<1>2. /\ \A l \in Lists : ToSet(contents[l]) \subseteq O
      /\ DOMAIN observed.links \subseteq O
  BY DEF Objects
<1> HIDE DEF R, O
<1>3. ASSUME NEW r \in R PROVE columns[r] \in Seq(Seq(O))
  <2>1. CASE r \in Lists
    <3> DEFINE w == contents[r]
    <3>1. w \in Seq(Nat) /\ ToSet(w) \subseteq O
      BY <1>2, <2>1, OfAList
    <3>2. columns[r] = <<w>>
      BY <1>1, <2>1
    <3> HIDE DEF w
    <3>3. w \in Seq(O)
      BY <3>1, SeqOfEntries
    <3> QED BY <3>2, <3>3
  <2>2. CASE r \notin Lists /\ r \in DOMAIN observed.links
    <3> DEFINE L == DOMAIN observed.links
    <3>1. columns[r] \in Seq(Seq(L))
      BY <1>1, <2>2, IInvParts DEF NamesApart
    <3>2. L \subseteq O
      BY <1>2
    <3> HIDE DEF L
    <3>3. Seq(L) \subseteq Seq(O)
      BY <3>2, SeqWider
    <3> QED BY <3>1, <3>3, SeqWider
  <2>3. CASE r \notin Lists /\ r \notin DOMAIN observed.links
    <3>1. columns[r] = << >>
      BY <1>1, <2>3
    <3> HIDE DEF columns
    <3> QED BY ONLY <3>1
  <2> QED BY <2>1, <2>2, <2>3
<1>4. O \subseteq R
  BY DEF O, R
<1>5. AreLinks(columns)
  <2>1. Seq(O) \subseteq Seq(R)
    BY <1>4, SeqWider
  <2>2. \A r \in R : columns[r] \in Seq(Seq(R))
    BY <1>3, <2>1, SeqWider
  <2> QED BY <1>1, <2>2 DEF AreLinks
<1>6. ASSUME NEW r \in R, NEW x, LinksTo(columns, {}, r, x) PROVE x \in O
  <2> DEFINE c == columns[r]
  <2>1. c \in Seq(Seq(O))
    BY <1>3
  <2>2. PICK col \in DOMAIN c : x \in ToSet(c[col])
    BY <1>6 DEF LinksTo
  <2> HIDE DEF c
  <2>3. c[col] \in Seq(O)
    BY <2>1, <2>2, ElementOfSeq
  <2> QED BY <2>2, <2>3, ElementOfSeq DEF ToSet
<1> QED BY <1>1, <1>5, <1>6 DEF R, O

(* A row reached from another is linked to. *)
LEMMA ReachedIsLinkedTo ==
  ASSUME NEW links, NEW row, NEW n \in Int, NEW x, x # row, Reaches(links, {}, row, n, x)
  PROVE  \E y \in DOMAIN links : LinksTo(links, {}, y, x)
<1>1. PICK m \in 0 .. n : \E p : IsWay(links, {}, p, m) /\ p[0] = row /\ p[m] = x
  BY DEF Reaches
<1>2. PICK p : IsWay(links, {}, p, m) /\ p[0] = row /\ p[m] = x
  BY <1>1
<1>3. m # 0
  BY <1>2
<1>4. m - 1 \in 0 .. m - 1 /\ m - 1 \in 0 .. m /\ (m - 1) + 1 = m
  BY <1>3
<1>5. p[m - 1] \in DOMAIN links /\ LinksTo(links, {}, p[m - 1], p[(m - 1) + 1])
  BY <1>2, <1>4 DEF IsWay
<1> QED BY <1>2, <1>4, <1>5

(* Of the rows that have changed, only itself makes a row change. *)
LEMMA ChangedRows ==
  ASSUME IInv, NEW A \in SUBSET ToSet(table), NEW touched, NEW r \in DOMAIN columns
  PROVE  HasChanged(columns, A \cup touched, r) <=> r \in A \/ HasChanged(columns, touched, r)
<1> DEFINE d == MaxDepth - 1
<1>0. d \in Nat
  BY MaxDepthAssumption
<1>1. \A changes : HasChanged(columns, changes, r)
                     <=> \E x \in changes : Reaches(columns, {}, r, d, x)
  BY ColumnsLink, HasChangedIs DEF ChangedBeyond
<1> HIDE DEF d
<1>2. ASSUME NEW x \in A, x # r PROVE ~ Reaches(columns, {}, r, d, x)
  <2> SUFFICES ASSUME Reaches(columns, {}, r, d, x) PROVE FALSE
    OBVIOUS
  <2>1. \E y \in DOMAIN columns : LinksTo(columns, {}, y, x)
    BY <1>0, <1>2, ReachedIsLinkedTo
  <2>2. x \in Objects
    BY <2>1, ColumnsLink
  <2> QED BY <1>2, <2>2, IInvParts DEF NamesApart
<1>3. Reaches(columns, {}, r, d, r)
  BY <1>0, ReachesItself
<1> QED BY <1>1, <1>2, <1>3

(* ListNotifier::run tells the entries that were modified, and those that  *)
(* have changed or link to what has.                                       *)
LEMMA ListTells ==
  ASSUME IInv, NEW l \in Lists, RecordedInv(l), NEW touched
  PROVE  FollowsModifications(runList(l, touched), found[l], contents[l],
           modified[l] \cup {o \in ToSet(contents[l]) : HasChanged(columns, touched, o)})
<1> DEFINE old == found[l]
           new == contents[l]
           M == modified[l]
           c == Parsed(l)
           asked == Without(new, c.modifications)
           did == row_did_change(columns, touched, asked)
           run == runList(l, touched)
           far == {o \in ToSet(new) : HasChanged(columns, touched, o)}
<1>0. /\ old \in Seq(Nat) /\ Distinct(old) /\ new \in Seq(Nat)
      /\ ToSet(new) \subseteq DOMAIN columns
  <2>1. ToSet(new) \subseteq Objects
    BY DEF Objects
  <2> QED BY <2>1, OfAList, ColumnsLink
<1>1. CASE l \in ToSet(table)
  <2>1. Records(change[l], old, new, M)
    BY <1>1 DEF RecordedInv
  <2>2. /\ change[l] \in ChangeSets /\ Leads(change[l], old, new) /\ MovesAreMoves(change[l], old, new)
        /\ \A i \in Indices(new) : i \in change[l].modifications <=> new[i + 1] \in M
    BY <2>1 DEF Records
  <2>3. c.modifications = change[l].modifications
    <3> DEFINE d == clean_up_stale_moves(change[l])
    <3>1. d.modifications = change[l].modifications
      <4> HIDE DEF old, new
      <4> QED BY <1>0, <2>2, CleanUpKeeps
    <3>2. c = d \/ c = change[l]
      BY DEF Parsed
    <3> HIDE DEF c, d
    <3> QED BY <3>1, <3>2
  <2>4. run = [c EXCEPT !.modifications = @ \cup {i \in Indices(new) : new[i + 1] \in did}]
    BY <1>1 DEF runList
  <2>5. c.modifications \in IndexSets /\ c \in ChangeSets
    <3>1. c.modifications \in IndexSets
      BY <2>2, <2>3 DEF ChangeSets
    <3>2. c \in ChangeSets
      <4> DEFINE d == clean_up_stale_moves(change[l])
      <4>1. d \in ChangeSets
        <5> HIDE DEF old, new
        <5> QED BY <1>0, <2>2, CleanUpKeeps
      <4>2. c = d \/ c = change[l]
        BY DEF Parsed
      <4> HIDE DEF c, d
      <4> QED BY <2>2, <4>1, <4>2
    <3> QED BY <3>1, <3>2
  <2> HIDE DEF c, did
  <2>6. run.modifications = c.modifications \cup {i \in Indices(new) : new[i + 1] \in did}
    BY <2>4, <2>5 DEF ChangeSets
  <2>7. /\ asked \in Seq(Nat)
        /\ \A x : x \in ToSet(asked) <=> \E i \in Indices(new) \ c.modifications : x = new[i + 1]
    BY <1>0, <2>5, EntriesLeft
  <2> HIDE DEF asked, run, new
  <2>8. \A i \in Indices(new) : new[i + 1] \in ToSet(new)
    <3>1. \A i \in Indices(new) : i + 1 \in DOMAIN new
      BY ONLY <1>0 DEF Indices
    <3> QED BY <3>1 DEF ToSet
  <2>9. did = {r \in ToSet(asked) : HasChanged(columns, touched, r)}
    <3>1. ToSet(asked) \subseteq DOMAIN columns
      BY <1>0, <2>7, <2>8
    <3>2. asked \in Seq(DOMAIN columns)
      BY <2>7, <3>1, SeqOfEntries
    <3> QED BY <3>2, ColumnsLink, RowDidChangeIsExact DEF did
  <2>10. ASSUME NEW i \in Indices(new) PROVE i \in run.modifications <=> new[i + 1] \in M \cup far
    BY <2>2, <2>3, <2>6, <2>7, <2>8, <2>9
  <2> QED BY <2>10 DEF FollowsModifications, new, run
<1>2. CASE l \notin ToSet(table)
  <2>1. new = << >>
    BY <1>2, IInvParts DEF GoodList, ListInv
  <2>2. Indices(new) = {}
    BY <2>1 DEF Indices
  <2> QED BY <2>2 DEF FollowsModifications
<1> QED BY <1>1, <1>2

(* The rows that match, as a set. *)
LEMMA RowsThatMatch ==
  ASSUME NEW t \in Seq(Nat), NEW m
  PROVE  Matching(t, m) \in Seq(Nat) /\ ToSet(Matching(t, m)) = ToSet(t) \cap m
<1> DEFINE S == {i \in Indices(t) : t[i + 1] \notin m}
<1>1. S \in IndexSets
  <2>1. IsFiniteSet(Indices(t)) /\ Indices(t) \in SUBSET Nat
    BY FS_Interval DEF Indices
  <2> QED BY <2>1, FS_Subset DEF IndexSets
<1>2. /\ Matching(t, m) \in Seq(Nat)
      /\ \A x : x \in ToSet(Matching(t, m)) <=> \E i \in Indices(t) \ S : x = t[i + 1]
  BY <1>1, EntriesLeft DEF Matching
<1>3. \A x : x \in ToSet(t) <=> \E i \in Indices(t) : x = t[i + 1]
  <2>1. ASSUME NEW i \in Indices(t) PROVE t[i + 1] \in ToSet(t)
    <3>1. i + 1 \in DOMAIN t
      BY DEF Indices
    <3> QED BY <3>1 DEF ToSet
  <2>2. ASSUME NEW k \in DOMAIN t PROVE \E i \in Indices(t) : t[k] = t[i + 1]
    <3>1. k - 1 \in Indices(t) /\ (k - 1) + 1 = k
      BY DEF Indices
    <3> QED BY <3>1
  <2> QED BY <2>1, <2>2 DEF ToSet
<1> QED BY <1>2, <1>3

(* ResultsNotifier::run tells the rows that were modified, and those that  *)
(* link to what has changed.                                               *)
LEMMA QueryTells ==
  ASSUME IInv, TableInv, QueryInv, table \in Seq(Nat), start \in Seq(Nat),
         NEW touched, NEW next \in Find(touched)
  PROVE  FollowsModifications(runQuery(next, touched), found[Query], next,
           modified[Query] \cup {o \in ToSet(next) : HasChanged(columns, touched, o)})
<1> DEFINE was == found[Query]
           n == runQuery(next, touched)
           M == modified[Query]
           b == parse_complete(info)
           A == At(table, b.modifications)
           stay == Matching(next, ToSet(was))
           far == {o \in ToSet(next) : HasChanged(columns, touched, o)}
<1>1. /\ SomeOf(table, next) /\ SomeOf(start, was)
      /\ observed.query = "in table order" => InOrderOf(table, next)
      /\ observed.query = "none" => next = << >>
  BY QueryFinds DEF QueryInv
<1>2. /\ next \in Seq(Nat) /\ Distinct(next) /\ ToSet(next) \subseteq ToSet(table)
      /\ ToSet(next) \subseteq DOMAIN columns
  BY <1>1, ColumnsLink DEF SomeOf
<1>3. CASE observed.query # "none" /\ ~ (info = NoChanges /\ touched = {})
  <2>1. \A j \in Indices(was), i \in Indices(next) :
          was[j + 1] = next[i + 1]
            => (i \in n.modifications <=> IndexIn(table, next[i + 1]) \in RowsChanged(next, touched))
    BY <1>1, <1>3, QueryCompared
  <2>2. A = ToSet(table) \cap M
    <3> DEFINE N == Nat
    <3>1. /\ start \in Seq(N) /\ table \in Seq(N) /\ Distinct(start) /\ Distinct(table)
          /\ RecordsTable(info, start, table, M)
      BY <1>3 DEF TableInv
    <3> HIDE DEF N, M
    <3> QED BY <3>1, ParseIsExact
  <2>3. RowsChanged(next, touched)
          = {IndexIn(table, r) : r \in row_did_change(columns, A \cup touched, stay)}
    BY DEF RowsChanged
  <2> HIDE DEF A, b
  <2>4. stay \in Seq(Nat) /\ ToSet(stay) = ToSet(next) \cap ToSet(was)
    BY <1>2, RowsThatMatch
  <2> HIDE DEF stay, n, was
  <2>5. row_did_change(columns, A \cup touched, stay)
          = {r \in ToSet(stay) : HasChanged(columns, A \cup touched, r)}
    <3>1. stay \in Seq(DOMAIN columns)
      BY <1>2, <2>4, SeqOfEntries
    <3> QED BY <3>1, ColumnsLink, RowDidChangeIsExact
  <2>6. \A r \in DOMAIN columns :
          HasChanged(columns, A \cup touched, r) <=> r \in A \/ HasChanged(columns, touched, r)
    BY <2>2, ChangedRows
  <2>7. \A r, q \in ToSet(table) : IndexIn(table, r) = IndexIn(table, q) => r = q
    <3>1. \A r \in ToSet(table) : table[IndexIn(table, r) + 1] = r
      BY IndexInIs
    <3> QED BY <3>1
  <2>8. ASSUME NEW j \in Indices(was), NEW i \in Indices(next), was[j + 1] = next[i + 1]
        PROVE  i \in n.modifications <=> next[i + 1] \in M \cup far
    <3> DEFINE r == next[i + 1]
    <3>1. r \in ToSet(next) /\ r \in ToSet(was)
      <4>1. i + 1 \in DOMAIN next
        BY <1>2 DEF Indices
      <4>2. was \in Seq(Nat)
        BY <1>1 DEF SomeOf
      <4>3. j + 1 \in DOMAIN was
        BY <4>2 DEF Indices
      <4> QED BY <2>8, <4>1, <4>3 DEF ToSet
    <3>2. i \in n.modifications <=> IndexIn(table, r) \in RowsChanged(next, touched)
      BY <2>1, <2>8
    <3> HIDE DEF r
    <3>3. IndexIn(table, r) \in RowsChanged(next, touched)
            <=> r \in row_did_change(columns, A \cup touched, stay)
      <4>1. row_did_change(columns, A \cup touched, stay) \subseteq ToSet(table)
        BY <1>2, <2>4, <2>5
      <4> QED BY <1>2, <2>3, <2>7, <3>1, <4>1
    <3>4. r \in row_did_change(columns, A \cup touched, stay)
            <=> r \in A \/ HasChanged(columns, touched, r)
      BY <1>2, <2>4, <2>5, <2>6, <3>1
    <3>5. r \in M \cup far <=> r \in A \/ HasChanged(columns, touched, r)
      BY <1>2, <2>2, <3>1
    <3> QED BY <3>2, <3>3, <3>4, <3>5 DEF r
  <2> HIDE DEF M, far
  <2> QED BY <2>8 DEF FollowsModifications, n, was, M, far
<1>4. CASE observed.query = "none"
  <2>1. next = << >>
    BY <1>1, <1>4
  <2>2. Indices(next) = {}
    BY <2>1 DEF Indices
  <2> QED BY <2>2 DEF FollowsModifications
<1>5. CASE observed.query # "none" /\ info = NoChanges /\ touched = {}
  <2>1. n = NoChanges
    BY <1>5 DEF runQuery
  <2>2. far = {}
    BY <1>5 DEF HasChanged
  <2>3. \A e \in ToSet(table) : e \notin M
    <3>1. RecordsTable(NoChanges, start, table, M)
      BY <1>5 DEF TableInv
    <3>2. NoChanges.modifications = {}
      BY DEF NoChanges
    <3>3. \A i \in Indices(table) : table[i + 1] \notin M
      BY <3>1, <3>2 DEF RecordsTable
    <3> SUFFICES ASSUME NEW k \in DOMAIN table PROVE table[k] \notin M
      BY DEF ToSet
    <3>4. k - 1 \in Indices(table) /\ (k - 1) + 1 = k
      <4>1. table \in Seq(Nat) /\ k \in DOMAIN table
        OBVIOUS
      <4> QED BY ONLY <4>1 DEF Indices
    <3> HIDE DEF M
    <3> QED BY <3>3, <3>4
  <2>4. \A i \in Indices(next) : next[i + 1] \in ToSet(next)
    <3>1. \A i \in Indices(next) : i + 1 \in DOMAIN next
      BY <1>2 DEF Indices
    <3> QED BY <3>1 DEF ToSet
  <2>5. \A i \in Indices(next) : i \notin NoChanges.modifications /\ next[i + 1] \notin M \cup far
    BY <1>2, <2>2, <2>3, <2>4 DEF NoChanges
  <2> HIDE DEF M, far
  <2>6. FollowsModifications(NoChanges, was, next, M \cup far)
    BY <2>5 DEF FollowsModifications
  <2> QED BY <2>1, <2>6 DEF M, far
<1> QED BY <1>3, <1>4, <1>5

(* What waits for a callback tells the modifications since it was shown    *)
(* something last: of all entries but those that are new to it, which an   *)
(* entry that was away in between is, modified or not.                     *)
TrackInv ==
  /\ DOMAIN changed = Notifiers
  /\ \A n \in Notifiers : Strayed(n) \/ Tracks(accumulated[n], found[n], changed[n])

(* The worker has not run, and no callback was called. *)
LEMMA TrackKept ==
  ASSUME TrackInv, UNCHANGED <<observed, found, accumulated, changed>>, strayed \subseteq strayed'
  PROVE  TrackInv'
<1>1. Notifiers' = Notifiers
  BY DEF Notifiers, Lists
<1>2. \A n : Strayed(n) => Strayed(n)'
  BY DEF Strayed
<1> QED BY <1>1, <1>2 DEF TrackInv

(* The change sets of a list, or of the query, when the worker runs: what  *)
(* waits for the callback and what is added.                               *)
LEMMA RunsOfList ==
  ASSUME IInv, TrackInv, NEW l \in Lists, ~ Strayed(l), NEW touched
  PROVE  Tracks(merge(accumulated[l], runList(l, touched)), contents[l],
                changed[l] \cup (modified[l] \cup
                  {o \in ToSet(contents[l]) : HasChanged(columns, touched, o)}))
<1> DEFINE a == accumulated[l]
           n == runList(l, touched)
           old == shown[l]
           mid == found[l]
           new == contents[l]
           M1 == changed[l]
           M2 == modified[l] \cup {o \in ToSet(contents[l]) : HasChanged(columns, touched, o)}
<1>1. GoodList(l)
  BY IInvParts
<1>2. ListInv(l) /\ RecordedInv(l) /\ ToldInv(l)
  BY <1>1 DEF GoodList
<1>3. /\ old \in Seq(Nat) /\ Distinct(old) /\ mid \in Seq(Nat) /\ Distinct(mid)
      /\ new \in Seq(Nat)
  BY <1>2 DEF ListInv, Entries
<1>4. a \in ChangeSets /\ Leads(a, old, mid) /\ MovesAreMoves(a, old, mid)
  BY <1>2 DEF ToldInv, Tells
<1>5. n \in ChangeSets /\ Leads(n, mid, new) /\ MovesAreMoves(n, mid, new)
  BY <1>2, ListRuns DEF Tells
<1>6. Tracks(a, mid, M1)
  BY DEF TrackInv, Notifiers
<1>7. FollowsModifications(n, mid, new, M2)
  BY <1>2, ListTells
<1> HIDE DEF a, n, old, mid, new, M1, M2
<1>8. Tracks(merge(a, n), new, M1 \cup M2)
  BY <1>3, <1>4, <1>5, <1>6, <1>7, MergeTracks
<1> QED BY <1>8 DEF a, n, new, M1, M2

LEMMA RunsOfQuery ==
  ASSUME IInv, TableInv, QueryInv, TrackInv, ~ Strayed(Query), NEW touched, NEW next \in Find(touched)
  PROVE  Tracks(merge(accumulated[Query], runQuery(next, touched)), next,
                changed[Query] \cup (modified[Query] \cup
                  {o \in ToSet(next) : HasChanged(columns, touched, o)}))
<1> DEFINE a == accumulated[Query]
           n == runQuery(next, touched)
           old == shown[Query]
           mid == found[Query]
           M1 == changed[Query]
           M2 == modified[Query] \cup {o \in ToSet(next) : HasChanged(columns, touched, o)}
<1>1. table \in Seq(Nat) /\ start \in Seq(Nat)
  BY RowsAreNumbers
<1>2. /\ old \in Seq(Nat) /\ Distinct(old) /\ SomeOf(start, mid)
      /\ a \in ChangeSets /\ Leads(a, old, mid) /\ MovesAreMoves(a, old, mid)
  BY DEF QueryInv
<1>3. mid \in Seq(Nat) /\ Distinct(mid) /\ next \in Seq(Nat)
  BY <1>1, <1>2, QueryFinds DEF SomeOf
<1>4. n \in ChangeSets /\ Leads(n, mid, next) /\ MovesAreMoves(n, mid, next)
  BY <1>1, QueryLeads
<1>5. Tracks(a, mid, M1)
  BY DEF TrackInv, Notifiers
<1>6. FollowsModifications(n, mid, next, M2)
  BY <1>1, QueryTells
<1> HIDE DEF a, n, old, mid, M1, M2
<1>7. Tracks(merge(a, n), next, M1 \cup M2)
  BY <1>2, <1>3, <1>4, <1>5, <1>6, MergeTracks
<1> QED BY <1>7 DEF a, n, M1, M2

(* The worker runs. *)
LEMMA TrackRuns ==
  ASSUME IInv, TableInv, QueryInv, TrackInv, NEW touched, NEW next \in Find(touched),
         Run(next, touched)
  PROVE  TrackInv'
<1> DEFINE now == AllFound(next)
<1>1. /\ accumulated' = [n \in Notifiers |->
            merge(accumulated[n], IF n = Query THEN runQuery(next, touched) ELSE runList(n, touched))]
      /\ found' = now
      /\ changed' = [n \in Notifiers |->
            changed[n] \cup modified[n] \cup {o \in ToSet(now[n]) : HasChanged(columns, touched, o)}]
      /\ UNCHANGED <<observed, strayed>>
  BY DEF Run
<1>2. Query \notin Lists
  BY IInvParts DEF NamesInv
<1>3. /\ now[Query] = next /\ Query \in Notifiers
      /\ \A l \in Lists : now[l] = contents[l] /\ l \in Notifiers
  BY <1>2 DEF AllFound, Notifiers
<1>4. Notifiers' = Notifiers /\ DOMAIN changed' = Notifiers
  BY <1>1 DEF Notifiers, Lists
<1> HIDE DEF now
<1>5. ASSUME NEW n \in Notifiers PROVE (Strayed(n) \/ Tracks(accumulated[n], found[n], changed[n]))'
  <2>1. CASE Strayed(n)
    BY <1>1, <2>1 DEF Strayed
  <2>2. CASE ~ Strayed(n) /\ n = Query
    <3>1. /\ accumulated'[n] = merge(accumulated[Query], runQuery(next, touched))
          /\ found'[n] = next
          /\ changed'[n] = changed[Query] \cup (modified[Query] \cup
                             {o \in ToSet(next) : HasChanged(columns, touched, o)})
      BY <1>1, <1>3, <2>2
    <3> QED BY <2>2, <3>1, RunsOfQuery
  <2>3. CASE ~ Strayed(n) /\ n \in Lists
    <3>1. /\ accumulated'[n] = merge(accumulated[n], runList(n, touched))
          /\ found'[n] = contents[n]
          /\ changed'[n] = changed[n] \cup (modified[n] \cup
                             {o \in ToSet(contents[n]) : HasChanged(columns, touched, o)})
      BY <1>1, <1>2, <1>3, <2>3
    <3> QED BY <2>3, <3>1, RunsOfList
  <2> QED BY <2>1, <2>2, <2>3 DEF Notifiers
<1> QED BY <1>4, <1>5 DEF TrackInv

(* A callback is called. *)
LEMMA TrackDelivered ==
  ASSUME IInv, QueryInv, TrackInv, NEW n \in Notifiers, Deliver(n)
  PROVE  TrackInv'
<1>1. /\ accumulated' = [accumulated EXCEPT ![n] = NoChanges]
      /\ changed' = [changed EXCEPT ![n] = {}]
      /\ UNCHANGED <<observed, found, strayed>>
  BY DEF Deliver
<1>2. DOMAIN accumulated = Notifiers /\ DOMAIN changed = Notifiers
  BY IInvParts DEF NamesInv, TrackInv
<1>3. Notifiers' = Notifiers
  BY <1>1 DEF Notifiers, Lists
<1>4. Tracks(NoChanges, found[n], {})
  BY DEF Tracks, NoChanges
<1>5. ASSUME NEW m \in Notifiers PROVE (Strayed(m) \/ Tracks(accumulated[m], found[m], changed[m]))'
  <2>1. Strayed(m) => Strayed(m)'
    BY <1>1 DEF Strayed
  <2>2. CASE m = n
    BY <1>1, <1>2, <1>4, <2>2
  <2>3. CASE m # n
    <3>1. accumulated'[m] = accumulated[m] /\ changed'[m] = changed[m]
      BY <1>1, <1>2, <2>3
    <3> QED BY <1>1, <2>1, <3>1 DEF TrackInv
  <2> QED BY <2>2, <2>3
<1> QED BY <1>1, <1>2, <1>3, <1>5 DEF TrackInv

(* However often the worker runs before a callback is called.              *)
THEOREM TrackInvariance == Spec => []TrackInv
<1>1. Init => TrackInv
  <2> SUFFICES ASSUME NEW s \in Scenarios, Begin(s) PROVE TrackInv
    BY DEF Init
  <2>1. /\ accumulated = [n \in Notifiers |-> NoChanges]
        /\ changed = [n \in Notifiers |-> {}]
    BY DEF Begin
  <2>2. \A n : Tracks(NoChanges, found[n], {})
    BY DEF Tracks, NoChanges
  <2> QED BY <2>1, <2>2 DEF TrackInv
<1>2. IInv /\ TableInv /\ QueryInv /\ TrackInv /\ [Next]_vars => TrackInv'
  <2> SUFFICES ASSUME IInv, TableInv, QueryInv, TrackInv, [Next]_vars PROVE TrackInv'
    OBVIOUS
  <2>1. CASE UNCHANGED <<observed, found, accumulated, changed, strayed>>
    BY <2>1, TrackKept
  <2>2. ASSUME NEW t, NEW followed, Rows(t, followed) PROVE TrackInv'
    BY <2>2, TrackKept DEF Rows
  <2>3. ASSUME NEW l, NEW entries, NEW set, NEW recorded, Change(l, entries, set, recorded)
        PROVE  TrackInv'
    BY <2>3, TrackKept DEF Change
  <2>4. CASE \/ \E match \in BOOLEAN : insert_empty_rows(match)
             \/ \E row \in Indices(table) : erase_rows(row)
             \/ clear_table
    <3>1. \E t, followed : Rows(t, followed)
      BY <2>4 DEF insert_empty_rows, erase_rows, clear_table
    <3> QED BY <2>2, <3>1
  <2>5. CASE \E match \in BOOLEAN, row \in Indices(table) : mark_dirty(row, match)
    BY <2>1, <2>5 DEF mark_dirty
  <2>6. ASSUME NEW l \in Lists \cap ToSet(table),
               \/ \E i \in 0 .. Len(contents[l]) : link_list_insert(l, i)
               \/ \E i \in Indices(contents[l]) :
                    \/ link_list_erase(l, i)
                    \/ link_list_set(l, i)
                    \/ \E j \in Indices(contents[l]) :
                         link_list_move(l, i, j) \/ link_list_swap(l, i, j)
               \/ link_list_clear(l)
        PROVE  TrackInv'
    <3>1. \E entries, set, recorded : Change(l, entries, set, recorded)
      BY <2>6 DEF link_list_insert, link_list_erase, link_list_set, link_list_move,
                  link_list_swap, link_list_clear
    <3> QED BY <2>3, <3>1
  <2>7. ASSUME NEW touched, NEW next \in Find(touched), Run(next, touched) PROVE TrackInv'
    BY <2>7, TrackRuns
  <2>8. CASE \E n \in Notifiers : Deliver(n)
    BY <2>8, TrackDelivered
  <2>9. CASE UNCHANGED vars
    BY <2>1, <2>9 DEF vars
  <2> QED BY <2>4, <2>5, <2>6, <2>7, <2>8, <2>9 DEF Next
<1> QED BY <1>1, <1>2, Invariance, TableInvariance, QueryInvariance, PTL DEF Spec

(* The entries that are not inserted are those of both versions, but for   *)
(* the inserted.                                                           *)
LEMMA KeptAre ==
  ASSUME NEW c \in ChangeSets, NEW E, NEW old \in Seq(E), NEW new \in Seq(E), Distinct(new),
         Leads(c, old, new)
  PROVE  {new[i + 1] : i \in Indices(new) \ c.insertions}
           = (ToSet(old) \cap ToSet(new)) \ At(new, c.insertions)
<1> DEFINE I == c.insertions
           D == c.deletions
<1>0. D \in IndexSets /\ I \in IndexSets
  BY DEF ChangeSets
<1>1. FollowsIndices(D, I, old, new)
  BY <1>0, LeadsIsFollowing
<1> HIDE DEF I, D
<1>2. /\ \A i \in Indices(new) : new[i + 1] \in ToSet(new)
      /\ \A j \in Indices(old) : old[j + 1] \in ToSet(old)
  <2>1. /\ \A i \in Indices(new) : i + 1 \in DOMAIN new
        /\ \A j \in Indices(old) : j + 1 \in DOMAIN old
    BY DEF Indices
  <2> QED BY <2>1 DEF ToSet
<1>3. \A x \in ToSet(new) : \E i \in Indices(new) : x = new[i + 1]
  <2> SUFFICES ASSUME NEW k \in DOMAIN new PROVE \E i \in Indices(new) : new[k] = new[i + 1]
    BY DEF ToSet
  <2>1. k - 1 \in Indices(new) /\ (k - 1) + 1 = k
    BY DEF Indices
  <2> QED BY <2>1
<1>4. \A i, k \in Indices(new) : new[i + 1] = new[k + 1] => i = k
  BY DistinctIndices
<1>5. \A x : x \in At(new, I) <=> \E i \in I \cap Indices(new) : x = new[i + 1]
  BY DEF At
<1>6. ASSUME NEW i \in Indices(new) \ I
      PROVE  new[i + 1] \in (ToSet(old) \cap ToSet(new)) \ At(new, I)
  <2>1. Before(D, I, i) \in Indices(old) /\ old[Before(D, I, i) + 1] = new[i + 1]
    BY <1>0, <1>1, KeptEntries
  <2>2. new[i + 1] \in ToSet(old)
    BY <1>2, <2>1
  <2>3. new[i + 1] \notin At(new, I)
    BY <1>4, <1>5
  <2> QED BY <1>2, <2>2, <2>3
<1>7. ASSUME NEW x \in ToSet(new), x \notin At(new, I)
      PROVE  \E i \in Indices(new) \ I : x = new[i + 1]
  BY <1>3, <1>5, <1>7
<1> QED BY <1>6, <1>7 DEF I

(* What is waiting for a callback says what its notifier has found.        *)
LEMMA Waiting ==
  ASSUME IInv, QueryInv, NEW n \in Notifiers, ~ Strayed(n)
  PROVE  /\ shown[n] \in Seq(Nat) /\ found[n] \in Seq(Nat) /\ Distinct(found[n])
         /\ accumulated[n] \in ChangeSets /\ Leads(accumulated[n], shown[n], found[n])
<1>1. CASE n = Query
  BY <1>1 DEF QueryInv, SomeOf
<1>2. CASE n \in Lists
  <2>1. GoodList(n)
    BY <1>2, IInvParts
  <2>2. ListInv(n) /\ ToldInv(n)
    BY <2>1 DEF GoodList
  <2> QED BY <2>2 DEF ListInv, Entries, ToldInv, Tells
<1> QED BY <1>1, <1>2 DEF Notifiers

(* What an observer of a list or of a query is handed tells exactly which  *)
(* of the entries he was shown, and is shown again, have been modified, or *)
(* link to what has, of however many runs of the worker it is merged. An   *)
(* entry that has been moved may be among the insertions; then it is one   *)
(* of them, and not told as modified (ModificationsAreTold).               *)
THEOREM ModificationsAreToldHolds == Spec => []ModificationsAreTold
<1>1. ASSUME IInv, QueryInv, TrackInv, NEW n \in Notifiers, ~ Strayed(n)
      PROVE  LET told == finalize(accumulated[n])
                 kept == (ToSet(shown[n]) \cap ToSet(found[n])) \ At(found[n], told.insertions)
             IN  /\ At(shown[n], told.modifications) = kept \cap changed[n]
                 /\ At(found[n], told.modifications_new) = kept \cap changed[n]
  <2> DEFINE a == accumulated[n]
             old == shown[n]
             new == found[n]
             M == changed[n]
             told == finalize(a)
             kept == {new[i + 1] : i \in Indices(new) \ told.insertions}
  <2>1. /\ old \in Seq(Nat) /\ new \in Seq(Nat) /\ Distinct(new)
        /\ a \in ChangeSets /\ Leads(a, old, new)
    BY <1>1, Waiting
  <2>2. Tracks(a, new, M)
    BY <1>1 DEF TrackInv
  <2> HIDE DEF a, old, new, M
  <2>3. told.insertions = a.insertions
    BY DEF finalize
  <2>4. \A i \in Indices(new) \ a.insertions : i \in a.modifications <=> new[i + 1] \in M
    BY <2>2 DEF Tracks
  <2>5. At(old, told.modifications) = kept \cap M /\ At(new, told.modifications_new) = kept \cap M
    <3>1. TellsModified(told, old, new, M)
      BY ONLY <2>1, <2>4, SameModifications
    <3> QED BY <3>1 DEF TellsModified
  <2>6. kept = (ToSet(old) \cap ToSet(new)) \ At(new, told.insertions)
    BY <2>1, <2>3, KeptAre
  <2> HIDE DEF told, kept
  <2> QED BY <2>5, <2>6 DEF told, a, old, new, M
<1>2. IInv /\ QueryInv /\ TrackInv => ModificationsAreTold
  BY <1>1 DEF ModificationsAreTold
<1> QED BY <1>2, Invariance, QueryInvariance, TrackInvariance, PTL
=============================================================================
