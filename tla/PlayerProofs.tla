---------------------------- MODULE PlayerProofs ----------------------------
(***************************************************************************)
(* The tables stay well formed, and a transaction is open between calls    *)
(* only after a failed commit, for every set of names, races and stats.    *)
(* And the data layer implements the book of players: every step of        *)
(* PlayerStore is a step of PlayerBook or changes nothing in it. What has  *)
(* to be shown for that is that following links and looking up primary     *)
(* keys in the tables after Put and Remove gives what the book says.       *)
(*                                                                         *)
(* The second part is about the percentage displayed of a player's stats   *)
(* (StatsUtil, MatchTally): what the two roundings of binary64 may do to   *)
(* wins / total * 100, for every pair of fewer than 2 ^ 44 matches. Long   *)
(* division, rounding and the product by 100 are each shown to be within   *)
(* half a unit of the last place of what they approximate; the errors      *)
(* together are less than the distance from 100 * wins / total to the next *)
(* whole number, unless it is one itself.                                  *)
(***************************************************************************)
EXTENDS PlayerStore, MatchTally, WellFoundedInduction, NaturalsInduction, TLAPS

(* The row found by a name is in the table and has that name. *)
LEMMA RowOfFinds ==
  ASSUME NEW rows, NEW n \in NamesOf(rows)
  PROVE  RowOf(rows, n) \in DOMAIN rows /\ rows[RowOf(rows, n)].name = n
  BY DEF NamesOf, RowOf

(* Tables are well formed when their rows and links are. *)
LEMMA TablesFromParts ==
  ASSUME NEW r \in Seq(Row), NEW s \in Seq(StatsVals),
         NamesUnique(r),
         \A i \in DOMAIN r : r[i].stats \in DOMAIN s,
         \A i, j \in DOMAIN r : r[i].stats = r[j].stats => i = j
  PROVE  /\ [players |-> r, stats |-> s] \in Tables
         /\ WellFormed([players |-> r, stats |-> s])
<1> DEFINE t == [players |-> r, stats |-> s]
<1>1. t.players = r /\ t.stats = s
  OBVIOUS
<1>2. t \in Tables
  BY DEF Tables
<1> HIDE DEF t
<1>3. WellFormed(t)
  BY <1>1 DEF WellFormed, LinksResolve, LinksUnshared
<1> QED BY <1>2, <1>3 DEF t

(* Writing a player keeps the tables typed and well formed: the new stats  *)
(* lie beyond every existing link.                                         *)
LEMMA PutWellFormed ==
  ASSUME NEW t \in Tables, WellFormed(t), NEW p \in Player
  PROVE  Put(t, p) \in Tables /\ WellFormed(Put(t, p))
<1> DEFINE link == Len(t.stats) + 1
           row == [name |-> p.name, race |-> p.race, stats |-> link]
           rows == t.players
           rows2 == PutRow(rows, row)
           stats2 == Append(t.stats, p.stats)
           LinksBelow(r) == \A i \in DOMAIN r : r[i].stats \in 1 .. link - 1
           LinksUpTo(r) == \A i \in DOMAIN r : r[i].stats \in 1 .. link
           LinksOnce(r) == \A i, j \in DOMAIN r : r[i].stats = r[j].stats => i = j
<1>1. /\ rows \in Seq(Row)
      /\ t.stats \in Seq(StatsVals)
      /\ row \in Row
      /\ row.stats = link
      /\ link \in Nat \ {0}
  BY DEF Tables, Row, Player
<1>2. stats2 \in Seq(StatsVals) /\ DOMAIN stats2 = 1 .. link
  <2>1. p.stats \in StatsVals
    BY DEF Player
  <2> QED BY <1>1, <2>1
<1>3. NamesUnique(rows) /\ LinksBelow(rows) /\ LinksOnce(rows)
  BY <1>1 DEF WellFormed, LinksResolve, LinksUnshared
<1>4. Put(t, p) = [players |-> rows2, stats |-> stats2]
  BY DEF Put
<1> HIDE DEF rows, row, link
<1>5. CASE row.name \in NamesOf(rows)
  <2> DEFINE k == RowOf(rows, row.name)
  <2>1. k \in DOMAIN rows /\ rows[k].name = row.name
    BY <1>5, RowOfFinds
  <2> HIDE DEF k
  <2>2. rows2 = [rows EXCEPT ![k] = row]
    BY <1>5 DEF PutRow, k
  <2>3. /\ rows2 \in Seq(Row)
        /\ DOMAIN rows2 = DOMAIN rows
        /\ \A i \in DOMAIN rows : rows2[i] = IF i = k THEN row ELSE rows[i]
    BY <1>1, <2>1, <2>2
  <2> HIDE DEF rows2
  <2>4. NamesUnique(rows2)
    BY <1>3, <2>1, <2>3 DEF NamesUnique
  <2>5. LinksUpTo(rows2) /\ LinksOnce(rows2)
    <3>1. \A i \in DOMAIN rows : rows[i].stats \in 1 .. link - 1
      BY <1>3
    <3>2. LinksUpTo(rows2)
      BY <1>1, <2>3, <3>1
    <3>3. ASSUME NEW i \in DOMAIN rows2, NEW j \in DOMAIN rows2,
                 rows2[i].stats = rows2[j].stats
          PROVE  i = j
      <4>1. CASE i = k \/ j = k
        BY <1>1, <2>3, <3>1, <3>3, <4>1
      <4>2. CASE i # k /\ j # k
        BY <1>3, <2>3, <3>3, <4>2
      <4> QED BY <4>1, <4>2
    <3> QED BY <3>2, <3>3
  <2>6. \A i \in DOMAIN rows2 : rows2[i].stats \in DOMAIN stats2
    BY <1>2, <2>5
  <2>7. LinksOnce(rows2)
    BY <2>5
  <2> HIDE DEF stats2
  <2>8. /\ [players |-> rows2, stats |-> stats2] \in Tables
        /\ WellFormed([players |-> rows2, stats |-> stats2])
    BY <1>2, <2>3, <2>4, <2>6, <2>7, TablesFromParts, Zenon
  <2> QED BY <1>4, <2>8
<1>6. CASE row.name \notin NamesOf(rows)
  <2>1. rows2 = Append(rows, row)
    BY <1>6 DEF PutRow
  <2> HIDE DEF rows2
  <2>2. /\ rows2 \in Seq(Row)
        /\ DOMAIN rows = 1 .. Len(rows) /\ Len(rows) \in Nat
        /\ DOMAIN rows2 = 1 .. Len(rows) + 1
        /\ \A i \in DOMAIN rows : rows2[i] = rows[i]
        /\ rows2[Len(rows) + 1] = row
    BY <1>1, <2>1
  <2>3. \A i \in DOMAIN rows : rows[i].name # row.name
    BY <1>6 DEF NamesOf
  <2>4. NamesUnique(rows2)
    BY <1>3, <2>2, <2>3 DEF NamesUnique
  <2>5. LinksUpTo(rows2) /\ LinksOnce(rows2)
    BY <1>1, <1>3, <2>2
  <2>6. \A i \in DOMAIN rows2 : rows2[i].stats \in DOMAIN stats2
    BY <1>2, <2>5
  <2>7. LinksOnce(rows2)
    BY <2>5
  <2> HIDE DEF stats2
  <2>8. /\ [players |-> rows2, stats |-> stats2] \in Tables
        /\ WellFormed([players |-> rows2, stats |-> stats2])
    BY <1>2, <2>2, <2>4, <2>6, <2>7, TablesFromParts, Zenon
  <2> QED BY <1>4, <2>8
<1> QED BY <1>5, <1>6

(* Deleting a stored player keeps the tables typed and well formed: the    *)
(* last row takes over its place, with its name and its link.              *)
LEMMA RemoveWellFormed ==
  ASSUME NEW t \in Tables, WellFormed(t), NEW n \in StoredNames(t)
  PROVE  Remove(t, n) \in Tables /\ WellFormed(Remove(t, n))
<1> DEFINE rows == t.players
           objects == t.stats
           k == RowOf(rows, n)
           rows2 == DropRow(rows, n)
<1>1. /\ rows \in Seq(Row)
      /\ objects \in Seq(StatsVals)
      /\ n \in NamesOf(rows)
  BY DEF Tables, StoredNames
<1>2. /\ NamesUnique(rows)
      /\ \A i \in DOMAIN rows : rows[i].stats \in DOMAIN objects
      /\ \A i, j \in DOMAIN rows : rows[i].stats = rows[j].stats => i = j
  BY DEF WellFormed, LinksResolve, LinksUnshared
<1>3. Remove(t, n) = [players |-> rows2, stats |-> objects]
  BY DEF Remove, Tables
<1> HIDE DEF rows, objects
<1>4. DOMAIN rows = 1 .. Len(rows) /\ Len(rows) \in Nat
  BY <1>1
<1>5. k \in 1 .. Len(rows)
  BY <1>1, <1>4, RowOfFinds
<1> HIDE DEF k
<1>6. rows2 = [j \in 1 .. Len(rows) - 1 |->
                  IF j = k THEN rows[Len(rows)] ELSE rows[j]]
  BY DEF DropRow, MoveLastOver, k
<1>7. /\ DOMAIN rows2 = 1 .. Len(rows) - 1
      /\ \A j \in DOMAIN rows2 :
            rows2[j] = IF j = k THEN rows[Len(rows)] ELSE rows[j]
  BY <1>6
<1>8. rows2 \in Seq(Row)
  <2>1. \A j \in 1 .. Len(rows) - 1 :
           (IF j = k THEN rows[Len(rows)] ELSE rows[j]) \in Row
    BY <1>1, <1>4, <1>5
  <2>2. Len(rows) - 1 \in Nat
    BY <1>4, <1>5
  <2> QED BY <1>6, <2>1, <2>2
<1> HIDE DEF rows2
<1>9. NamesUnique(rows2)
  BY <1>2, <1>4, <1>5, <1>7 DEF NamesUnique
<1>10. \A i \in DOMAIN rows2 : rows2[i].stats \in DOMAIN objects
  BY <1>2, <1>4, <1>5, <1>7
<1>11. \A i, j \in DOMAIN rows2 : rows2[i].stats = rows2[j].stats => i = j
  BY <1>2, <1>4, <1>5, <1>7
<1> QED
  BY <1>1, <1>3, <1>8, <1>9, <1>10, <1>11, TablesFromParts

-----------------------------------------------------------------------------
(* The invariant holds initially. *)
LEMMA InitIInv == Init => IInv
<1> SUFFICES ASSUME Init PROVE IInv
  OBVIOUS
<1>1. TypeOK
  <2>1. << >> \in Seq(Row) /\ << >> \in Seq(StatsVals)
    OBVIOUS
  <2>2. NoTables \in Tables
    BY <2>1 DEF NoTables, Tables
  <2> QED BY <2>2 DEF Init, TypeOK
<1>2. TablesWellFormed
  BY DEF Init, NoTables, TablesWellFormed, WellFormed, NamesUnique,
         LinksResolve, LinksUnshared
<1>3. CallInv
  BY DEF Init, CallInv, FoundIfDelete
<1> QED BY <1>1, <1>2, <1>3 DEF IInv

(* What a call carries. *)
LEMMA CallFields ==
  ASSUME NEW c \in Call
  PROVE  /\ c.op \in {"save", "update", "delete"}
         /\ c.op \in {"save", "update"} => c.player \in Player
         /\ c.op = "delete" => c.name \in Names
         /\ c # NoCall
  BY NoCallAssumption DEF Call

(* Every step keeps the invariant, one action at a time. *)
LEMMA NextIInv == IInv /\ [Next]_vars => IInv'
<1> SUFFICES ASSUME IInv, [Next]_vars PROVE IInv'
  OBVIOUS
<1> USE DEF IInv
<1>0. NoCall \notin Call
  BY NoCallAssumption DEF Call
<1>1. ASSUME NEW p \in Player, savePlayer(p) PROVE IInv'
  <2>1. [op |-> "save", player |-> p] \in Call
    BY DEF Call
  <2> QED
    BY <1>0, <1>1, <2>1 DEF savePlayer, Start, TypeOK, TablesWellFormed, CallInv, FoundIfDelete
<1>2. ASSUME NEW p \in Player, updatePlayer(p) PROVE IInv'
  <2>1. [op |-> "update", player |-> p] \in Call
    BY DEF Call
  <2> QED
    BY <1>0, <1>2, <2>1 DEF updatePlayer, Start, TypeOK, TablesWellFormed, CallInv, FoundIfDelete
<1>3. ASSUME NEW n \in Names, deletePlayer(n) PROVE IInv'
  <2>1. [op |-> "delete", name |-> n] \in Call
    BY DEF Call
  <2> QED
    BY <1>0, <1>3, <2>1 DEF deletePlayer, Start, TypeOK, TablesWellFormed, CallInv, FoundIfDelete
<1>4. CASE DeleteMissing
  BY <1>4 DEF DeleteMissing, Return, TypeOK, TablesWellFormed, CallInv, FoundIfDelete
<1>5. CASE beginWrite
  BY <1>5 DEF beginWrite, TypeOK, TablesWellFormed, CallInv, FoundIfDelete
<1>6. CASE beginWriteInTransaction
  BY <1>6 DEF beginWriteInTransaction, End, TypeOK, TablesWellFormed, CallInv
<1>7. CASE addDuplicate
  BY <1>7 DEF addDuplicate, End, TypeOK, TablesWellFormed, CallInv
<1>8. ASSUME addNew \/ addOrUpdate PROVE IInv'
  <2>1. /\ at = "modify" /\ at' = "commit"
        /\ call.op \in {"save", "update"}
        /\ view' = Put(view, call.player)
        /\ UNCHANGED <<disk, stage, call, outcome, failed>>
    BY <1>8 DEF addNew, addOrUpdate
  <2>2. call.player \in Player
    BY <2>1, CallFields DEF TypeOK, CallInv
  <2>3. view' \in Tables /\ WellFormed(view')
    BY <2>1, <2>2, PutWellFormed DEF TypeOK, TablesWellFormed
  <2> QED
    BY <2>1, <2>3 DEF TypeOK, TablesWellFormed, CallInv
<1>9. CASE remove
  <2>1. /\ at = "modify" /\ at' = "commit"
        /\ call.name \in StoredNames(view)
        /\ view' = Remove(view, call.name)
        /\ UNCHANGED <<disk, stage, call, outcome, failed>>
    BY <1>9 DEF remove, CallInv, FoundIfDelete
  <2>2. view' \in Tables /\ WellFormed(view')
    BY <2>1, RemoveWellFormed DEF TypeOK, TablesWellFormed
  <2> QED
    BY <2>1, <2>2 DEF TypeOK, TablesWellFormed, CallInv
<1>10. CASE commitWrite
  BY <1>10 DEF commitWrite, Return, TypeOK, TablesWellFormed, CallInv
<1>11. CASE commitWriteFails
  BY <1>11 DEF commitWriteFails, Return, TypeOK, TablesWellFormed, CallInv
<1>12. CASE Kill
  BY <1>12 DEF Kill, End, TypeOK, TablesWellFormed, CallInv
<1>13. CASE Launch
  BY <1>13 DEF Launch, TypeOK, TablesWellFormed, CallInv
<1>14. CASE UNCHANGED vars
  BY <1>14 DEF vars, TypeOK, TablesWellFormed, CallInv, FoundIfDelete
<1> QED
  BY <1>1, <1>2, <1>3, <1>4, <1>5, <1>6, <1>7, <1>8, <1>9, <1>10, <1>11,
     <1>12, <1>13, <1>14 DEF Next

(* The invariant of the data layer. *)
THEOREM Invariance == Spec => []IInv
<1>1. Init => IInv
  BY InitIInv
<1>2. IInv /\ [Next]_vars => IInv'
  BY NextIInv
<1> QED BY <1>1, <1>2, PTL DEF Spec

(* Type correctness. *)
THEOREM TypeCorrect == Spec => []TypeOK
<1>1. IInv => TypeOK
  BY DEF IInv
<1> QED BY Invariance, <1>1, PTL

(* Whatever fails and whenever the process ends, names stay unique, every  *)
(* stored player has his stats and nobody else has them.                   *)
THEOREM TablesStayWellFormed == Spec => []TablesWellFormed
<1>1. IInv => TablesWellFormed
  BY DEF IInv
<1> QED BY Invariance, <1>1, PTL

(* A transaction is open between calls exactly when a commit of this       *)
(* launch has failed; otherwise the app sees what is stored.               *)
THEOREM OpenOnlyAfterFailureHolds == Spec => []OpenOnlyAfterFailure
<1>1. IInv => OpenOnlyAfterFailure
  BY DEF IInv, CallInv, TypeOK, OpenOnlyAfterFailure
<1> QED BY Invariance, <1>1, PTL

-----------------------------------------------------------------------------
(* The book of players.                                                    *)

(* With a primary key, a row is found by its own name. *)
LEMMA RowOfItsName ==
  ASSUME NEW rows, NamesUnique(rows), NEW i \in DOMAIN rows
  PROVE  rows[i].name \in NamesOf(rows) /\ RowOf(rows, rows[i].name) = i
<1>1. rows[i].name \in NamesOf(rows)
  BY DEF NamesOf
<1>2. /\ RowOf(rows, rows[i].name) \in DOMAIN rows
      /\ rows[RowOf(rows, rows[i].name)].name = rows[i].name
  BY <1>1, RowOfFinds
<1> QED BY <1>1, <1>2 DEF NamesUnique

(* A stored race is one of the four, so its raw value stands for itself.   *)
LEMMA RaceSurvives ==
  ASSUME NEW race \in Races
  PROVE  RaceFromRaw(race) = race
  BY RacesAssumption DEF RaceFromRaw

(* What is loaded after writing a player: him as written, all others as    *)
(* before.                                                                 *)
LEMMA PutLoads ==
  ASSUME NEW t \in Tables, WellFormed(t), NEW p \in Player
  PROVE  /\ StoredNames(Put(t, p)) = StoredNames(t) \cup {p.name}
         /\ LoadPlayer(Put(t, p), p.name) = p
         /\ \A n \in StoredNames(t) \ {p.name} :
               LoadPlayer(Put(t, p), n) = LoadPlayer(t, n)
<1> DEFINE rows == t.players
           objects == t.stats
           link == Len(objects) + 1
           row == [name |-> p.name, race |-> p.race, stats |-> link]
           rows2 == PutRow(rows, row)
           objects2 == Append(objects, p.stats)
           k == IF row.name \in NamesOf(rows) THEN RowOf(rows, row.name)
                                              ELSE Len(rows) + 1
<1>1. /\ rows \in Seq(Row)
      /\ objects \in Seq(StatsVals)
      /\ row.name = p.name /\ row.race = p.race /\ row.stats = link
      /\ p.race \in Races
      /\ p = [name |-> p.name, race |-> p.race, stats |-> p.stats]
      /\ row \in Row
      /\ link \in Nat \ {0}
  BY DEF Tables, Player, Row
<1>2. Put(t, p).players = rows2 /\ Put(t, p).stats = objects2
  BY DEF Put
<1>3. NamesUnique(rows) /\ \A i \in DOMAIN rows : rows[i].stats \in 1 .. link - 1
  BY <1>1 DEF WellFormed, LinksResolve
<1>4. NamesUnique(rows2)
  BY <1>2, PutWellFormed DEF WellFormed
<1>5. objects2[link] = p.stats /\ \A j \in 1 .. link - 1 : objects2[j] = objects[j]
  <2>1. p.stats \in StatsVals
    BY DEF Player
  <2> QED BY <1>1, <2>1
<1> HIDE DEF rows, objects, row, link
<1>6. /\ k \in DOMAIN rows2 /\ rows2[k] = row
      /\ \A i \in DOMAIN rows \ {k} : i \in DOMAIN rows2 /\ rows2[i] = rows[i]
      /\ DOMAIN rows2 = DOMAIN rows \cup {k}
      /\ k \in DOMAIN rows => rows[k].name = row.name
      /\ \A i \in DOMAIN rows : rows[i].name = row.name => i = k
  <2>1. CASE row.name \in NamesOf(rows)
    <3>1. k \in DOMAIN rows /\ rows[k].name = row.name
      BY <2>1, RowOfFinds
    <3>2. rows2 = [rows EXCEPT ![k] = row]
      BY <2>1 DEF PutRow
    <3> QED BY <1>1, <1>3, <3>1, <3>2 DEF NamesUnique
  <2>2. CASE row.name \notin NamesOf(rows)
    <3>1. rows2 = Append(rows, row) /\ k = Len(rows) + 1
      BY <2>2 DEF PutRow
    <3>2. \A i \in DOMAIN rows : rows[i].name # row.name
      BY <2>2 DEF NamesOf
    <3> HIDE DEF rows2, k
    <3>3. /\ DOMAIN rows = 1 .. Len(rows) /\ Len(rows) \in Nat
          /\ DOMAIN rows2 = 1 .. Len(rows) + 1
          /\ rows2[Len(rows) + 1] = row
          /\ \A i \in 1 .. Len(rows) : rows2[i] = rows[i]
      BY <1>1, <3>1
    <3> QED BY <3>1, <3>2, <3>3
  <2> QED BY <2>1, <2>2
<1> HIDE DEF rows2, k
<1>7. RowOf(rows2, p.name) = k
  BY <1>1, <1>4, <1>6, RowOfItsName
<1>8. StoredNames(Put(t, p)) = StoredNames(t) \cup {p.name}
  BY <1>1, <1>2, <1>6 DEF StoredNames, NamesOf, rows
<1>9. LoadPlayer(Put(t, p), p.name) = p
  BY <1>1, <1>2, <1>5, <1>6, <1>7, RaceSurvives DEF LoadPlayer, PlayerAt
<1>10. ASSUME NEW n \in StoredNames(t) \ {p.name}
       PROVE  LoadPlayer(Put(t, p), n) = LoadPlayer(t, n)
  <2> DEFINE i == RowOf(rows, n)
  <2>1. i \in DOMAIN rows /\ rows[i].name = n
    BY RowOfFinds DEF StoredNames, rows
  <2>2. i # k /\ rows2[i] = rows[i] /\ i \in DOMAIN rows2
    BY <1>1, <1>6, <2>1
  <2>3. RowOf(rows2, n) = i
    BY <1>4, <2>1, <2>2, RowOfItsName
  <2>4. objects2[rows[i].stats] = objects[rows[i].stats]
    BY <1>3, <1>5, <2>1
  <2> QED
    BY <1>2, <2>2, <2>3, <2>4 DEF LoadPlayer, PlayerAt, rows, objects
<1> QED BY <1>8, <1>9, <1>10

(* What is loaded after deleting a player: all others, as before, though   *)
(* one of them has moved.                                                  *)
LEMMA RemoveLoads ==
  ASSUME NEW t \in Tables, WellFormed(t), NEW n \in StoredNames(t)
  PROVE  /\ StoredNames(Remove(t, n)) = StoredNames(t) \ {n}
         /\ \A m \in StoredNames(t) \ {n} :
               LoadPlayer(Remove(t, n), m) = LoadPlayer(t, m)
<1> DEFINE rows == t.players
           k == RowOf(rows, n)
           last == Len(rows)
           rows2 == DropRow(rows, n)
           Old(j) == IF j = k THEN last ELSE j
           New(i) == IF i = last THEN k ELSE i
<1>1. rows \in Seq(Row) /\ DOMAIN rows = 1 .. last /\ last \in Nat
  BY DEF Tables
<1>2. k \in 1 .. last /\ rows[k].name = n
  BY <1>1, RowOfFinds DEF StoredNames
<1>3. NamesUnique(rows)
  BY DEF WellFormed
<1>4. Remove(t, n).players = rows2 /\ Remove(t, n).stats = t.stats
  BY DEF Remove, Tables
<1>5. NamesUnique(rows2)
  BY <1>4, RemoveWellFormed DEF WellFormed
<1>6. rows2 = [j \in 1 .. last - 1 |-> IF j = k THEN rows[last] ELSE rows[j]]
  BY DEF DropRow, MoveLastOver
<1> HIDE DEF rows, k, last, rows2
<1>7. /\ DOMAIN rows2 = 1 .. last - 1
      /\ \A j \in 1 .. last - 1 : rows2[j] = rows[Old(j)]
  BY <1>6
<1>8. \A j \in 1 .. last - 1 : Old(j) \in 1 .. last /\ Old(j) # k
  BY <1>1, <1>2
<1>9. \A i \in 1 .. last : i # k => New(i) \in 1 .. last - 1 /\ Old(New(i)) = i
  BY <1>1, <1>2
<1>10. \A i \in 1 .. last : i # k => rows[i].name # n
  BY <1>1, <1>2, <1>3 DEF NamesUnique
<1> HIDE DEF Old, New
<1>11. \A i \in 1 .. last : i # k => rows2[New(i)] = rows[i]
  BY <1>7, <1>9
<1>12. StoredNames(Remove(t, n)) = StoredNames(t) \ {n}
  <2>1. NamesOf(rows2) \subseteq NamesOf(rows) \ {n}
    BY <1>1, <1>7, <1>8, <1>10 DEF NamesOf
  <2>2. NamesOf(rows) \ {n} \subseteq NamesOf(rows2)
    BY <1>1, <1>2, <1>7, <1>9, <1>11 DEF NamesOf
  <2> QED BY <1>4, <2>1, <2>2 DEF StoredNames, rows
<1>13. ASSUME NEW m \in StoredNames(t) \ {n}
       PROVE  LoadPlayer(Remove(t, n), m) = LoadPlayer(t, m)
  <2> DEFINE i == RowOf(rows, m)
  <2>1. i \in 1 .. last /\ rows[i].name = m
    BY <1>1, RowOfFinds DEF StoredNames, rows
  <2>2. i # k
    BY <1>2, <2>1
  <2> HIDE DEF i
  <2>3. New(i) \in DOMAIN rows2 /\ rows2[New(i)] = rows[i]
    BY <1>7, <1>9, <1>11, <2>1, <2>2
  <2>4. RowOf(rows2, m) = New(i)
    BY <1>5, <2>1, <2>3, RowOfItsName
  <2> QED
    BY <1>4, <2>3, <2>4 DEF LoadPlayer, PlayerAt, rows, i
<1> QED BY <1>12, <1>13

-----------------------------------------------------------------------------
(* The book of tables after Put and Remove. *)
LEMMA PutBook ==
  ASSUME NEW t \in Tables, WellFormed(t), NEW p \in Player
  PROVE  BookOf(Put(t, p)) = Book!With(BookOf(t), p)
<1>1. DOMAIN BookOf(t) = StoredNames(t)
  BY DEF BookOf
<1> QED BY <1>1, PutLoads DEF BookOf, Book!With, Book!EntryOf

LEMMA RemoveBook ==
  ASSUME NEW t \in Tables, WellFormed(t), NEW n \in StoredNames(t)
  PROVE  BookOf(Remove(t, n)) = Book!Without(BookOf(t), n)
<1>1. DOMAIN BookOf(t) = StoredNames(t)
  BY DEF BookOf
<1> QED BY <1>1, RemoveLoads DEF BookOf, Book!Without

-----------------------------------------------------------------------------
(* What a transaction is about to store. *)

LEMMA InitCommits == Init => CommitsTheCall
  BY DEF Init, CommitsTheCall

(* Only the three blocks lead to a commit; they start from a view that is  *)
(* what is stored, and nothing but the commit itself changes the latter.   *)
LEMMA NextCommits == IInv /\ CommitsTheCall /\ [Next]_vars => CommitsTheCall'
<1> SUFFICES ASSUME IInv, CommitsTheCall, [Next]_vars, at' = "commit"
             PROVE  CommitsTheCall'
  BY DEF CommitsTheCall
<1>1. at = "modify" => view = disk /\ FoundIfDelete
  BY DEF IInv, CallInv
<1>2. CASE addNew
  BY <1>1, <1>2 DEF addNew, CommitsTheCall
<1>3. CASE addOrUpdate
  BY <1>1, <1>3 DEF addOrUpdate, CommitsTheCall
<1>4. CASE remove
  BY <1>1, <1>4 DEF remove, CommitsTheCall, FoundIfDelete
<1>5. CASE UNCHANGED vars
  BY <1>5 DEF vars, CommitsTheCall
<1> QED
  BY <1>2, <1>3, <1>4, <1>5
     DEF Next, savePlayer, updatePlayer, deletePlayer, Start, DeleteMissing,
         Return, beginWrite, beginWriteInTransaction, addDuplicate, End,
         commitWrite, commitWriteFails, Kill, Launch

(* Every commit stores the call in progress, all of it, and nothing else.  *)
THEOREM CommitsTheCallHolds == Spec => []CommitsTheCall
<1>1. IInv /\ CommitsTheCall /\ [Next]_vars => CommitsTheCall'
  BY NextCommits
<1> QED BY InitCommits, <1>1, Invariance, PTL DEF Spec

-----------------------------------------------------------------------------
(* The refinement. *)

LEMMA InitBook == Init => Book!Init
<1>1. StoredNames(NoTables) = {}
  BY DEF StoredNames, NamesOf, NoTables
<1> QED BY <1>1 DEF Init, Book!Init, StoredBook, BookOf

(* The requests of the book are the calls of the data layer. *)
LEMMA CallsAreRequests == Book!Request = Call
  BY DEF Book!Request, Book!Player, Call, Player

(* Making a call asks for it. *)
LEMMA StartAsks ==
  ASSUME IInv, NEW c \in Call, Start(c)
  PROVE  Book!Next
<1>1. call = NoCall
  BY DEF IInv, TypeOK, CallInv, Start
<1>2. Book!Ask(c)
  BY <1>1 DEF Start, Book!Ask, StoredBook
<1> QED BY <1>2, CallsAreRequests DEF Book!Next

(* The end of the process forgets the call.                                *)
LEMMA EndForgets == End => Book!Next
  BY DEF End, Book!Next, Book!Forget, StoredBook

(* A call that answers onFailed has changed nothing. *)
LEMMA FailureRefuses ==
  ASSUME call # NoCall, Return("failed"), UNCHANGED disk
  PROVE  Book!Next
  BY DEF Return, Book!Next, Book!Refuse, StoredBook

(* A commit carries out the call. *)
LEMMA CommitCarriesOut ==
  ASSUME IInv, CommitsTheCall, commitWrite
  PROVE  Book!Next
<1>1. /\ at = "commit"
      /\ disk' = view
      /\ Book!Done
      /\ call \in Call
      /\ call # NoCall
  BY DEF commitWrite, Return, Book!Done, IInv, TypeOK, CallInv
<1>2. disk \in Tables /\ WellFormed(disk)
  BY DEF IInv, TypeOK, TablesWellFormed
<1>3. DOMAIN StoredBook = StoredNames(disk)
  BY DEF StoredBook, BookOf
<1>4. CASE call.op = "delete"
  <2>1. call.name \in StoredNames(disk) /\ view = Remove(disk, call.name)
    BY <1>1, <1>4 DEF CommitsTheCall
  <2>2. StoredBook' = Book!Without(StoredBook, call.name)
    BY <1>1, <1>2, <2>1, RemoveBook DEF StoredBook
  <2>3. Book!Delete
    BY <1>1, <1>3, <1>4, <2>1, <2>2 DEF Book!Delete
  <2> QED BY <2>3 DEF Book!Next
<1>5. CASE call.op \in {"save", "update"}
  <2>1. call.player \in Player /\ view = Put(disk, call.player)
    BY <1>1, <1>5, CallFields DEF CommitsTheCall
  <2>2. StoredBook' = Book!With(StoredBook, call.player)
    BY <1>1, <1>2, <2>1, PutBook DEF StoredBook
  <2>3. call.op = "save" => call.player.name \notin DOMAIN StoredBook
    BY <1>1, <1>3 DEF CommitsTheCall
  <2>4. Book!Save \/ Book!Update
    BY <1>1, <1>5, <2>2, <2>3 DEF Book!Save, Book!Update
  <2> QED BY <2>4 DEF Book!Next
<1> QED BY <1>1, <1>4, <1>5, CallFields

(* Every step of the data layer is a step of the book or changes nothing   *)
(* in it.                                                                  *)
LEMMA NextBook ==
  IInv /\ CommitsTheCall /\ [Next]_vars => [Book!Next]_(Book!vars)
<1> SUFFICES ASSUME IInv, CommitsTheCall, [Next]_vars
             PROVE  Book!Next \/ UNCHANGED Book!vars
  OBVIOUS
<1>1. ASSUME NEW p \in Player, savePlayer(p) \/ updatePlayer(p)
      PROVE  Book!Next
  <2>1. PICK op \in {"save", "update"} : Start([op |-> op, player |-> p])
    BY <1>1 DEF savePlayer, updatePlayer
  <2>2. [op |-> op, player |-> p] \in Call
    BY DEF Call
  <2> QED BY <2>1, <2>2, StartAsks
<1>2. ASSUME NEW n \in Names, deletePlayer(n) PROVE Book!Next
  <2>1. [op |-> "delete", name |-> n] \in Call
    BY DEF Call
  <2> QED BY <1>2, <2>1, StartAsks DEF deletePlayer
<1>3. CASE DeleteMissing \/ commitWriteFails
  <2>1. call # NoCall
    BY <1>3 DEF DeleteMissing, commitWriteFails, IInv, CallInv
  <2>2. Return("failed") /\ UNCHANGED disk
    BY <1>3 DEF DeleteMissing, commitWriteFails
  <2> QED BY <2>1, <2>2, FailureRefuses
<1>4. CASE beginWriteInTransaction \/ addDuplicate \/ Kill
  BY <1>4, EndForgets DEF beginWriteInTransaction, addDuplicate, Kill
<1>5. CASE commitWrite
  BY <1>5, CommitCarriesOut
<1>6. CASE beginWrite \/ addNew \/ addOrUpdate \/ remove \/ Launch \/ UNCHANGED vars
  <2>1. UNCHANGED <<disk, call, outcome>>
    BY <1>6 DEF beginWrite, addNew, addOrUpdate, remove, Launch, vars
  <2> QED BY <2>1 DEF Book!vars, StoredBook
<1> QED
  BY <1>1, <1>2, <1>3, <1>4, <1>5, <1>6 DEF Next

(* The stored players change only by the call in progress, by the whole of *)
(* it, in one step; a call that answers onFailed has changed nothing.      *)
THEOREM DataLayerImplementsBook == Spec => ImplementsBook
<1>1. IInv /\ CommitsTheCall /\ [Next]_vars => [Book!Next]_(Book!vars)
  BY NextBook
<1> QED
  BY InitBook, <1>1, Invariance, CommitsTheCallHolds, PTL
     DEF Spec, ImplementsBook, Book!Spec

-----------------------------------------------------------------------------
(* What is displayed of a player: the percentage, and how the floating     *)
(* point arithmetic goes about it.                                         *)

(* A set of numbers has a least one. *)
LEMMA LeastNumber ==
  ASSUME NEW T \in SUBSET Nat, T # {}
  PROVE  \E m \in T : \A x \in T : m <= x
<1> DEFINE R == OpToRel(<, Nat)
<1>1. \E m \in T : \A y \in T : ~ (<<y, m>> \in R)
  BY NatLessThanWellFounded, WFMin
<1>2. \A x, y \in Nat : x < y => <<x, y>> \in R
  BY DEF OpToRel
<1>3. \E m \in T : \A y \in T : ~ (y < m)
  BY ONLY <1>1, <1>2, T \subseteq Nat, Zenon
<1> HIDE DEF R
<1> QED BY ONLY <1>3, T \subseteq Nat

(* Induction, for a set of numbers. *)
LEMMA Induction ==
  ASSUME NEW T, 0 \in T, \A n \in Nat : n \in T => n + 1 \in T
  PROVE  Nat \subseteq T
<1> SUFFICES ASSUME Nat \ T # {} PROVE FALSE
  OBVIOUS
<1> PICK m \in Nat \ T : \A x \in Nat \ T : m <= x
  BY LeastNumber
<1> m - 1 \in Nat /\ m - 1 \in T /\ m = (m - 1) + 1
  OBVIOUS
<1> QED OBVIOUS

(* A function whose values follow from one another is there: a recursive   *)
(* definition takes it with CHOOSE.                                        *)
Follows(f, n, first, G) ==
  /\ f[0] = first
  /\ \A k \in 1 .. n : f[k] = G[<<k, f[k - 1]>>]

LEMMA StepsAreThere ==
  ASSUME NEW V, NEW n \in Nat, NEW first \in V, NEW G \in [(1 .. n) \X V -> V]
  PROVE  \E f \in [0 .. n -> V] : Follows(f, n, first, G)
<1> DEFINE There(m) == \E f \in [0 .. m -> V] : Follows(f, m, first, G)
           T == {m \in Nat : m <= n => There(m)}
<1>1. 0 \in T
  <2>1. [k \in 0 .. 0 |-> first] \in [0 .. 0 -> V]
    OBVIOUS
  <2>2. Follows([k \in 0 .. 0 |-> first], 0, first, G)
    BY DEF Follows
  <2> QED BY <2>1, <2>2
<1>2. ASSUME NEW m \in Nat, m \in T PROVE m + 1 \in T
  <2> SUFFICES ASSUME m + 1 <= n PROVE There(m + 1)
    OBVIOUS
  <2>1. PICK f \in [0 .. m -> V] : Follows(f, m, first, G)
    BY <1>2
  <2> DEFINE next == G[<<m + 1, f[m]>>]
             g == [k \in 0 .. m + 1 |-> IF k = m + 1 THEN next ELSE f[k]]
  <2>2. next \in V
    <3>1. m + 1 \in 1 .. n /\ f[m] \in V
      OBVIOUS
    <3> QED BY <3>1
  <2>3. g \in [0 .. m + 1 -> V]
    <3> HIDE DEF next
    <3> QED BY <2>2
  <2>4. g[m + 1] = next /\ \A k \in 0 .. m : g[k] = f[k]
    <3> HIDE DEF next
    <3> QED OBVIOUS
  <2> HIDE DEF g
  <2>5. g[0] = first
    BY <2>1, <2>4 DEF Follows
  <2>6. ASSUME NEW k \in 1 .. m + 1 PROVE g[k] = G[<<k, g[k - 1]>>]
    <3>1. CASE k = m + 1
      <4>1. k - 1 = m /\ g[k - 1] = f[m]
        BY <2>4, <3>1
      <4> QED BY <2>4, <3>1, <4>1
    <3>2. CASE k \in 1 .. m
      <4>1. k \in 0 .. m /\ k - 1 \in 0 .. m
        BY <3>2
      <4> QED BY <2>1, <2>4, <3>2, <4>1 DEF Follows
    <3> QED BY <3>1, <3>2
  <2> QED BY <2>3, <2>5, <2>6 DEF Follows
<1> HIDE DEF T
<1>3. n \in T
  <2>1. Nat \subseteq T
    BY <1>1, <1>2, Induction
  <2> QED BY <2>1
<1> QED BY <1>3 DEF T

(* FromBits, one bit after another: all that is said of the values of      *)
(* Doubles rests on these steps.                                           *)
Bits == {0, 1}

LEMMA FromBitsSteps ==
  ASSUME NEW bits \in Seq(Bits)
  PROVE  /\ FromBits(bits, 0) = 0
         /\ \A k \in 0 .. Len(bits) : FromBits(bits, k) \in Nat
         /\ \A k \in 1 .. Len(bits) : FromBits(bits, k) = 2 * FromBits(bits, k - 1) + bits[k]
<1> DEFINE n == Len(bits)
           G == [p \in (1 .. n) \X Nat |-> 2 * p[2] + bits[p[1]]]
           Is(f) == f = [k \in 0 .. n |-> IF k = 0 THEN 0 ELSE 2 * f[k - 1] + bits[k]]
<1>1. n \in Nat /\ \A k \in 1 .. n : bits[k] \in Bits
  OBVIOUS
<1> HIDE DEF n
<1>2. \A k \in 1 .. n, v \in Nat : 2 * v + bits[k] \in Nat
  BY <1>1 DEF Bits
<1>3. G \in [(1 .. n) \X Nat -> Nat]
  BY <1>2
<1>4. \A k \in 1 .. n, v \in Nat : G[<<k, v>>] = 2 * v + bits[k]
  OBVIOUS
<1> HIDE DEF G
<1>5. PICK f \in [0 .. n -> Nat] : Follows(f, n, 0, G)
  BY <1>1, <1>3, StepsAreThere, 0 \in Nat
<1>6. \A k \in 1 .. n : f[k] = 2 * f[k - 1] + bits[k]
  <2> TAKE k \in 1 .. n
  <2>1. f[k - 1] \in Nat
    BY <1>1
  <2> QED BY <1>4, <1>5, <2>1 DEF Follows
<1>7. Is(f)
  <2>1. f = [k \in 0 .. n |-> f[k]]
    OBVIOUS
  <2>2. \A k \in 0 .. n : f[k] = IF k = 0 THEN 0 ELSE 2 * f[k - 1] + bits[k]
    BY <1>5, <1>6, <1>1 DEF Follows
  <2> QED BY <2>1, <2>2
<1> DEFINE g == Prefixes(bits)
<1>8. g = CHOOSE h : Is(h)
  BY DEF Prefixes, n
<1>9. Is(g)
  BY <1>7, <1>8
<1> HIDE DEF g
<1>10. g[0] = 0 /\ \A k \in 1 .. n : g[k] = 2 * g[k - 1] + bits[k]
  BY <1>1, <1>9
<1>11. \A k \in 0 .. n : g[k] \in Nat
  <2> DEFINE T == {k \in Nat : k <= n => g[k] \in Nat}
  <2>1. 0 \in T
    BY <1>10
  <2>2. \A k \in Nat : k \in T => k + 1 \in T
    <3> SUFFICES ASSUME NEW k \in Nat, k \in T, k + 1 <= n PROVE g[k + 1] \in Nat
      OBVIOUS
    <3>1. k + 1 \in 1 .. n /\ g[k] \in Nat
      BY <1>1
    <3>2. g[k + 1] = 2 * g[k] + bits[k + 1]
      BY <1>10, <3>1
    <3>3. bits[k + 1] \in Nat
      BY <1>1, <3>1 DEF Bits
    <3> HIDE DEF Is
    <3> QED BY ONLY <3>1, <3>2, <3>3
  <2> HIDE DEF T
  <2>3. Nat \subseteq T
    BY <2>1, <2>2, Induction
  <2> QED BY <1>1, <2>3 DEF T
<1>12. \A k : FromBits(bits, k) = g[k]
  BY DEF FromBits, g
<1> QED BY ONLY <1>10, <1>11, <1>12 DEF n

(* The numbers depend on no more bits than they are made of. *)
LEMMA FromBitsOfPrefix ==
  ASSUME NEW a \in Seq(Bits), NEW b \in Seq(Bits), NEW n \in Nat,
         n <= Len(a), n <= Len(b), \A i \in 1 .. n : a[i] = b[i]
  PROVE  FromBits(a, n) = FromBits(b, n)
<1> DEFINE T == {k \in Nat : k <= n => FromBits(a, k) = FromBits(b, k)}
<1>1. 0 \in T
  BY FromBitsSteps
<1>2. ASSUME NEW k \in Nat, k \in T PROVE k + 1 \in T
  <2> SUFFICES ASSUME k + 1 <= n PROVE FromBits(a, k + 1) = FromBits(b, k + 1)
    OBVIOUS
  <2>1. k + 1 \in 1 .. Len(a) /\ k + 1 \in 1 .. Len(b) /\ (k + 1) - 1 = k /\ k + 1 \in 1 .. n
    OBVIOUS
  <2>2. /\ FromBits(a, k + 1) = 2 * FromBits(a, k) + a[k + 1]
        /\ FromBits(b, k + 1) = 2 * FromBits(b, k) + b[k + 1]
    BY ONLY <2>1, FromBitsSteps, a \in Seq(Bits), b \in Seq(Bits)
  <2>3. FromBits(a, k) = FromBits(b, k) /\ a[k + 1] = b[k + 1]
    BY <1>2, <2>1
  <2> QED BY ONLY <2>2, <2>3
<1> HIDE DEF T
<1>3. Nat \subseteq T
  BY <1>1, <1>2, Induction
<1> QED BY <1>3 DEF T

(* One bit, and one more. *)
LEMMA FirstBit ==
  ASSUME NEW bits \in Seq(Bits), Len(bits) > 0
  PROVE  FromBits(bits, 1) = bits[1]
<1>1. FromBits(bits, 0) = 0 /\ FromBits(bits, 1) = 2 * FromBits(bits, 1 - 1) + bits[1]
  BY FromBitsSteps
<1>2. bits[1] \in Nat /\ 1 - 1 = 0
  BY DEF Bits
<1> QED BY ONLY <1>1, <1>2

LEMMA FromBitsAppended ==
  ASSUME NEW bits \in Seq(Bits), NEW bit \in Bits
  PROVE  FromBits(Append(bits, bit), Len(bits) + 1) = 2 * FromBits(bits, Len(bits)) + bit
<1> DEFINE more == Append(bits, bit)
           n == Len(bits)
<1>1. /\ more \in Seq(Bits) /\ Len(more) = n + 1 /\ more[n + 1] = bit
      /\ \A i \in 1 .. n : more[i] = bits[i]
      /\ n \in Nat
  OBVIOUS
<1> HIDE DEF more, n
<1>2. FromBits(more, n) = FromBits(bits, n)
  BY <1>1, FromBitsOfPrefix DEF n
<1>3. FromBits(more, n + 1) = 2 * FromBits(more, n) + more[n + 1]
  <2>1. n + 1 \in 1 .. Len(more) /\ (n + 1) - 1 = n
    BY <1>1
  <2> QED BY ONLY <1>1, <2>1, FromBitsSteps
<1> QED BY <1>1, <1>2, <1>3 DEF more, n

(* Powers of two: a one and n zeros. *)
OneAndZeros(n) == [i \in 1 .. n + 1 |-> IF i = 1 THEN 1 ELSE 0]

PowerOfTwo(n) == FromBits(OneAndZeros(n), n + 1)

LEMMA PowerOfTwoSteps ==
  /\ PowerOfTwo(0) = 1
  /\ \A n \in Nat : PowerOfTwo(n) \in Nat /\ PowerOfTwo(n + 1) = 2 * PowerOfTwo(n)
<1>1. ASSUME NEW n \in Nat
      PROVE  /\ OneAndZeros(n) \in Seq(Bits) /\ Len(OneAndZeros(n)) = n + 1
             /\ OneAndZeros(n)[1] = 1 /\ \A i \in 2 .. n + 1 : OneAndZeros(n)[i] = 0
  BY DEF OneAndZeros, Bits
<1>2. PowerOfTwo(0) = 1
  <2> DEFINE a == OneAndZeros(0)
  <2>1. a \in Seq(Bits) /\ Len(a) = 1 /\ a[1] = 1
    <3>1. 0 \in Nat /\ 0 + 1 = 1
      OBVIOUS
    <3>2. a \in Seq(Bits) /\ Len(a) = 0 + 1 /\ a[1] = 1
      BY ONLY <1>1, <3>1
    <3> QED BY ONLY <3>1, <3>2
  <2> HIDE DEF a
  <2>2. FromBits(a, 1) = 1
    BY <2>1, FirstBit
  <2> QED BY <2>2 DEF PowerOfTwo, a
<1>3. ASSUME NEW n \in Nat PROVE PowerOfTwo(n) \in Nat /\ PowerOfTwo(n + 1) = 2 * PowerOfTwo(n)
  <2> DEFINE a == OneAndZeros(n)
             b == OneAndZeros(n + 1)
  <2>1. /\ a \in Seq(Bits) /\ Len(a) = n + 1 /\ a[1] = 1 /\ \A i \in 2 .. n + 1 : a[i] = 0
        /\ b \in Seq(Bits) /\ Len(b) = n + 2 /\ b[1] = 1 /\ \A i \in 2 .. n + 2 : b[i] = 0
    BY <1>1
  <2>2. PowerOfTwo(n) = FromBits(a, n + 1) /\ PowerOfTwo(n + 1) = FromBits(b, n + 2)
    BY DEF PowerOfTwo
  <2> HIDE DEF a, b
  <2>3. \A i \in 1 .. n + 1 : a[i] = b[i]
    BY <2>1
  <2>4. FromBits(b, n + 1) = FromBits(a, n + 1)
    BY <2>1, <2>3, FromBitsOfPrefix
  <2>5. FromBits(b, n + 2) = 2 * FromBits(b, n + 1) + b[n + 2]
    <3>1. n + 2 \in 1 .. Len(b) /\ (n + 2) - 1 = n + 1
      BY <2>1
    <3> QED BY <2>1, <3>1, FromBitsSteps
  <2>6. FromBits(a, n + 1) \in Nat
    BY <2>1, FromBitsSteps
  <2> QED BY <2>1, <2>2, <2>4, <2>5, <2>6
<1> QED BY <1>2, <1>3

LEMMA PowersAdd ==
  ASSUME NEW m \in Nat, NEW n \in Nat
  PROVE  PowerOfTwo(m + n) = PowerOfTwo(m) * PowerOfTwo(n)
<1> DEFINE p == PowerOfTwo(m)
           T == {k \in Nat : PowerOfTwo(m + k) = p * PowerOfTwo(k)}
<1>0. p \in Nat
  BY PowerOfTwoSteps
<1>1. 0 \in T
  <2>1. m + 0 = m
    OBVIOUS
  <2> QED BY <1>0, <2>1, PowerOfTwoSteps
<1>2. ASSUME NEW k \in Nat, k \in T PROVE k + 1 \in T
  <2> DEFINE q == PowerOfTwo(k)
  <2>1. q \in Nat /\ PowerOfTwo(m + k) = p * q
    BY <1>2, PowerOfTwoSteps
  <2>2. PowerOfTwo(k + 1) = 2 * q /\ PowerOfTwo((m + k) + 1) = 2 * PowerOfTwo(m + k)
    BY PowerOfTwoSteps, m + k \in Nat
  <2> HIDE DEF p, q
  <2>3. 2 * (p * q) = p * (2 * q)
    BY ONLY <1>0, <2>1
  <2>4. (m + k) + 1 = m + (k + 1)
    OBVIOUS
  <2>5. PowerOfTwo(m + (k + 1)) = p * PowerOfTwo(k + 1)
    BY <2>1, <2>2, <2>3, <2>4
  <2> QED BY <2>5 DEF p
<1> HIDE DEF T
<1>3. n \in T
  BY <1>1, <1>2, Induction
<1> QED BY <1>3 DEF T, p

LEMMA PowersGrow ==
  ASSUME NEW m \in Nat, NEW n \in Nat, m <= n
  PROVE  1 <= PowerOfTwo(m) /\ PowerOfTwo(m) <= PowerOfTwo(n)
<1> DEFINE T == {k \in Nat : 1 <= PowerOfTwo(m + k) /\ PowerOfTwo(m) <= PowerOfTwo(m + k)}
           S == {k \in Nat : 1 <= PowerOfTwo(k)}
<1>1. 0 \in S /\ \A k \in Nat : k \in S => k + 1 \in S
  BY PowerOfTwoSteps
<1> HIDE DEF S
<1>2. m \in S
  BY <1>1, Induction
<1>3. 1 <= PowerOfTwo(m) /\ PowerOfTwo(m) \in Nat
  BY <1>2, PowerOfTwoSteps DEF S
<1>4. 0 \in T
  BY <1>3, m + 0 = m
<1>5. ASSUME NEW k \in Nat, k \in T PROVE k + 1 \in T
  <2>1. (m + k) + 1 = m + (k + 1) /\ m + k \in Nat
    OBVIOUS
  <2>2. PowerOfTwo(m + (k + 1)) = 2 * PowerOfTwo(m + k) /\ PowerOfTwo(m + k) \in Nat
    BY <2>1, PowerOfTwoSteps
  <2> QED BY <1>3, <1>5, <2>2
<1> HIDE DEF T
<1>6. n - m \in T
  <2>1. Nat \subseteq T
    BY <1>4, <1>5, Induction
  <2> QED BY <2>1
<1> QED BY <1>3, <1>6, m + (n - m) = n DEF T

(* The number with all bits is that with the first p, as many places to    *)
(* the left, and what is less than one of them.                            *)
LEMMA FromBitsSplits ==
  ASSUME NEW bits \in Seq(Bits), NEW p \in Nat, NEW k \in Nat, p + k <= Len(bits)
  PROVE  /\ FromBits(bits, p) * PowerOfTwo(k) <= FromBits(bits, p + k)
         /\ FromBits(bits, p + k) < (FromBits(bits, p) + 1) * PowerOfTwo(k)
<1> DEFINE v == FromBits(bits, p)
           Splits(j) == /\ v * PowerOfTwo(j) <= FromBits(bits, p + j)
                        /\ FromBits(bits, p + j) < (v + 1) * PowerOfTwo(j)
           T == {j \in Nat : j <= k => Splits(j)}
<1>0. v \in Nat
  BY FromBitsSteps
<1>1. 0 \in T
  <2>1. p + 0 = p /\ PowerOfTwo(0) = 1
    BY PowerOfTwoSteps
  <2>2. FromBits(bits, p + 0) = v
    BY <2>1
  <2> HIDE DEF v
  <2> QED BY <1>0, <2>1, <2>2
<1>2. ASSUME NEW j \in Nat, j \in T PROVE j + 1 \in T
  <2> SUFFICES ASSUME j + 1 <= k PROVE Splits(j + 1)
    OBVIOUS
  <2> DEFINE w == FromBits(bits, p + j)
             q == PowerOfTwo(j)
  <2>1. v * q <= w /\ w < (v + 1) * q
    BY <1>2
  <2>2. w \in Nat /\ q \in Nat /\ PowerOfTwo(j + 1) = 2 * q
    <3>1. p + j \in 0 .. Len(bits)
      OBVIOUS
    <3> QED BY <3>1, FromBitsSteps, PowerOfTwoSteps
  <2>3. p + (j + 1) \in 1 .. Len(bits) /\ (p + (j + 1)) - 1 = p + j
    OBVIOUS
  <2>4. FromBits(bits, p + (j + 1)) = 2 * w + bits[p + (j + 1)] /\ bits[p + (j + 1)] \in Bits
    BY <2>3, FromBitsSteps
  <2> HIDE DEF v, w, q
  <2>5. v * (2 * q) = 2 * (v * q) /\ (v + 1) * (2 * q) = 2 * ((v + 1) * q)
        /\ v * q \in Int /\ (v + 1) * q \in Int
    BY ONLY <1>0, <2>2
  <2>6. /\ v * (2 * q) <= FromBits(bits, p + (j + 1))
        /\ FromBits(bits, p + (j + 1)) < (v + 1) * (2 * q)
    BY ONLY <1>0, <2>1, <2>2, <2>4, <2>5 DEF Bits
  <2> QED BY <2>2, <2>6
<1> HIDE DEF T
<1>3. k \in T
  BY <1>1, <1>2, Induction
<1> QED BY <1>3 DEF T, v

LEMMA FunctionIsSequence ==
  ASSUME NEW S, NEW n \in Nat, NEW f \in [1 .. n -> S]
  PROVE  f \in Seq(S) /\ Len(f) = n
  OBVIOUS

(* All ones are one less than a power of two. *)
LEMMA AllOnes ==
  ASSUME NEW bits \in Seq(Bits), \A i \in 1 .. Len(bits) : bits[i] = 1
  PROVE  FromBits(bits, Len(bits)) + 1 = PowerOfTwo(Len(bits))
<1> DEFINE n == Len(bits)
           T == {k \in Nat : k <= n => FromBits(bits, k) + 1 = PowerOfTwo(k)}
<1>0. n \in Nat
  OBVIOUS
<1>1. 0 \in T
  BY FromBitsSteps, PowerOfTwoSteps
<1>2. ASSUME NEW k \in Nat, k \in T PROVE k + 1 \in T
  <2> SUFFICES ASSUME k + 1 <= n PROVE FromBits(bits, k + 1) + 1 = PowerOfTwo(k + 1)
    OBVIOUS
  <2>1. k + 1 \in 1 .. n /\ (k + 1) - 1 = k /\ k \in 0 .. n
    OBVIOUS
  <2>2. FromBits(bits, k + 1) = 2 * FromBits(bits, k) + 1
    BY <2>1, FromBitsSteps
  <2>3. FromBits(bits, k) + 1 = PowerOfTwo(k) /\ FromBits(bits, k) \in Nat
    BY <1>2, <2>1, FromBitsSteps
  <2>4. PowerOfTwo(k + 1) = 2 * PowerOfTwo(k)
    BY PowerOfTwoSteps
  <2> QED BY ONLY <2>2, <2>3, <2>4
<1> HIDE DEF T
<1>3. n \in T
  BY <1>0, <1>1, <1>2, Induction
<1> QED BY <1>3, <1>0 DEF T

(* AddUlp adds one. *)
LEMMA AddUlpIsOneMore ==
  ASSUME NEW bits \in Seq(Bits), Len(bits) > 0, bits[1] = 1
  PROVE  /\ AddUlp(bits) \in Seq(Bits) /\ AddUlp(bits)[1] = 1
         /\ FromBits(AddUlp(bits), Len(AddUlp(bits))) = FromBits(bits, Len(bits)) + 1
         /\ \/ Len(AddUlp(bits)) = Len(bits)
            \/ /\ Len(AddUlp(bits)) = Len(bits) + 1
               /\ FromBits(bits, Len(bits)) + 1 = PowerOfTwo(Len(bits))
<1> DEFINE n == Len(bits)
           zeros == {i \in 1 .. n : bits[i] = 0}
           last == CHOOSE i \in zeros : \A j \in zeros : j <= i
           after == [i \in 1 .. n |-> IF i < last THEN bits[i] ELSE IF i = last THEN 1 ELSE 0]
<1>0. n \in Nat /\ n > 0 /\ DOMAIN bits = 1 .. n /\ \A i \in 1 .. n : bits[i] \in Bits
  OBVIOUS
<1>1. AddUlp(bits) = IF zeros = {} THEN OneAndZeros(n) ELSE after
  BY <1>0 DEF AddUlp, OneAndZeros
<1>2. CASE zeros = {}
  <2>1. \A i \in 1 .. n : bits[i] = 1
    BY <1>0, <1>2 DEF Bits
  <2>2. FromBits(bits, n) + 1 = PowerOfTwo(n)
    BY <2>1, AllOnes
  <2>3. /\ OneAndZeros(n) \in Seq(Bits) /\ Len(OneAndZeros(n)) = n + 1 /\ OneAndZeros(n)[1] = 1
    BY <1>0 DEF OneAndZeros, Bits
  <2>4. FromBits(OneAndZeros(n), n + 1) = PowerOfTwo(n)
    BY DEF PowerOfTwo
  <2>5. AddUlp(bits) = OneAndZeros(n)
    BY <1>1, <1>2
  <2> QED BY ONLY <2>2, <2>3, <2>4, <2>5 DEF n
<1>3. CASE zeros # {}
  <2>1. \E i \in zeros : \A j \in zeros : j <= i
    <3> DEFINE R == {k \in Nat : n - k \in zeros}
    <3>1. PICK z \in zeros : TRUE
      BY <1>3
    <3>2. n - z \in R /\ R \subseteq Nat
      BY <1>0, <3>1
    <3>3. PICK m \in R : \A x \in R : m <= x
      <4> HIDE DEF R
      <4> QED BY <3>2, LeastNumber
    <3>4. \A j \in zeros : n - j \in R
      BY <1>0
    <3>5. m \in Nat /\ n - m \in zeros
      BY <3>3
    <3>6. ASSUME NEW j \in zeros PROVE j <= n - m
      <4>1. m <= n - j
        <5> HIDE DEF R, zeros
        <5> QED BY <3>3, <3>4
      <4> QED BY <1>0, <3>5, <4>1
    <3>7. n - m \in zeros /\ \A j \in zeros : j <= n - m
      BY <3>5, <3>6
    <3> QED BY <3>7
  <2>2. last \in zeros /\ \A j \in zeros : j <= last
    BY <2>1
  <2> HIDE DEF last
  <2>3. last \in 1 .. n /\ bits[last] = 0 /\ \A i \in last + 1 .. n : bits[i] = 1
    <3>1. last \in 1 .. n /\ bits[last] = 0
      BY <2>2
    <3>2. ASSUME NEW i \in last + 1 .. n PROVE bits[i] = 1
      <4>1. i \in 1 .. n /\ i \notin zeros
        BY <2>2, <3>1
      <4> QED BY <1>0, <4>1 DEF Bits
    <3> QED BY <3>1, <3>2
  <2> HIDE DEF zeros
  <2>4. last # 1
    BY <2>3
  <2>5. /\ \A i \in 1 .. last - 1 : after[i] = bits[i]
        /\ after[last] = 1
        /\ \A i \in last + 1 .. n : after[i] = 0
    BY <1>0, <2>3
  <2>6. \A i \in 1 .. n : after[i] \in Bits
    BY <1>0, <2>3 DEF Bits
  <2>7. after \in Seq(Bits) /\ Len(after) = n /\ after[1] = 1
    <3>1. after \in Seq(Bits) /\ Len(after) = n
      <4>1. after \in [1 .. n -> Bits]
        BY <2>6
      <4> QED BY <1>0, <4>1
    <3>2. 1 \in 1 .. last - 1
      BY <2>3, <2>4
    <3> QED BY <2>5, <3>1, <3>2
  <2> HIDE DEF after, n
  <2> DEFINE T == {k \in Nat : last + k <= n =>
                                  FromBits(after, last + k) = FromBits(bits, last + k) + 1}
  <2>8. 0 \in T
    <3>1. /\ last - 1 \in Nat /\ last - 1 <= n /\ last \in 1 .. n
          /\ last - 1 \in 0 .. n /\ last + 0 = last
      BY <1>0, <2>3
    <3>2. FromBits(after, last - 1) = FromBits(bits, last - 1)
      BY <2>5, <2>7, <3>1, FromBitsOfPrefix DEF n
    <3>3. FromBits(after, last) = 2 * FromBits(after, last - 1) + 1
      <4>1. last \in 1 .. Len(after)
        BY <2>7, <3>1
      <4>2. FromBits(after, last) = 2 * FromBits(after, last - 1) + after[last]
        BY ONLY <2>7, <4>1, FromBitsSteps
      <4> QED BY <2>5, <4>2
    <3>4. FromBits(bits, last) = 2 * FromBits(bits, last - 1) + 0
      BY <2>3, <3>1, FromBitsSteps DEF n
    <3>5. FromBits(bits, last - 1) \in Nat
      BY <3>1, FromBitsSteps DEF n
    <3>6. FromBits(after, last) = FromBits(bits, last) + 1
      BY ONLY <3>2, <3>3, <3>4, <3>5
    <3> QED BY <3>1, <3>6
  <2>9. ASSUME NEW k \in Nat, k \in T PROVE k + 1 \in T
    <3> SUFFICES ASSUME last + (k + 1) <= n
                 PROVE  FromBits(after, last + (k + 1)) = FromBits(bits, last + (k + 1)) + 1
      OBVIOUS
    <3>1. /\ last + (k + 1) \in 1 .. n /\ (last + (k + 1)) - 1 = last + k
          /\ last + k \in 0 .. n /\ last + (k + 1) \in last + 1 .. n
      BY <1>0, <2>3
    <3>2. FromBits(after, last + (k + 1)) = 2 * FromBits(after, last + k) + 0
      BY <2>5, <2>7, <3>1, FromBitsSteps
    <3>3. FromBits(bits, last + (k + 1)) = 2 * FromBits(bits, last + k) + 1
      BY <2>3, <3>1, FromBitsSteps DEF n
    <3>4. FromBits(bits, last + k) \in Nat
      BY <3>1, FromBitsSteps DEF n
    <3>5. FromBits(after, last + k) = FromBits(bits, last + k) + 1
      BY <2>9, <3>1
    <3> QED BY ONLY <3>2, <3>3, <3>4, <3>5
  <2> HIDE DEF T
  <2>10. n - last \in T
    <3>1. n - last \in Nat
      BY <1>0, <2>3
    <3> QED BY <2>8, <2>9, <3>1, Induction
  <2>11. FromBits(after, n) = FromBits(bits, n) + 1
    BY <1>0, <2>3, <2>10 DEF T
  <2>12. AddUlp(bits) = after
    BY <1>1, <1>3
  <2> QED BY ONLY <2>7, <2>11, <2>12 DEF n
<1> QED BY <1>2, <1>3

(* Whether Round rounds up, and that it then adds one to the first bits,   *)
(* of which there may be one more only when they were all ones.            *)
RoundsUp(bits, more) ==
  /\ bits[54] = 1
  /\ \/ more
     \/ \E i \in 55 .. Len(bits) : bits[i] = 1
     \/ bits[53] = 1

Rounded(r, bits, point, more) ==
  /\ r.bits \in Seq(Bits) /\ r.bits[1] = 1
  /\ r.point = point + Len(r.bits) - 53
  /\ RoundsUp(bits, more) => FromBits(r.bits, Len(r.bits)) = FromBits(bits, 53) + 1
  /\ ~ RoundsUp(bits, more) => FromBits(r.bits, Len(r.bits)) = FromBits(bits, 53)
  /\ \/ Len(r.bits) = 53
     \/ /\ Len(r.bits) = 54 /\ RoundsUp(bits, more)
        /\ FromBits(bits, 53) + 1 = PowerOfTwo(53)

LEMMA RoundIsThis ==
  ASSUME NEW bits \in Seq(Bits), NEW point \in Int, NEW more \in BOOLEAN,
         Len(bits) > 53, bits[1] = 1
  PROVE  Rounded(Round([bits |-> bits, point |-> point], more), bits, point, more)
<1> DEFINE kept == SubSeq(bits, 1, 53)
           d == [bits |-> bits, point |-> point]
           r == Round(d, more)
           rounded == IF RoundsUp(bits, more) THEN AddUlp(kept) ELSE kept
<1>1. /\ kept \in Seq(Bits) /\ Len(kept) = 53 /\ \A i \in 1 .. 53 : kept[i] = bits[i]
  <2>1. \A i \in 1 .. 53 : i \in 1 .. Len(bits) /\ i + 1 - 1 = i
    OBVIOUS
  <2>2. kept = [i \in 1 .. 53 |-> bits[i]]
    BY <2>1 DEF SubSeq
  <2>3. \A i \in 1 .. 53 : bits[i] \in Bits
    <3> TAKE i \in 1 .. 53
    <3>1. i \in 1 .. Len(bits)
      BY <2>1
    <3> QED BY ONLY <3>1, bits \in Seq(Bits)
  <2> HIDE DEF kept
  <2>4. kept \in [1 .. 53 -> Bits]
    BY <2>2, <2>3
  <2>5. kept \in Seq(Bits) /\ Len(kept) = 53
    <3> DEFINE n == 53
    <3>1. n \in Nat /\ kept \in [1 .. n -> Bits]
      BY ONLY <2>4
    <3> HIDE DEF n
    <3>2. kept \in Seq(Bits) /\ Len(kept) = n
      BY ONLY <3>1, FunctionIsSequence
    <3> QED BY ONLY <3>2 DEF n
  <2> QED BY <2>2, <2>5
<1>2. kept[53] = bits[53] /\ kept[1] = 1
  BY <1>1
<1>3. FromBits(kept, 53) = FromBits(bits, 53)
  <2> HIDE DEF kept
  <2>1. 53 <= Len(kept) /\ 53 <= Len(bits) /\ 53 \in Nat
    BY <1>1
  <2> QED BY <1>1, <2>1, FromBitsOfPrefix
<1>4. r = [bits |-> rounded, point |-> point + Len(rounded) - 53]
  <2>1. d.bits = bits /\ d.point = point
    OBVIOUS
  <2> HIDE DEF d
  <2> QED BY <1>2, <2>1 DEF Round, RoundsUp, Precision
<1> HIDE DEF kept, r, d
<1>5. r.bits = rounded /\ r.point = point + Len(rounded) - 53
  BY <1>4
<1>6. CASE RoundsUp(bits, more)
  <2>1. rounded = AddUlp(kept)
    BY <1>6
  <2>2. /\ AddUlp(kept) \in Seq(Bits) /\ AddUlp(kept)[1] = 1
        /\ FromBits(AddUlp(kept), Len(AddUlp(kept))) = FromBits(kept, 53) + 1
        /\ \/ Len(AddUlp(kept)) = 53
           \/ Len(AddUlp(kept)) = 54 /\ FromBits(kept, 53) + 1 = PowerOfTwo(53)
    <3>1. Len(kept) > 0
      BY <1>1
    <3>2. /\ AddUlp(kept) \in Seq(Bits) /\ AddUlp(kept)[1] = 1
          /\ FromBits(AddUlp(kept), Len(AddUlp(kept))) = FromBits(kept, Len(kept)) + 1
          /\ \/ Len(AddUlp(kept)) = Len(kept)
             \/ /\ Len(AddUlp(kept)) = Len(kept) + 1
                /\ FromBits(kept, Len(kept)) + 1 = PowerOfTwo(Len(kept))
      BY ONLY <1>1, <1>2, <3>1, AddUlpIsOneMore
    <3>3. Len(kept) = 53 /\ Len(kept) + 1 = 54
      BY <1>1
    <3> QED BY ONLY <3>2, <3>3
  <2> QED BY ONLY <1>3, <1>5, <1>6, <2>1, <2>2 DEF r, d, Rounded
<1>7. CASE ~ RoundsUp(bits, more)
  <2>1. rounded = kept
    BY <1>7
  <2> QED BY ONLY <1>1, <1>2, <1>3, <1>5, <1>7, <2>1 DEF r, d, Rounded
<1> QED BY ONLY <1>6, <1>7

(* Long division: what the bits stand for, times the divisor, and what is  *)
(* left make the dividend, 2 to the 53rd times.                            *)
Divided(t, rem, k, d) ==
  /\ d.bits \in Seq(Bits) /\ Len(d.bits) = k + 1 /\ d.bits[1] = 1
  /\ d.rem \in 0 .. t - 1
  /\ FromBits(d.bits, k + 1) * t + d.rem = PowerOfTwo(k) * (t + rem)

LEMMA NextBitDivides ==
  ASSUME NEW t \in Nat \ {0}, NEW rem \in 0 .. t - 1, NEW k \in Nat, NEW d,
         Divided(t, rem, k, d)
  PROVE  /\ (2 * d.rem) \div t \in Bits
         /\ Divided(t, rem, k + 1, [ bits |-> Append(d.bits, (2 * d.rem) \div t),
                                     rem  |-> (2 * d.rem) % t ])
<1> DEFINE bit == (2 * d.rem) \div t
           r == (2 * d.rem) % t
           bits == Append(d.bits, bit)
           f == FromBits(d.bits, k + 1)
<1>1. /\ d.bits \in Seq(Bits) /\ Len(d.bits) = k + 1 /\ d.bits[1] = 1
      /\ d.rem \in 0 .. t - 1
      /\ f * t + d.rem = PowerOfTwo(k) * (t + rem)
  BY DEF Divided
<1>2. 2 * d.rem = bit * t + r /\ r \in 0 .. t - 1 /\ bit \in Int
  <2> DEFINE x == 2 * d.rem
  <2>1. x \in Nat
    BY <1>1
  <2>2. bit = x \div t /\ r = x % t
    OBVIOUS
  <2> HIDE DEF x, bit, r
  <2>3. bit \in Nat /\ r \in 0 .. t - 1
    BY ONLY <2>1, <2>2, t \in Nat \ {0}
  <2>4. x = bit * t + r
    BY ONLY <2>1, <2>2, <2>3, t \in Nat \ {0}
  <2> QED BY <2>3, <2>4 DEF x
<1>3. bit \in Bits
  <2>1. 0 <= 2 * d.rem /\ 2 * d.rem < 2 * t
    BY <1>1
  <2> HIDE DEF bit, r
  <2>2. CASE bit <= -1
    <3>1. bit * t <= -t
      BY <1>2, <2>2
    <3> QED BY <1>2, <2>1, <3>1
  <2>3. CASE bit >= 2
    <3>1. bit * t >= 2 * t
      BY <1>2, <2>3
    <3> QED BY <1>2, <2>1, <3>1
  <2> QED BY <1>2, <2>2, <2>3 DEF Bits
<1> HIDE DEF bit, r
<1>4. /\ bits \in Seq(Bits) /\ Len(bits) = k + 2 /\ bits[1] = 1
      /\ FromBits(bits, k + 2) = 2 * f + bit
  <2>1. FromBits(bits, Len(d.bits) + 1) = 2 * FromBits(d.bits, Len(d.bits)) + bit
    BY <1>1, <1>3, FromBitsAppended
  <2>2. Len(d.bits) + 1 = k + 2
    BY <1>1
  <2>3. bits \in Seq(Bits) /\ Len(bits) = k + 2 /\ bits[1] = 1
    BY <1>1, <1>3
  <2> QED BY <1>1, <2>1, <2>2, <2>3
<1>5. f \in Nat
  <2>1. k + 1 \in 0 .. Len(d.bits)
    BY <1>1
  <2> QED BY <1>1, <2>1, FromBitsSteps
<1>6. PowerOfTwo(k + 1) = 2 * PowerOfTwo(k) /\ PowerOfTwo(k) \in Nat
  BY PowerOfTwoSteps
<1> DEFINE p == PowerOfTwo(k)
           w == t + rem
<1> HIDE DEF f, p, w, bits
<1>7. (2 * f + bit) * t + r = (2 * p) * w
  <2>1. (2 * f + bit) * t = 2 * (f * t) + bit * t
    BY ONLY <1>2, <1>5, t \in Nat
  <2>2. (2 * p) * w = 2 * (p * w) /\ p * w \in Int
    <3>1. p \in Int /\ w \in Int
      BY <1>6 DEF p, w
    <3> QED BY ONLY <3>1
  <2>3. f * t + d.rem = p * w /\ f * t \in Int /\ d.rem \in Int /\ bit * t \in Int
    BY <1>1, <1>2, <1>5 DEF p, w
  <2> QED BY ONLY <1>2, <2>1, <2>2, <2>3
<1> DEFINE e == [bits |-> bits, rem |-> r]
<1>8. e.bits = bits /\ e.rem = r
  OBVIOUS
<1> HIDE DEF e
<1>9. (k + 1) + 1 = k + 2
  OBVIOUS
<1>10. Divided(t, rem, k + 1, e)
  BY <1>2, <1>4, <1>6, <1>7, <1>8, <1>9 DEF Divided, p, w
<1> QED BY <1>3, <1>10 DEF e, bits, bit, r

LEMMA DivisionDivides ==
  ASSUME NEW t \in Nat \ {0}, NEW rem \in 0 .. t - 1
  PROVE  Divided(t, rem, 53, Division(rem, t))
<1> DEFINE Longer(d) == [ bits |-> Append(d.bits, (2 * d.rem) \div t),
                        rem  |-> (2 * d.rem) % t ]
           V == [bits : Seq(Nat), rem : Nat]
           first == [bits |-> <<1>>, rem |-> rem]
           G == [p \in (1 .. 53) \X V |-> Longer(p[2])]
           Is(f) == f = [k \in 0 .. 53 |-> IF k = 0 THEN first ELSE Longer(f[k - 1])]
           result == CHOOSE f : Is(f)
<1>1. ASSUME NEW d \in V PROVE Longer(d) \in V
  <2>1. d.bits \in Seq(Nat) /\ d.rem \in Nat
    OBVIOUS
  <2>2. (2 * d.rem) \div t \in Nat /\ (2 * d.rem) % t \in Nat
    <3> DEFINE r == d.rem
    <3> HIDE DEF r
    <3>1. r \in Nat
      BY <2>1 DEF r
    <3>2. (2 * r) \div t \in Nat /\ (2 * r) % t \in Nat
      BY ONLY <3>1, t \in Nat \ {0}
    <3> QED BY ONLY <3>2 DEF r
  <2>3. Append(d.bits, (2 * d.rem) \div t) \in Seq(Nat)
    BY <2>1, <2>2
  <2> QED BY <2>2, <2>3
<1>2. first \in V
  OBVIOUS
<1> HIDE DEF Longer
<1>3. G \in [(1 .. 53) \X V -> V] /\ \A k \in 1 .. 53, d \in V : G[<<k, d>>] = Longer(d)
  BY <1>1
<1>4. first.bits = <<1>> /\ first.rem = rem
  OBVIOUS
<1> HIDE DEF V, G, first
<1>5. PICK f \in [0 .. 53 -> V] : Follows(f, 53, first, G)
  BY <1>2, <1>3, StepsAreThere, 53 \in Nat
<1>6. Is(f)
  <2>1. \A k \in 0 .. 53 : f[k] = IF k = 0 THEN first ELSE Longer(f[k - 1])
    <3> TAKE k \in 0 .. 53
    <3>1. CASE k = 0
      BY <1>5, <3>1 DEF Follows
    <3>2. CASE k # 0
      <4>1. k \in 1 .. 53 /\ k - 1 \in 0 .. 53
        BY <3>2
      <4>2. f[k - 1] \in V /\ f[k] = G[<<k, f[k - 1]>>]
        BY <1>5, <4>1 DEF Follows
      <4> QED BY <1>3, <3>2, <4>1, <4>2
    <3> QED BY <3>1, <3>2
  <2>2. f = [k \in 0 .. 53 |-> f[k]]
    OBVIOUS
  <2> QED BY <2>1, <2>2
<1>7. Is(result)
  BY <1>6
<1>8. Division(rem, t) = result[53]
  BY DEF Division, Precision, Longer, first
<1> HIDE DEF result
<1>9. result[0] = first /\ \A k \in 1 .. 53 : result[k] = Longer(result[k - 1])
  BY <1>7
<1> DEFINE T == {k \in Nat : k <= 53 => Divided(t, rem, k, result[k])}
<1>10. 0 \in T
  <2>1. <<1>> \in Seq(Bits) /\ Len(<<1>>) = 1 /\ <<1>>[1] = 1
    BY DEF Bits
  <2>2. FromBits(<<1>>, 1) = 1
    <3>1. PowerOfTwo(0) = FromBits(OneAndZeros(0), 1)
      BY DEF PowerOfTwo
    <3>2. OneAndZeros(0) = <<1>>
      BY DEF OneAndZeros
    <3> QED BY <3>1, <3>2, PowerOfTwoSteps
  <2>3. PowerOfTwo(0) = 1 /\ 1 * t + rem = 1 * (t + rem)
    BY PowerOfTwoSteps
  <2>4. FromBits(first.bits, 0 + 1) * t + first.rem = PowerOfTwo(0) * (t + rem)
    BY <1>4, <2>2, <2>3, 0 + 1 = 1
  <2>5. Divided(t, rem, 0, first)
    BY <1>4, <2>1, <2>4, 0 + 1 = 1 DEF Divided
  <2> QED BY <1>9, <2>5
<1>11. ASSUME NEW k \in Nat, k \in T PROVE k + 1 \in T
  <2> SUFFICES ASSUME k + 1 <= 53 PROVE Divided(t, rem, k + 1, result[k + 1])
    OBVIOUS
  <2>1. k + 1 \in 1 .. 53 /\ (k + 1) - 1 = k
    OBVIOUS
  <2>2. result[k + 1] = Longer(result[k])
    BY <1>9, <2>1
  <2>3. Divided(t, rem, k, result[k])
    BY <1>11
  <2>4. Divided(t, rem, k + 1, Longer(result[k]))
    BY <2>3, NextBitDivides DEF Longer
  <2> QED BY <2>2, <2>4
<1> HIDE DEF T
<1>12. 53 \in T
  BY <1>10, <1>11, Induction, 53 \in Nat
<1> QED BY <1>8, <1>12 DEF T

(* Doubling w makes it w times a power of two, of which one is at least t. *)
LEMMA DoublingsArePowers ==
  ASSUME NEW w \in Nat, NEW n \in Nat
  PROVE  \A k \in 0 .. n : Doublings(w, n)[k] = w * PowerOfTwo(k)
<1> DEFINE G == [p \in (1 .. n) \X Nat |-> 2 * p[2]]
           Is(f) == f = [k \in 0 .. n |-> IF k = 0 THEN w ELSE 2 * f[k - 1]]
           result == CHOOSE f : Is(f)
<1>1. G \in [(1 .. n) \X Nat -> Nat] /\ \A k \in 1 .. n, v \in Nat : G[<<k, v>>] = 2 * v
  OBVIOUS
<1> HIDE DEF G
<1>2. PICK f \in [0 .. n -> Nat] : Follows(f, n, w, G)
  BY <1>1, StepsAreThere
<1>3. Is(f)
  <2>1. \A k \in 0 .. n : f[k] = IF k = 0 THEN w ELSE 2 * f[k - 1]
    <3> TAKE k \in 0 .. n
    <3>1. CASE k = 0
      BY <1>2, <3>1 DEF Follows
    <3>2. CASE k # 0
      <4>1. k \in 1 .. n /\ k - 1 \in 0 .. n
        BY <3>2
      <4>2. f[k - 1] \in Nat /\ f[k] = G[<<k, f[k - 1]>>]
        BY <1>2, <4>1 DEF Follows
      <4> QED BY <1>1, <3>2, <4>1, <4>2
    <3> QED BY <3>1, <3>2
  <2>2. f = [k \in 0 .. n |-> f[k]]
    OBVIOUS
  <2> QED BY <2>1, <2>2
<1>4. Is(result)
  BY <1>3
<1>5. Doublings(w, n) = result
  BY DEF Doublings
<1> HIDE DEF result
<1>6. result[0] = w /\ \A k \in 1 .. n : result[k] = 2 * result[k - 1]
  BY <1>4
<1> DEFINE T == {k \in Nat : k <= n => result[k] = w * PowerOfTwo(k)}
<1>7. 0 \in T
  <2>1. result[0] = w * PowerOfTwo(0)
    <3>1. w * 1 = w
      OBVIOUS
    <3> QED BY <1>6, <3>1, PowerOfTwoSteps
  <2> QED BY <2>1
<1>8. ASSUME NEW k \in Nat, k \in T PROVE k + 1 \in T
  <2> SUFFICES ASSUME k + 1 <= n PROVE result[k + 1] = w * PowerOfTwo(k + 1)
    OBVIOUS
  <2>1. k + 1 \in 1 .. n /\ (k + 1) - 1 = k
    OBVIOUS
  <2>2. result[k + 1] = 2 * (w * PowerOfTwo(k))
    BY <1>6, <1>8, <2>1
  <2>3. PowerOfTwo(k + 1) = 2 * PowerOfTwo(k) /\ PowerOfTwo(k) \in Nat
    BY PowerOfTwoSteps
  <2> QED BY ONLY <2>2, <2>3, w \in Nat
<1> HIDE DEF T
<1>9. Nat \subseteq T
  BY <1>7, <1>8, Induction
<1> QED BY <1>5, <1>9 DEF T

LEMMA PowersExceed ==
  ASSUME NEW n \in Nat
  PROVE  n < PowerOfTwo(n)
<1> DEFINE T == {k \in Nat : k < PowerOfTwo(k)}
<1>1. 0 \in T /\ \A k \in Nat : k \in T => k + 1 \in T
  BY PowerOfTwoSteps
<1> HIDE DEF T
<1>2. n \in T
  BY <1>1, Induction
<1> QED BY <1>2 DEF T

Shift(w, t) ==
  CHOOSE k \in 0 .. t : Doublings(w, t)[k] >= t /\ (k > 0 => Doublings(w, t)[k - 1] < t)

LEMMA ShiftIsThere ==
  ASSUME NEW t \in Nat \ {0}, NEW w \in 1 .. t
  PROVE  /\ Shift(w, t) \in 0 .. t
         /\ Doublings(w, t)[Shift(w, t)] = w * PowerOfTwo(Shift(w, t))
         /\ w * PowerOfTwo(Shift(w, t)) - t \in 0 .. t - 1
         /\ w = t => Shift(w, t) = 0
<1> DEFINE f(k) == Doublings(w, t)[k]
           s == Shift(w, t)
           R == {k \in 0 .. t : f(k) >= t}
<1>1. \A k \in 0 .. t : f(k) = w * PowerOfTwo(k) /\ PowerOfTwo(k) \in Nat /\ f(k) \in Nat
  <2> TAKE k \in 0 .. t
  <2>1. w \in Nat /\ f(k) = w * PowerOfTwo(k)
    BY DoublingsArePowers
  <2>2. PowerOfTwo(k) \in Nat
    BY PowerOfTwoSteps
  <2>3. w * PowerOfTwo(k) \in Nat
    BY ONLY <2>1, <2>2
  <2> QED BY <2>1, <2>2, <2>3
<1>2. t \in R
  <2>1. t < PowerOfTwo(t) /\ PowerOfTwo(t) \in Nat
    BY PowersExceed, PowerOfTwoSteps
  <2>2. PowerOfTwo(t) <= w * PowerOfTwo(t)
    <3> DEFINE p == PowerOfTwo(t)
    <3>1. p \in Nat /\ w \in Nat /\ w >= 1
      BY <2>1
    <3> HIDE DEF p
    <3>2. (w - 1) * p >= 0 /\ w * p = (w - 1) * p + p
      BY ONLY <3>1
    <3>3. (w - 1) * p \in Int
      BY ONLY <3>1
    <3>4. p <= w * p
      BY ONLY <3>1, <3>2, <3>3
    <3> QED BY <3>4 DEF p
  <2>3. t \in 0 .. t /\ f(t) = w * PowerOfTwo(t) /\ f(t) \in Nat
    BY <1>1
  <2> HIDE DEF f
  <2> QED BY <2>1, <2>2, <2>3
<1> HIDE DEF f
<1>3. PICK m \in R : \A x \in R : m <= x
  <2>1. R # {} /\ R \subseteq Nat
    BY <1>2
  <2> HIDE DEF R
  <2> QED BY <2>1, LeastNumber
<1>4. ASSUME m > 0 PROVE f(m - 1) < t
  <2>1. m - 1 \in 0 .. t /\ m - 1 \notin R
    BY <1>3, <1>4
  <2>2. f(m - 1) \in Nat
    BY <1>1, <2>1
  <2> QED BY <2>1, <2>2
<1>5. m \in 0 .. t /\ f(m) >= t
  OBVIOUS
<1>6. s = CHOOSE k \in 0 .. t : f(k) >= t /\ (k > 0 => f(k - 1) < t)
  BY DEF Shift, f
<1>7. s \in 0 .. t /\ f(s) >= t /\ (s > 0 => f(s - 1) < t)
  BY <1>4, <1>5, <1>6
<1> HIDE DEF s
<1>8. f(s) = w * PowerOfTwo(s) /\ f(s) \in Nat
  BY <1>1, <1>7
<1>9. f(s) < 2 * t
  <2>1. CASE s = 0
    <3>1. f(s) = w * 1
      BY <1>8, <2>1, PowerOfTwoSteps
    <3> QED BY <3>1
  <2>2. CASE s > 0
    <3>1. s - 1 \in 0 .. t /\ (s - 1) + 1 = s /\ s - 1 \in Nat
      BY <1>7, <2>2
    <3>2. f(s - 1) = w * PowerOfTwo(s - 1) /\ f(s - 1) < t /\ PowerOfTwo(s - 1) \in Nat
      BY <1>1, <1>7, <2>2, <3>1
    <3>3. PowerOfTwo(s) = 2 * PowerOfTwo(s - 1)
      BY <3>1, PowerOfTwoSteps
    <3>4. f(s) = w * (2 * PowerOfTwo(s - 1))
      BY <1>8, <3>3
    <3>5. f(s) = 2 * f(s - 1)
      BY ONLY <3>2, <3>4, w \in Nat
    <3>6. f(s - 1) \in Nat
      BY <1>1, <3>1
    <3> QED BY ONLY <3>2, <3>5, <3>6, t \in Nat
  <2> QED BY <1>7, <2>1, <2>2
<1>10. ASSUME w = t, s > 0 PROVE FALSE
  <2>1. s - 1 \in 0 .. t /\ s - 1 \in Nat
    BY <1>7, <1>10
  <2>2. f(s - 1) = t * PowerOfTwo(s - 1) /\ f(s - 1) < t
    BY <1>1, <1>7, <1>10, <2>1
  <2>3. PowerOfTwo(s - 1) >= 1 /\ PowerOfTwo(s - 1) \in Nat
    BY <2>1, PowersGrow, PowerOfTwoSteps
  <2> DEFINE p == PowerOfTwo(s - 1)
  <2> HIDE DEF p
  <2>4. t * p >= t
    <3>1. p >= 1 /\ p \in Nat
      BY <2>3 DEF p
    <3>2. t * p = t * (p - 1) + t /\ t * (p - 1) >= 0 /\ t * (p - 1) \in Int
      BY ONLY <3>1, t \in Nat
    <3> QED BY ONLY <3>2, t \in Nat
  <2>5. t * p < t
    BY <2>2 DEF p
  <2>6. t * p \in Int
    BY <2>3 DEF p
  <2> QED BY ONLY <2>4, <2>5, <2>6, t \in Nat
<1>11. f(s) - t \in 0 .. t - 1
  BY <1>7, <1>8, <1>9
<1>12. w = t => s = 0
  BY <1>7, <1>10
<1> QED BY <1>7, <1>8, <1>11, <1>12 DEF s, f

(* The quotient of two numbers, as a Double: its bits as a number come as  *)
(* near to it as they can.                                                 *)
IsDouble(d) == d.bits \in Seq(Bits) /\ Len(d.bits) = 53 /\ d.bits[1] = 1

NearQuotient(w, t, s, d, m) ==
  /\ IsDouble(d) /\ d.point = 1 - s
  /\ m = FromBits(d.bits, 53) /\ m \in Nat
  /\ 2 * (m * t) <= PowerOfTwo(53) * (w * PowerOfTwo(s)) + t
  /\ PowerOfTwo(53) * (w * PowerOfTwo(s)) <= 2 * (m * t) + t
  /\ w = t => s = 0 /\ m = PowerOfTwo(52)

LEMMA QuotientIsNear ==
  ASSUME NEW t \in Nat \ {0}, NEW w \in 1 .. t, 512 * t <= PowerOfTwo(53)
  PROVE  \E s \in Nat, m \in Nat : NearQuotient(w, t, s, Quotient(w, t), m)
<1> DEFINE s == Shift(w, t)
           rem == w * PowerOfTwo(s) - t
           d == Division(rem, t)
           q == Quotient(w, t)
           more == d.rem # 0
           k == FromBits(d.bits, 53)
           b == d.bits[54]
           m == FromBits(q.bits, Len(q.bits))
           p == PowerOfTwo(53)
           up == RoundsUp(d.bits, more)
<1>1. /\ s \in 0 .. t /\ Doublings(w, t)[s] = w * PowerOfTwo(s)
      /\ rem \in 0 .. t - 1 /\ (w = t => s = 0)
  BY ShiftIsThere
<1>2. Divided(t, rem, 53, d)
  BY <1>1, DivisionDivides
<1>3. q = Round([bits |-> d.bits, point |-> 1 - s], more)
  <2>1. Division(Doublings(w, t)[s] - t, t) = d
    BY <1>1
  <2> HIDE DEF d
  <2> QED BY <2>1 DEF Quotient, Shift, s
<1> HIDE DEF s, rem, d, q, k, b, m, p, up
<1>4. /\ d.bits \in Seq(Bits) /\ Len(d.bits) = 54 /\ d.bits[1] = 1
      /\ d.rem \in 0 .. t - 1
      /\ FromBits(d.bits, 54) * t + d.rem = p * (t + rem)
  BY <1>2, 53 + 1 = 54 DEF Divided, p
<1>5. t + rem = w * PowerOfTwo(s) /\ w * PowerOfTwo(s) \in Nat
  <2>1. w * PowerOfTwo(s) \in Nat
    <3>1. w \in Nat /\ PowerOfTwo(s) \in Nat
      BY <1>1, PowerOfTwoSteps
    <3> QED BY ONLY <3>1
  <2> QED BY <2>1 DEF rem
<1>6. FromBits(d.bits, 54) = 2 * k + b /\ k \in Nat /\ b \in Bits
  <2>1. 54 \in 1 .. Len(d.bits) /\ 54 - 1 = 53 /\ 53 \in 0 .. Len(d.bits)
    BY <1>4
  <2>2. /\ FromBits(d.bits, 54) = 2 * FromBits(d.bits, 54 - 1) + d.bits[54]
        /\ FromBits(d.bits, 53) \in Nat
    <3> DEFINE bits == d.bits
    <3> HIDE DEF bits
    <3>1. bits \in Seq(Bits) /\ 54 \in 1 .. Len(bits) /\ 53 \in 0 .. Len(bits)
      BY <1>4, <2>1 DEF bits
    <3>2. FromBits(bits, 54) = 2 * FromBits(bits, 54 - 1) + bits[54] /\ FromBits(bits, 53) \in Nat
      BY ONLY <3>1, FromBitsSteps
    <3> QED BY ONLY <3>2 DEF bits
  <2>3. d.bits[54] \in Bits
    BY ONLY <1>4, <2>1
  <2> QED BY ONLY <2>1, <2>2, <2>3 DEF k, b
<1>7. /\ q.bits \in Seq(Bits) /\ q.bits[1] = 1
      /\ q.point = (1 - s) + Len(q.bits) - 53
      /\ up => m = k + 1
      /\ ~ up => m = k
      /\ \/ Len(q.bits) = 53
         \/ Len(q.bits) = 54 /\ up /\ k + 1 = p
  <2>1. Len(d.bits) > 53 /\ 1 - s \in Int /\ more \in BOOLEAN
    BY <1>1, <1>4
  <2> DEFINE bits == d.bits
             point == 1 - s
  <2>2. bits \in Seq(Bits) /\ Len(bits) > 53 /\ bits[1] = 1 /\ point \in Int /\ more \in BOOLEAN
    BY ONLY <1>4, <2>1
  <2> HIDE DEF more, bits, point
  <2>3. Rounded(Round([bits |-> bits, point |-> point], more), bits, point, more)
    BY ONLY <2>2, RoundIsThis
  <2>4. Rounded(q, d.bits, 1 - s, more)
    BY ONLY <1>3, <2>3 DEF bits, point
  <2> QED BY ONLY <2>4 DEF Rounded, k, m, p, up
<1>8. up => b = 1
  BY DEF up, RoundsUp, b
<1>9. ~ up => b = 0 \/ d.rem = 0
  BY <1>6 DEF up, RoundsUp, b, Bits
<1>10. p \in Nat /\ 512 * t <= p
  BY PowerOfTwoSteps DEF p
<1> DEFINE v == w * PowerOfTwo(s)
           pv == p * v
           kt == k * t
<1> HIDE DEF v, pv, kt
<1>11. v \in Nat /\ v <= 2 * t - 1 /\ pv \in Nat /\ kt \in Nat
  <2>1. v \in Nat /\ v <= 2 * t - 1
    BY <1>1, <1>5 DEF v
  <2> QED BY ONLY <1>6, <1>10, <2>1, t \in Nat DEF pv, kt
<1>12. 2 * kt + b * t + d.rem = pv
  <2>1. (2 * k + b) * t + d.rem = p * v
    BY <1>4, <1>5, <1>6 DEF v
  <2>2. (2 * k + b) * t = 2 * (k * t) + b * t
    <3>1. k \in Int /\ b \in Int /\ t \in Int
      BY <1>6 DEF Bits
    <3> QED BY ONLY <3>1
  <2> QED BY ONLY <2>1, <2>2 DEF pv, kt
<1>13. b * t = IF b = 1 THEN t ELSE 0
  BY <1>6 DEF Bits
<1>14. Len(q.bits) = 53
  <2> SUFFICES ASSUME k + 1 = p, b = 1 PROVE FALSE
    BY <1>7, <1>8
  <2>1. kt = p * t - t
    <3>1. k = p - 1
      BY <1>6, <1>10
    <3> QED BY ONLY <3>1, <1>10, t \in Nat DEF kt
  <2>2. pv <= 2 * (p * t) - p
    <3>1. v = (2 * t - 1) - (2 * t - 1 - v) /\ 2 * t - 1 - v \in Nat
      BY <1>11
    <3>2. p * (2 * t - 1 - v) \in Nat
      BY ONLY <1>10, <3>1
    <3>3. p * (2 * t - 1 - v) = 2 * (p * t) - p - p * v
      BY ONLY <1>10, <1>11, t \in Nat
    <3>4. p * t \in Nat /\ p * v \in Nat
      BY ONLY <1>10, <1>11, t \in Nat
    <3> QED BY ONLY <1>10, <3>2, <3>3, <3>4 DEF pv
  <2>3. p * t \in Nat
    BY ONLY <1>10, t \in Nat
  <2> QED BY ONLY <1>4, <1>10, <1>11, <1>12, <1>13, <2>1, <2>2, <2>3, t \in Nat \ {0}, b = 1
<1>15. m \in Nat /\ 2 * (m * t) <= pv + t /\ pv <= 2 * (m * t) + t
  <2>1. CASE up
    <3>1. m = k + 1 /\ b = 1
      BY <1>7, <1>8, <2>1
    <3>2. m * t = kt + t
      BY ONLY <1>6, <3>1, t \in Nat DEF kt
    <3> QED BY ONLY <1>4, <1>6, <1>11, <1>12, <1>13, <3>1, <3>2, t \in Nat \ {0}
  <2>2. CASE ~ up
    <3>1. m = k /\ (b = 0 \/ d.rem = 0)
      BY <1>7, <1>9, <2>2
    <3>2. m * t = kt
      BY ONLY <3>1 DEF kt
    <3> QED BY ONLY <1>4, <1>6, <1>11, <1>12, <1>13, <3>1, <3>2, t \in Nat \ {0} DEF Bits
  <2> QED BY <2>1, <2>2
<1>16. ASSUME w = t PROVE s = 0 /\ m = PowerOfTwo(52)
  <2>1. s = 0
    BY <1>1, <1>16
  <2>2. v = t
    <3>1. v = t * 1
      BY <1>16, <2>1, PowerOfTwoSteps DEF v
    <3> QED BY <3>1
  <2> DEFINE f == FromBits(d.bits, 54)
             h == PowerOfTwo(52)
  <2>3. p = 2 * h /\ h \in Nat
    BY PowerOfTwoSteps, 52 + 1 = 53, 52 \in Nat DEF p
  <2>4. f * t + d.rem = p * t
    BY <1>4, <1>5, <2>2 DEF v
  <2>5. f = 2 * k + b /\ f \in Nat
    BY <1>6 DEF Bits
  <2> HIDE DEF f, h
  <2>6. f = p
    <3>1. CASE f <= p - 1
      <4>1. (p - 1 - f) * t >= 0 /\ (p - 1 - f) * t = p * t - t - f * t
        BY ONLY <1>10, <2>5, <3>1, t \in Nat
      <4>2. p * t \in Int /\ f * t \in Int
        BY ONLY <1>10, <2>5, t \in Nat
      <4> QED BY ONLY <1>4, <2>4, <4>1, <4>2, t \in Nat
    <3>2. CASE f >= p + 1
      <4>1. (f - p - 1) * t >= 0 /\ (f - p - 1) * t = f * t - p * t - t
        BY ONLY <1>10, <2>5, <3>2, t \in Nat
      <4>2. p * t \in Int /\ f * t \in Int
        BY ONLY <1>10, <2>5, t \in Nat
      <4> QED BY ONLY <1>4, <2>4, <4>1, <4>2, t \in Nat \ {0}
    <3> QED BY ONLY <1>10, <2>5, <3>1, <3>2
  <2>7. b = 0 /\ k = h
    BY ONLY <1>6, <2>3, <2>5, <2>6 DEF Bits
  <2>8. m = k
    BY <1>7, <1>8, <2>7
  <2> QED BY <2>1, <2>7, <2>8 DEF h
<1>17. NearQuotient(w, t, s, q, m)
  <2>1. m = FromBits(q.bits, 53)
    BY <1>14 DEF m
  <2>2. IsDouble(q) /\ q.point = 1 - s
    <3>1. q.point = (1 - s) + 53 - 53
      BY <1>7, <1>14
    <3>2. s \in Int
      BY <1>1
    <3> QED BY <1>7, <1>14, <3>1, <3>2 DEF IsDouble
  <2>3. pv = PowerOfTwo(53) * (w * PowerOfTwo(s))
    BY DEF pv, p, v
  <2> QED BY ONLY <1>15, <1>16, <2>1, <2>2, <2>3 DEF NearQuotient
<1>18. s \in Nat /\ m \in Nat
  BY <1>1, <1>15
<1> QED BY <1>17, <1>18 DEF q

(* The columns of a hundred times the bits, each with what is carried from *)
(* the one after it.                                                       *)
Hundred(bits, i) == IF i > 0 THEN 100 * bits[i] ELSE 0

Carries(bits, m, s) ==
  /\ s \in Seq(Nat) /\ Len(s) = m + 1 /\ s[m + 1] = 100 * bits[53]
  /\ \A j \in 1 .. m : s[j] = Hundred(bits, (53 - m) + j - 1) + s[j + 1] \div 2
  /\ \A j \in 1 .. m + 1 : s[j] <= 199

LEMMA NextColumnCarries ==
  ASSUME NEW bits \in Seq(Bits), Len(bits) = 53, NEW m \in 0 .. 58, NEW s, Carries(bits, m, s)
  PROVE  Carries(bits, m + 1, <<Hundred(bits, 53 - (m + 1)) + s[1] \div 2>> \o s)
<1> DEFINE x == Hundred(bits, 53 - (m + 1)) + s[1] \div 2
           r == <<x>> \o s
<1>1. /\ s \in Seq(Nat) /\ Len(s) = m + 1 /\ s[m + 1] = 100 * bits[53]
      /\ \A j \in 1 .. m : s[j] = Hundred(bits, (53 - m) + j - 1) + s[j + 1] \div 2
      /\ \A j \in 1 .. m + 1 : s[j] <= 199
  BY DEF Carries
<1>2. Hundred(bits, 53 - (m + 1)) \in {0, 100}
  <2>1. ASSUME 53 - (m + 1) > 0 PROVE bits[53 - (m + 1)] \in Bits
    <3>1. 53 - (m + 1) \in 1 .. Len(bits)
      BY <2>1
    <3> QED BY ONLY <3>1, bits \in Seq(Bits)
  <2> QED BY <2>1 DEF Hundred, Bits
<1>3. x \in Nat /\ x <= 199
  <2>1. 1 \in 1 .. m + 1 /\ s[1] \in Nat
    BY <1>1
  <2>2. s[1] <= 199
    BY <1>1, <2>1
  <2> QED BY ONLY <1>2, <2>1, <2>2
<1> HIDE DEF x
<1>4. /\ r \in Seq(Nat) /\ Len(r) = m + 2 /\ r[1] = x
      /\ \A j \in 1 .. m + 1 : r[j + 1] = s[j]
  BY <1>1, <1>3
<1> HIDE DEF r
<1>5. r[m + 2] = 100 * bits[53]
  <2>1. r[(m + 1) + 1] = s[m + 1]
    BY ONLY <1>4, m + 1 \in 1 .. m + 1, m \in 0 .. 58
  <2> QED BY <1>1, <2>1
<1>6. ASSUME NEW j \in 1 .. m + 1
      PROVE  r[j] = Hundred(bits, (53 - (m + 1)) + j - 1) + r[j + 1] \div 2
  <2>1. r[j + 1] = s[j]
    BY <1>4
  <2>2. CASE j = 1
    <3>1. (53 - (m + 1)) + j - 1 = 53 - (m + 1)
      BY ONLY <2>2, m \in 0 .. 58
    <3>2. r[j] = x /\ s[j] = s[1]
      BY ONLY <1>4, <2>2
    <3> QED BY ONLY <2>1, <3>1, <3>2 DEF x
  <2>3. CASE j # 1
    <3>1. j - 1 \in 1 .. m /\ j - 1 \in 1 .. m + 1 /\ (j - 1) + 1 = j
      BY <2>3
    <3>2. r[j] = s[j - 1]
      BY ONLY <1>4, <3>1
    <3>3. s[j - 1] = Hundred(bits, (53 - m) + (j - 1) - 1) + s[j] \div 2
      BY <1>1, <3>1
    <3>4. (53 - m) + (j - 1) - 1 = (53 - (m + 1)) + j - 1
      OBVIOUS
    <3> QED BY <2>1, <3>2, <3>3, <3>4
  <2> QED BY <2>2, <2>3
<1>7. ASSUME NEW j \in 1 .. m + 2 PROVE r[j] <= 199
  <2>1. CASE j = 1
    BY <1>3, <1>4, <2>1
  <2>2. CASE j # 1
    <3>1. j - 1 \in 1 .. m + 1 /\ (j - 1) + 1 = j
      BY <2>2
    <3>2. r[j] = s[j - 1]
      BY ONLY <1>4, <3>1
    <3> QED BY <1>1, <3>1, <3>2
  <2> QED BY <2>1, <2>2
<1>8. (m + 1) + 1 = m + 2
  OBVIOUS
<1>9. Carries(bits, m + 1, r)
  BY ONLY <1>4, <1>5, <1>6, <1>7, <1>8 DEF Carries
<1> QED BY <1>9 DEF r, x

LEMMA Places ==
  /\ \A i \in -6 .. 53 : i # 53 =>
       /\ 53 - i \in 1 .. 59 /\ (53 - i) - 1 = 53 - (i + 1) /\ i + 1 \in -6 .. 53
       /\ 53 - (53 - i) = i /\ (53 - i) - 1 \in 0 .. 59
  /\ \A m \in Nat : m + 1 <= 59 =>
       /\ m \in 0 .. 58 /\ 53 - (m + 1) \in -6 .. 52 /\ (53 - (m + 1)) + 1 = 53 - m
       /\ m <= 59
  OBVIOUS

LEMMA Halves ==
  ASSUME NEW h \in Nat, NEW c \in Nat
  PROVE  h + c \div 2 \in Nat
  OBVIOUS

LEMMA ColumnsCarry ==
  ASSUME NEW bits \in Seq(Bits), Len(bits) = 53
  PROVE  Carries(bits, 59, Columns(bits))
<1> DEFINE V == Seq(Nat) \ {<< >>}
           Before(i, s) == <<Hundred(bits, i) + s[1] \div 2>> \o s
           first == <<100 * bits[53]>>
           G == [p \in (1 .. 59) \X V |-> Before(53 - p[1], p[2])]
           Is(f, n) == f = [i \in -6 .. n |->
                              IF i = n THEN <<100 * bits[i]>> ELSE Before(i, f[i + 1])]
           from == CHOOSE f : Is(f, Len(bits))
<1>1. ASSUME NEW i \in -6 .. 53 PROVE Hundred(bits, i) \in Nat
  <2>1. ASSUME i > 0 PROVE bits[i] \in Bits
    <3>1. i \in 1 .. Len(bits)
      BY <2>1
    <3> QED BY ONLY <3>1, bits \in Seq(Bits)
  <2> QED BY <2>1 DEF Hundred, Bits
<1>2. ASSUME NEW i \in -6 .. 53, NEW s \in V PROVE Before(i, s) \in V
  <2>1. Len(s) > 0 /\ s \in Seq(Nat)
    OBVIOUS
  <2>2. s[1] \in Nat
    BY <2>1
  <2>3. Hundred(bits, i) + s[1] \div 2 \in Nat
    <3>1. Hundred(bits, i) \in Nat
      BY ONLY <1>1, i \in -6 .. 53
    <3> QED BY ONLY <2>2, <3>1, Halves
  <2> DEFINE x == Hundred(bits, i) + s[1] \div 2
  <2> HIDE DEF x
  <2>4. x \in Nat
    BY <2>3 DEF x
  <2>5. <<x>> \o s \in Seq(Nat) /\ Len(<<x>> \o s) = Len(s) + 1
    BY ONLY <2>1, <2>4
  <2>6. <<x>> \o s # << >>
    BY ONLY <2>1, <2>5
  <2> QED BY <2>5, <2>6 DEF x
<1>3. first \in V /\ first[1] = 100 * bits[53] /\ Len(first) = 1 /\ bits[53] \in Bits
  <2>1. bits[53] \in Bits
    <3>1. 53 \in 1 .. Len(bits)
      OBVIOUS
    <3> QED BY ONLY <3>1, bits \in Seq(Bits)
  <2>2. 100 * bits[53] \in Nat
    BY <2>1 DEF Bits
  <2> QED BY <2>1, <2>2
<1> HIDE DEF Before, V, first
<1>4. G \in [(1 .. 59) \X V -> V] /\ \A k \in 1 .. 59, s \in V : G[<<k, s>>] = Before(53 - k, s)
  <2>1. \A k \in 1 .. 59 : 53 - k \in -6 .. 53
    OBVIOUS
  <2>2. \A k \in 1 .. 59, s \in V : Before(53 - k, s) \in V
    BY <1>2, <2>1
  <2> QED BY <2>2
<1> HIDE DEF G
<1>5. PICK f \in [0 .. 59 -> V] : Follows(f, 59, first, G)
  BY ONLY <1>3, <1>4, StepsAreThere, 59 \in Nat, Zenon
<1> DEFINE g == [i \in -6 .. 53 |-> f[53 - i]]
<1>6. Is(g, Len(bits))
  <2>1. ASSUME NEW i \in -6 .. 53 PROVE g[i] = IF i = 53 THEN first ELSE Before(i, g[i + 1])
    <3>1. CASE i = 53
      BY <1>5, <3>1 DEF Follows
    <3>2. CASE i # 53
      <4>1. 53 - i \in 1 .. 59 /\ (53 - i) - 1 = 53 - (i + 1) /\ i + 1 \in -6 .. 53
            /\ 53 - (53 - i) = i /\ (53 - i) - 1 \in 0 .. 59
        BY ONLY <3>2, i \in -6 .. 53, Places, Zenon
      <4>2. g[i + 1] = f[(53 - i) - 1] /\ g[i] = f[53 - i]
        BY <4>1
      <4>3. f[53 - i] = G[<<53 - i, f[(53 - i) - 1]>>] /\ f[(53 - i) - 1] \in V
        BY <1>5, <4>1 DEF Follows
      <4>4. f[53 - i] = Before(53 - (53 - i), f[(53 - i) - 1])
        BY <1>4, <4>1, <4>3
      <4> HIDE DEF g
      <4> QED BY <3>2, <4>1, <4>2, <4>4
    <3> QED BY <3>1, <3>2
  <2>2. g = [i \in -6 .. 53 |-> g[i]]
    OBVIOUS
  <2>3. \A i \in -6 .. 53 : i = Len(bits) => <<100 * bits[i]>> = first
    BY DEF first
  <2>4. Len(bits) = 53
    OBVIOUS
  <2> HIDE DEF g
  <2>5. Is(g, 53)
    <3>1. \A i \in -6 .. 53 : g[i] = IF i = 53 THEN <<100 * bits[i]>> ELSE Before(i, g[i + 1])
      BY ONLY <2>1, <2>3, <2>4
    <3> QED BY ONLY <2>2, <3>1
  <2> HIDE DEF Is
  <2> QED BY ONLY <2>4, <2>5
<1> HIDE DEF g
<1>7. Is(from, Len(bits))
  BY <1>6
<1>8. Columns(bits) = from[-6]
  BY DEF Columns, Before, Hundred
<1> HIDE DEF from
<1>9. from[53] = first /\ \A i \in -6 .. 52 : from[i] = Before(i, from[i + 1])
  <2>1. from = [i \in -6 .. 53 |-> IF i = 53 THEN <<100 * bits[i]>> ELSE Before(i, from[i + 1])]
    <3>1. Len(bits) = 53
      OBVIOUS
    <3>2. Is(from, 53)
      <4> HIDE DEF Is
      <4> QED BY ONLY <1>7, <3>1
    <3> QED BY ONLY <3>2
  <2>2. \A i \in -6 .. 53 : from[i] = IF i = 53 THEN <<100 * bits[i]>> ELSE Before(i, from[i + 1])
    BY ONLY <2>1
  <2>3. 53 \in -6 .. 53 /\ \A i \in -6 .. 52 : i \in -6 .. 53 /\ i # 53
    OBVIOUS
  <2> QED BY ONLY <2>2, <2>3 DEF first
<1> DEFINE T == {m \in Nat : m <= 59 => Carries(bits, m, from[53 - m])}
<1>10. 0 \in T
  <2>1. first \in Seq(Nat) /\ 0 + 1 = 1 /\ 100 * bits[53] <= 199
    <3>1. first \in Seq(Nat)
      BY ONLY <1>3 DEF V
    <3>2. 100 * bits[53] <= 199
      <4> DEFINE b == bits[53]
      <4>1. b \in {0, 1}
        BY ONLY <1>3 DEF Bits
      <4> HIDE DEF b
      <4>2. 100 * b <= 199
        BY ONLY <4>1
      <4> QED BY ONLY <4>2 DEF b
    <3> QED BY ONLY <3>1, <3>2
  <2>2. \A j \in 1 .. 0 : FALSE
    OBVIOUS
  <2>3. \A j \in 1 .. 0 + 1 : j = 1
    OBVIOUS
  <2>4. Carries(bits, 0, first)
    BY ONLY <1>3, <2>1, <2>2, <2>3 DEF Carries
  <2>5. from[53 - 0] = first
    BY <1>9, 53 - 0 = 53
  <2> QED BY <2>4, <2>5
<1>11. ASSUME NEW m \in Nat, m \in T PROVE m + 1 \in T
  <2> SUFFICES ASSUME m + 1 <= 59 PROVE Carries(bits, m + 1, from[53 - (m + 1)])
    OBVIOUS
  <2>1. m \in 0 .. 58 /\ 53 - (m + 1) \in -6 .. 52 /\ (53 - (m + 1)) + 1 = 53 - m
    BY ONLY m \in Nat, m + 1 <= 59, Places, Zenon
  <2>2. from[53 - (m + 1)] = Before(53 - (m + 1), from[53 - m])
    BY ONLY <1>9, <2>1
  <2>3. Carries(bits, m, from[53 - m])
    BY <1>11, <2>1
  <2>4. Carries(bits, m + 1, Before(53 - (m + 1), from[53 - m]))
    <3> DEFINE s == from[53 - m]
    <3> HIDE DEF s
    <3>1. Carries(bits, m, s)
      BY <2>3 DEF s
    <3>2. Carries(bits, m + 1, <<Hundred(bits, 53 - (m + 1)) + s[1] \div 2>> \o s)
      BY ONLY <2>1, <3>1, NextColumnCarries, bits \in Seq(Bits), Len(bits) = 53
    <3> QED BY ONLY <3>2 DEF Before, s
  <2> QED BY <2>2, <2>4
<1> HIDE DEF T
<1>12. 59 \in T
  BY <1>10, <1>11, Induction, 59 \in Nat
<1> QED BY <1>8, <1>12, 53 - 59 = -6 DEF T

(* Halving a number, from column to column. *)
LEMMA HalfOf199 ==
  ASSUME NEW x \in 100 .. 199, NEW y, y = x \div 2
  PROVE  y \in 50 .. 99 /\ y # 0
  OBVIOUS

LEMMA HalfOf99 ==
  ASSUME NEW x \in 50 .. 99, NEW y, y = x \div 2
  PROVE  y \in 25 .. 49 /\ y # 0
  OBVIOUS

LEMMA HalfOf49 ==
  ASSUME NEW x \in 25 .. 49, NEW y, y = x \div 2
  PROVE  y \in 12 .. 24 /\ y # 0
  OBVIOUS

LEMMA HalfOf24 ==
  ASSUME NEW x \in 12 .. 24, NEW y, y = x \div 2
  PROVE  y \in 6 .. 12 /\ y # 0
  OBVIOUS

LEMMA HalfOf12 ==
  ASSUME NEW x \in 6 .. 12, NEW y, y = x \div 2
  PROVE  y \in 3 .. 6 /\ y # 0
  OBVIOUS

LEMMA HalfOf6 ==
  ASSUME NEW x \in 3 .. 6, NEW y, y = x \div 2
  PROVE  y \in 1 .. 3 /\ y # 0
  OBVIOUS

LEMMA HalfOf3 ==
  ASSUME NEW x \in 1 .. 3, NEW y, y = x \div 2
  PROVE  y = 1 \/ (y = 0 /\ x = 1)
<1>1. x = 1 => y = 0
  OBVIOUS
<1>2. x = 2 => y = 1
  OBVIOUS
<1>3. x = 3 => y = 1
  OBVIOUS
<1>4. x = 1 \/ x = 2 \/ x = 3
  BY ONLY x \in 1 .. 3
<1> QED BY ONLY <1>1, <1>2, <1>3, <1>4

LEMMA AtLeastHundred ==
  ASSUME NEW x \in Nat, x <= 199, NEW c \in Nat, x = 100 + c
  PROVE  x \in 100 .. 199 /\ x # 0
  OBVIOUS

LEMMA ElementsOfSequence ==
  ASSUME NEW S, NEW s, s \in Seq(S), NEW n, Len(s) = n
  PROVE  \A j \in 1 .. n : s[j] \in S
<1> TAKE j \in 1 .. n
<1>1. j \in 1 .. Len(s)
  OBVIOUS
<1> QED BY ONLY <1>1, s \in Seq(S)

(* Of the columns before the first bit one or two are zero, and then there *)
(* is a one.                                                               *)
LEMMA FirstColumns ==
  ASSUME NEW bits \in Seq(Bits), Len(bits) = 53, bits[1] = 1, NEW s, Carries(bits, 59, s)
  PROVE  /\ s \in Seq(Nat) /\ Len(s) = 60
         /\ \A j \in 1 .. 59 : s[j] = Hundred(bits, j - 7) + s[j + 1] \div 2
         /\ s[60] = Hundred(bits, 60 - 7)
         /\ \A k \in 2 .. 8 : s[k] # 0
         /\ s[1] = 1 \/ (s[1] = 0 /\ s[2] = 1)
<1>1. /\ s \in Seq(Nat) /\ Len(s) = 60 /\ s[60] = 100 * bits[53]
      /\ \A j \in 1 .. 59 : s[j] = Hundred(bits, (53 - 59) + j - 1) + s[j + 1] \div 2
      /\ \A j \in 1 .. 60 : s[j] <= 199
  BY 59 + 1 = 60 DEF Carries
<1>2. \A j \in 1 .. 59 : (53 - 59) + j - 1 = j - 7 /\ j \in 1 .. 60
  OBVIOUS
<1>3. \A j \in 1 .. 59 : s[j] = Hundred(bits, j - 7) + s[j + 1] \div 2
  BY ONLY <1>1, <1>2
<1>4. s[60] = Hundred(bits, 60 - 7)
  BY ONLY <1>1 DEF Hundred
<1>5. \A j \in 1 .. 60 : s[j] \in Nat /\ s[j] <= 199
  <2>1. \A j \in 1 .. 60 : s[j] \in Nat
    BY ONLY <1>1, ElementsOfSequence
  <2> QED BY ONLY <1>1, <2>1
<1>6. \A j \in 1 .. 7 : Hundred(bits, j - 7) = 0 /\ j \in 1 .. 59
  BY DEF Hundred
<1>7. \A j \in 1 .. 7 : s[j] = s[j + 1] \div 2
  <2> TAKE j \in 1 .. 7
  <2>1. s[j] = 0 + s[j + 1] \div 2
    BY ONLY <1>3, <1>6, j \in 1 .. 7
  <2>2. j + 1 \in 1 .. 60
    BY ONLY j \in 1 .. 7
  <2>3. s[j + 1] \in Nat
    BY ONLY <1>5, <2>2
  <2> QED BY ONLY <2>1, <2>3
<1>8. s[8] \in 100 .. 199 /\ s[8] # 0
  <2>1. Hundred(bits, 8 - 7) = 100
    BY DEF Hundred
  <2>2. s[8] = Hundred(bits, 8 - 7) + s[8 + 1] \div 2
    BY ONLY <1>3, 8 \in 1 .. 59
  <2>3. s[8] \in Nat /\ s[8] <= 199 /\ s[9] \in Nat
    BY ONLY <1>5, 8 \in 1 .. 60, 9 \in 1 .. 60
  <2>4. s[9] \div 2 \in Nat
    BY ONLY <2>3
  <2>5. s[8] = 100 + s[9] \div 2
    BY ONLY <2>1, <2>2, 8 + 1 = 9
  <2> QED BY ONLY <2>3, <2>4, <2>5, AtLeastHundred
<1>9. s[7] = s[8] \div 2
  BY ONLY <1>7, 7 \in 1 .. 7, 7 + 1 = 8
<1>10. s[7] \in 50 .. 99 /\ s[7] # 0
  <2> DEFINE x == s[8]
             y == s[7]
  <2>1. x \in 100 .. 199 /\ y = x \div 2
    BY ONLY <1>8, <1>9
  <2> HIDE DEF x, y
  <2>2. y \in 50 .. 99 /\ y # 0
    BY ONLY <2>1, HalfOf199
  <2> QED BY ONLY <2>2 DEF y
<1>11. s[6] = s[7] \div 2
  BY ONLY <1>7, 6 \in 1 .. 7, 6 + 1 = 7
<1>12. s[6] \in 25 .. 49 /\ s[6] # 0
  BY ONLY <1>10, <1>11, HalfOf99
<1>13. s[5] = s[6] \div 2
  BY ONLY <1>7, 5 \in 1 .. 7, 5 + 1 = 6
<1>14. s[5] \in 12 .. 24 /\ s[5] # 0
  BY ONLY <1>12, <1>13, HalfOf49
<1>15. s[4] = s[5] \div 2
  BY ONLY <1>7, 4 \in 1 .. 7, 4 + 1 = 5
<1>16. s[4] \in 6 .. 12 /\ s[4] # 0
  BY ONLY <1>14, <1>15, HalfOf24
<1>17. s[3] = s[4] \div 2
  BY ONLY <1>7, 3 \in 1 .. 7, 3 + 1 = 4
<1>18. s[3] \in 3 .. 6 /\ s[3] # 0
  BY ONLY <1>16, <1>17, HalfOf12
<1>19. s[2] = s[3] \div 2
  BY ONLY <1>7, 2 \in 1 .. 7, 2 + 1 = 3
<1>20. s[2] \in 1 .. 3 /\ s[2] # 0
  BY ONLY <1>18, <1>19, HalfOf6
<1>21. s[1] = s[2] \div 2
  BY ONLY <1>7, 1 \in 1 .. 7, 1 + 1 = 2
<1>22. s[1] = 1 \/ (s[1] = 0 /\ s[2] = 1)
  BY ONLY <1>20, <1>21, HalfOf3
<1>23. s[2] # 0 /\ s[3] # 0 /\ s[4] # 0 /\ s[5] # 0 /\ s[6] # 0 /\ s[7] # 0 /\ s[8] # 0
  BY ONLY <1>8, <1>10, <1>12, <1>14, <1>16, <1>18, <1>20, Zenon
<1>24. \A k \in 2 .. 8 : s[k] # 0
  <2> TAKE k \in 2 .. 8
  <2>1. k = 2 \/ k = 3 \/ k = 4 \/ k = 5 \/ k = 6 \/ k = 7 \/ k = 8
    BY ONLY k \in 2 .. 8
  <2> QED BY ONLY <1>23, <2>1, Zenon
<1> QED BY ONLY <1>1, <1>3, <1>4, <1>22, <1>24

(* The columns from the first that is not zero, each without what it       *)
(* carries, are the bits of the product.                                   *)
Product(s, first) == [i \in 1 .. 61 - first |-> s[first + i - 1] % 2]

LEMMA ProductIsThis ==
  ASSUME NEW bits \in Seq(Bits), Len(bits) = 53, bits[1] = 1, NEW s, Carries(bits, 59, s),
         NEW first \in {1, 2}, s[first] = 1
  PROVE  /\ Product(s, first) \in Seq(Bits) /\ Len(Product(s, first)) = 61 - first
         /\ Product(s, first)[1] = 1
         /\ FromBits(Product(s, first), 61 - first) = 100 * FromBits(bits, 53)
<1> DEFINE p == Product(s, first)
           carry(j) == IF j = 60 THEN 0 ELSE s[j + 1] \div 2
           before(j) == IF j <= 7 THEN 0 ELSE FromBits(bits, j - 7)
<1>1. /\ s \in Seq(Nat) /\ Len(s) = 60
      /\ \A j \in 1 .. 59 : s[j] = Hundred(bits, j - 7) + s[j + 1] \div 2
      /\ s[60] = Hundred(bits, 60 - 7)
  BY ONLY FirstColumns, bits \in Seq(Bits), Len(bits) = 53, bits[1] = 1, Carries(bits, 59, s)
<1>2. \A j \in 1 .. 60 : s[j] \in Nat
  BY ONLY <1>1, ElementsOfSequence
<1>3. \A i \in 1 .. 61 - first : first + i - 1 \in 1 .. 60
  BY ONLY first \in {1, 2}
<1>4. \A j \in 1 .. 60 : s[j] % 2 \in {0, 1}
  <2> TAKE j \in 1 .. 60
  <2>1. s[j] \in Nat
    BY <1>2
  <2> QED BY ONLY <2>1
<1>5. /\ p \in Seq(Bits) /\ Len(p) = 61 - first
      /\ \A i \in 1 .. 61 - first : p[i] = s[first + i - 1] % 2
  <2>1. 61 - first \in Nat
    BY ONLY first \in {1, 2}
  <2>2. p \in [1 .. 61 - first -> Bits]
    BY ONLY <1>3, <1>4 DEF p, Product, Bits
  <2>3. \A i \in 1 .. 61 - first : p[i] = s[first + i - 1] % 2
    BY ONLY <1>3 DEF p, Product
  <2> HIDE DEF p
  <2> QED BY ONLY <2>1, <2>2, <2>3, FunctionIsSequence
<1> HIDE DEF p
<1>6. p[1] = 1
  <2>1. 1 \in 1 .. 61 - first /\ first + 1 - 1 = first
    BY ONLY first \in {1, 2}
  <2>2. p[1] = s[first] % 2
    BY ONLY <1>5, <2>1
  <2> QED BY ONLY <2>2, s[first] = 1
<1>7. ASSUME NEW j \in 1 .. 60 PROVE s[j] = Hundred(bits, j - 7) + carry(j) /\ carry(j) \in Nat
  <2>1. CASE j = 60
    <3>1. Hundred(bits, 60 - 7) \in Nat /\ carry(60) = 0
      <4>1. s[60] \in Nat
        BY ONLY <1>2
      <4> QED BY ONLY <1>1, <4>1
    <3>2. s[60] = Hundred(bits, 60 - 7) + carry(60)
      <4> DEFINE h == Hundred(bits, 60 - 7)
      <4>1. h \in Nat /\ carry(60) = 0 /\ s[60] = h
        BY ONLY <1>1, <3>1
      <4> HIDE DEF h, carry
      <4>2. s[60] = h + carry(60)
        BY ONLY <4>1
      <4> QED BY ONLY <4>2 DEF h
    <3> HIDE DEF carry
    <3> QED BY ONLY <2>1, <3>1, <3>2
  <2>2. CASE j # 60
    <3>1. j \in 1 .. 59 /\ j + 1 \in 1 .. 60
      BY ONLY <2>2, j \in 1 .. 60
    <3>2. s[j + 1] \in Nat
      BY ONLY <1>2, <3>1
    <3>3. carry(j) = s[j + 1] \div 2
      BY ONLY <2>2
    <3>4. s[j + 1] \div 2 \in Nat
      BY ONLY <3>2
    <3>5. s[j] = Hundred(bits, j - 7) + s[j + 1] \div 2
      BY ONLY <1>1, <3>1
    <3> HIDE DEF carry
    <3> QED BY ONLY <3>3, <3>4, <3>5
  <2> QED BY ONLY <2>1, <2>2
<1>8. ASSUME NEW j \in 1 .. 59
      PROVE  100 * before(j + 1) = 200 * before(j) + Hundred(bits, (j + 1) - 7) /\ before(j) \in Nat
  <2>1. CASE j < 7
    <3>1. before(j) = 0 /\ before(j + 1) = 0 /\ Hundred(bits, (j + 1) - 7) = 0
      BY ONLY <2>1, j \in 1 .. 59 DEF Hundred
    <3> HIDE DEF before
    <3> QED BY ONLY <3>1
  <2>2. CASE j >= 7
    <3> DEFINE k == (j + 1) - 7
    <3>1. k \in 1 .. Len(bits) /\ k - 1 \in 0 .. Len(bits) /\ j - 7 = k - 1 /\ k > 0
      BY ONLY <2>2, j \in 1 .. 59, Len(bits) = 53
    <3>2. before(j + 1) = FromBits(bits, k)
      BY ONLY <2>2, j \in 1 .. 59
    <3>3. before(j) = FromBits(bits, k - 1)
      <4>1. CASE j = 7
        <5>1. k - 1 = 0
          BY ONLY <4>1
        <5>2. before(j) = 0
          BY ONLY <4>1
        <5> HIDE DEF before, k
        <5> QED BY ONLY <5>1, <5>2, FromBitsSteps, bits \in Seq(Bits)
      <4>2. CASE j # 7
        <5>1. before(j) = FromBits(bits, j - 7)
          BY ONLY <2>2, <4>2, j \in 1 .. 59
        <5> HIDE DEF before, k
        <5> QED BY ONLY <3>1, <5>1
      <4> QED BY ONLY <4>1, <4>2
    <3>4. Hundred(bits, k) = 100 * bits[k]
      BY ONLY <3>1 DEF Hundred
    <3> HIDE DEF before, k
    <3>5. FromBits(bits, k) = 2 * FromBits(bits, k - 1) + bits[k] /\ FromBits(bits, k - 1) \in Nat
      BY ONLY <3>1, FromBitsSteps, bits \in Seq(Bits)
    <3>6. bits[k] \in Nat
      <4>1. bits[k] \in Bits
        BY ONLY <3>1, bits \in Seq(Bits)
      <4> QED BY ONLY <4>1 DEF Bits
    <3>7. 100 * before(j + 1) = 200 * before(j) + Hundred(bits, k) /\ before(j) \in Nat
      BY ONLY <3>2, <3>3, <3>4, <3>5, <3>6
    <3> QED BY ONLY <3>7 DEF k
  <2> QED BY ONLY <2>1, <2>2, j \in 1 .. 59
<1> DEFINE Is(i) == FromBits(p, i + 1) = 100 * before(first + i) + carry(first + i)
           T == {i \in Nat : first + i <= 60 => Is(i)}
<1>9. 0 \in T
  <2>1. first + 0 = first /\ first \in 1 .. 60 /\ first <= 7 /\ first - 7 <= 0 /\ 0 + 1 = 1
    BY ONLY first \in {1, 2}
  <2>2. before(first) = 0
    BY ONLY <2>1
  <2>3. Hundred(bits, first - 7) = 0
    BY ONLY <2>1 DEF Hundred
  <2>4. s[first] = Hundred(bits, first - 7) + carry(first) /\ carry(first) \in Nat
    BY ONLY <1>7, <2>1
  <2>5. FromBits(p, 1) = 1
    <3>1. Len(p) > 0
      BY ONLY <1>5, first \in {1, 2}
    <3> QED BY ONLY <1>5, <1>6, <3>1, FirstBit
  <2> HIDE DEF before, carry
  <2>6. FromBits(p, 1) = 100 * before(first) + carry(first)
    BY ONLY <2>2, <2>3, <2>4, <2>5, s[first] = 1
  <2> QED BY ONLY <2>1, <2>6
<1>10. ASSUME NEW i \in Nat, i \in T PROVE i + 1 \in T
  <2> SUFFICES ASSUME first + (i + 1) <= 60 PROVE Is(i + 1)
    OBVIOUS
  <2> DEFINE j == first + i
  <2>1. /\ j \in 1 .. 59 /\ j + 1 \in 1 .. 60 /\ first + (i + 1) = j + 1 /\ (i + 1) + 1 = i + 2
        /\ i + 2 \in 1 .. 61 - first /\ (i + 2) - 1 = i + 1 /\ first + (i + 2) - 1 = j + 1
        /\ i + 1 \in 0 .. 61 - first /\ first + i <= 60
    BY ONLY first + (i + 1) <= 60, i \in Nat, first \in {1, 2}
  <2>2. FromBits(p, i + 1) = 100 * before(j) + carry(j)
    <3> HIDE DEF before, carry
    <3> QED BY <1>10, <2>1
  <2>3. carry(j) = s[j + 1] \div 2
    BY ONLY <2>1
  <2>4. s[j + 1] \in Nat
    BY ONLY <1>2, <2>1
  <2>5. p[i + 2] = s[j + 1] % 2
    <3>1. p[i + 2] = s[first + (i + 2) - 1] % 2
      BY ONLY <1>5, <2>1
    <3> HIDE DEF j
    <3> QED BY ONLY <2>1, <3>1
  <2> HIDE DEF before, carry, j
  <2>6. FromBits(p, i + 2) = 2 * FromBits(p, i + 1) + p[i + 2]
    BY ONLY <1>5, <2>1, FromBitsSteps
  <2>7. 2 * carry(j) + p[i + 2] = s[j + 1] /\ carry(j) \in Nat /\ p[i + 2] \in Nat
    <3> DEFINE x == s[j + 1]
               c == carry(j)
               bit == p[i + 2]
    <3>1. x \in Nat /\ c = x \div 2 /\ bit = x % 2
      BY ONLY <2>3, <2>4, <2>5
    <3> HIDE DEF x, c, bit
    <3>2. c \in Nat /\ bit \in Nat
      BY ONLY <3>1
    <3>3. 2 * c + bit = x
      BY ONLY <3>1, <3>2
    <3> QED BY ONLY <3>2, <3>3 DEF x, c, bit
  <2>8. s[j + 1] = Hundred(bits, (j + 1) - 7) + carry(j + 1) /\ carry(j + 1) \in Nat
    BY ONLY <1>7, <2>1
  <2>9. 100 * before(j + 1) = 200 * before(j) + Hundred(bits, (j + 1) - 7) /\ before(j) \in Nat
    BY ONLY <1>8, <2>1
  <2> DEFINE u == Hundred(bits, (j + 1) - 7)
  <2> HIDE DEF u
  <2>10. FromBits(p, i + 2) = 100 * before(j + 1) + carry(j + 1)
    <3>1. s[j + 1] = u + carry(j + 1)
      BY ONLY <2>8 DEF u
    <3>2. 100 * before(j + 1) = 200 * before(j) + u
      BY ONLY <2>9 DEF u
    <3>3. u \in Int
      <4>1. (j + 1) - 7 > 0 => (j + 1) - 7 \in 1 .. 53
        BY ONLY <2>1
      <4>2. \A x \in 1 .. 53 : bits[x] \in Bits
        BY ONLY ElementsOfSequence, bits \in Seq(Bits), Len(bits) = 53
      <4> DEFINE k == (j + 1) - 7
      <4> HIDE DEF k
      <4>3. k > 0 => bits[k] \in Bits
        BY ONLY <4>1, <4>2 DEF k
      <4>4. Hundred(bits, k) \in Int
        BY ONLY <4>3 DEF Hundred, Bits
      <4> QED BY ONLY <4>4 DEF u, k
    <3> DEFINE f == FromBits(p, i + 1)
               g == FromBits(p, i + 2)
               x == s[j + 1]
               c == carry(j)
               d == carry(j + 1)
               v == before(j)
               w == before(j + 1)
               bit == p[i + 2]
    <3>4. /\ f = 100 * v + c /\ g = 2 * f + bit /\ 2 * c + bit = x /\ x = u + d
          /\ 100 * w = 200 * v + u
          /\ v \in Nat /\ c \in Nat /\ bit \in Nat /\ x \in Nat /\ d \in Nat
      BY ONLY <2>2, <2>4, <2>6, <2>7, <2>8, <2>9, <3>1, <3>2
    <3> HIDE DEF f, g, x, c, d, v, w, bit
    <3>5. 100 * w \in Int /\ 100 * w = 200 * v + u
      BY ONLY <3>3, <3>4
    <3> DEFINE y == 100 * w
    <3> HIDE DEF y
    <3>6. y = 200 * v + u
      BY ONLY <3>5 DEF y
    <3>7. g = y + d
      BY ONLY <3>3, <3>4, <3>6
    <3> QED BY ONLY <3>7 DEF y, g, w, d
  <2> QED BY ONLY <2>1, <2>10
<1> HIDE DEF T
<1>11. 60 - first \in T
  <2>1. 60 - first \in Nat
    BY ONLY first \in {1, 2}
  <2> QED BY ONLY <1>9, <1>10, <2>1, Induction
<1>12. FromBits(p, 61 - first) = 100 * FromBits(bits, 53)
  <2>1. first + (60 - first) = 60 /\ (60 - first) + 1 = 61 - first /\ first + (60 - first) <= 60
    BY ONLY first \in {1, 2}
  <2>2. before(60) = FromBits(bits, 53) /\ carry(60) = 0
    BY ONLY TRUE
  <2> HIDE DEF before, carry
  <2>3. FromBits(p, 61 - first) = 100 * before(60) + carry(60)
    BY <1>11, <2>1 DEF T
  <2>4. FromBits(bits, 53) \in Nat
    <3>1. 53 \in 0 .. Len(bits)
      BY ONLY Len(bits) = 53
    <3> QED BY ONLY <3>1, FromBitsSteps, bits \in Seq(Bits)
  <2> QED BY ONLY <2>2, <2>3, <2>4
<1> QED BY ONLY <1>5, <1>6, <1>12 DEF p

(* Six or seven bits after the 53rd are rounded to a 54th: the number is    *)
(* at most half of its last place away.                                    *)
RoundedTo(bits, n) ==
  /\ RoundsUp(bits, FALSE) => n = FromBits(bits, 53) + 1
  /\ ~ RoundsUp(bits, FALSE) => n = FromBits(bits, 53)

LEMMA SixBitsRounded ==
  ASSUME NEW bits \in Seq(Bits), Len(bits) = 59, NEW n, RoundedTo(bits, n)
  PROVE  64 * n <= FromBits(bits, 59) + 32 /\ FromBits(bits, 59) <= 64 * n + 32
<1>1. \A k \in 54 .. 59 : /\ k \in 1 .. Len(bits)
                          /\ FromBits(bits, k) = 2 * FromBits(bits, k - 1) + bits[k]
                          /\ bits[k] \in Bits
  <2>1. \A k \in 54 .. 59 : k \in 1 .. Len(bits)
    BY ONLY Len(bits) = 59
  <2>2. \A k \in 1 .. Len(bits) : FromBits(bits, k) = 2 * FromBits(bits, k - 1) + bits[k]
    BY ONLY FromBitsSteps, bits \in Seq(Bits)
  <2>3. \A k \in 54 .. 59 : bits[k] \in Bits
    BY ONLY <2>1, bits \in Seq(Bits)
  <2> QED BY ONLY <2>1, <2>2, <2>3, Zenon
<1>2. FromBits(bits, 53) \in Nat
  <2>1. 53 \in 0 .. Len(bits)
    BY ONLY Len(bits) = 59
  <2> QED BY ONLY <2>1, FromBitsSteps, bits \in Seq(Bits)
<1> DEFINE a == FromBits(bits, 53)
           v == FromBits(bits, 59)
           b1 == bits[54]
           b2 == bits[55]
           b3 == bits[56]
           b4 == bits[57]
           b5 == bits[58]
           b6 == bits[59]
           up == \E i \in 55 .. 59 : bits[i] = 1
<1>3. /\ b1 \in Bits /\ b2 \in Bits /\ b3 \in Bits /\ b4 \in Bits /\ b5 \in Bits /\ b6 \in Bits
  BY ONLY <1>1
<1>4. ~ up => b2 # 1 /\ b3 # 1 /\ b4 # 1 /\ b5 # 1 /\ b6 # 1
  BY ONLY TRUE
<1>5. \/ n = a /\ (b1 = 0 \/ ~ up)
      \/ n = a + 1 /\ b1 = 1
  <2>1. RoundsUp(bits, FALSE) = (b1 = 1 /\ (up \/ bits[53] = 1))
    BY ONLY Len(bits) = 59 DEF RoundsUp
  <2>2. (RoundsUp(bits, FALSE) => n = a + 1) /\ (~ RoundsUp(bits, FALSE) => n = a)
    BY ONLY RoundedTo(bits, n) DEF RoundedTo
  <2> HIDE DEF up, a, b1
  <2>3. b1 = 0 \/ b1 = 1
    BY ONLY <1>3 DEF Bits
  <2> QED BY ONLY <2>1, <2>2, <2>3
<1>6. FromBits(bits, 54) = 2 * a + b1 /\ FromBits(bits, 55) = 2 * FromBits(bits, 54) + b2
      /\ FromBits(bits, 56) = 2 * FromBits(bits, 55) + b3
  BY ONLY <1>1, 54 - 1 = 53, 55 - 1 = 54, 56 - 1 = 55,
          54 \in 54 .. 59, 55 \in 54 .. 59, 56 \in 54 .. 59
<1>7. /\ FromBits(bits, 57) = 2 * FromBits(bits, 56) + b4
      /\ FromBits(bits, 58) = 2 * FromBits(bits, 57) + b5
      /\ v = 2 * FromBits(bits, 58) + b6
  BY ONLY <1>1, 57 - 1 = 56, 58 - 1 = 57, 59 - 1 = 58,
          57 \in 54 .. 59, 58 \in 54 .. 59, 59 \in 54 .. 59
<1> DEFINE f54 == FromBits(bits, 54)
           f55 == FromBits(bits, 55)
           f56 == FromBits(bits, 56)
           f57 == FromBits(bits, 57)
           f58 == FromBits(bits, 58)
<1>8. f54 = 2 * a + b1 /\ f55 = 2 * f54 + b2 /\ f56 = 2 * f55 + b3
      /\ f57 = 2 * f56 + b4 /\ f58 = 2 * f57 + b5 /\ v = 2 * f58 + b6 /\ a \in Nat
  BY ONLY <1>2, <1>6, <1>7
<1> HIDE DEF a, v, b1, b2, b3, b4, b5, b6, f54, f55, f56, f57, f58, up
<1>9. v = 64 * a + 32 * b1 + 16 * b2 + 8 * b3 + 4 * b4 + 2 * b5 + b6
  BY ONLY <1>3, <1>8 DEF Bits
<1>10. \/ n = a /\ (b1 = 0 \/ (b2 = 0 /\ b3 = 0 /\ b4 = 0 /\ b5 = 0 /\ b6 = 0))
       \/ n = a + 1 /\ b1 = 1
  BY ONLY <1>3, <1>4, <1>5 DEF Bits
<1>11. 64 * n <= v + 32 /\ v <= 64 * n + 32
  BY ONLY <1>3, <1>8, <1>9, <1>10 DEF Bits
<1> QED BY ONLY <1>11 DEF v

LEMMA SevenBitsRounded ==
  ASSUME NEW bits \in Seq(Bits), Len(bits) = 60, NEW n, RoundedTo(bits, n)
  PROVE  128 * n <= FromBits(bits, 60) + 64 /\ FromBits(bits, 60) <= 128 * n + 64
<1>1. \A k \in 54 .. 60 : /\ k \in 1 .. Len(bits)
                          /\ FromBits(bits, k) = 2 * FromBits(bits, k - 1) + bits[k]
                          /\ bits[k] \in Bits
  <2>1. \A k \in 54 .. 60 : k \in 1 .. Len(bits)
    BY ONLY Len(bits) = 60
  <2>2. \A k \in 1 .. Len(bits) : FromBits(bits, k) = 2 * FromBits(bits, k - 1) + bits[k]
    BY ONLY FromBitsSteps, bits \in Seq(Bits)
  <2>3. \A k \in 54 .. 60 : bits[k] \in Bits
    BY ONLY <2>1, bits \in Seq(Bits)
  <2> QED BY ONLY <2>1, <2>2, <2>3, Zenon
<1>2. FromBits(bits, 53) \in Nat
  <2>1. 53 \in 0 .. Len(bits)
    BY ONLY Len(bits) = 60
  <2> QED BY ONLY <2>1, FromBitsSteps, bits \in Seq(Bits)
<1> DEFINE a == FromBits(bits, 53)
           v == FromBits(bits, 60)
           b1 == bits[54]
           b2 == bits[55]
           b3 == bits[56]
           b4 == bits[57]
           b5 == bits[58]
           b6 == bits[59]
           b7 == bits[60]
           up == \E i \in 55 .. 60 : bits[i] = 1
<1>3. /\ b1 \in Bits /\ b2 \in Bits /\ b3 \in Bits /\ b4 \in Bits
      /\ b5 \in Bits /\ b6 \in Bits /\ b7 \in Bits
  BY ONLY <1>1
<1>4. ~ up => b2 # 1 /\ b3 # 1 /\ b4 # 1 /\ b5 # 1 /\ b6 # 1 /\ b7 # 1
  BY ONLY TRUE
<1>5. \/ n = a /\ (b1 = 0 \/ ~ up)
      \/ n = a + 1 /\ b1 = 1
  <2>1. RoundsUp(bits, FALSE) = (b1 = 1 /\ (up \/ bits[53] = 1))
    BY ONLY Len(bits) = 60 DEF RoundsUp
  <2>2. (RoundsUp(bits, FALSE) => n = a + 1) /\ (~ RoundsUp(bits, FALSE) => n = a)
    BY ONLY RoundedTo(bits, n) DEF RoundedTo
  <2> HIDE DEF up, a, b1
  <2>3. b1 = 0 \/ b1 = 1
    BY ONLY <1>3 DEF Bits
  <2> QED BY ONLY <2>1, <2>2, <2>3
<1>6. FromBits(bits, 54) = 2 * a + b1 /\ FromBits(bits, 55) = 2 * FromBits(bits, 54) + b2
      /\ FromBits(bits, 56) = 2 * FromBits(bits, 55) + b3
  BY ONLY <1>1, 54 - 1 = 53, 55 - 1 = 54, 56 - 1 = 55,
          54 \in 54 .. 60, 55 \in 54 .. 60, 56 \in 54 .. 60
<1>7. /\ FromBits(bits, 57) = 2 * FromBits(bits, 56) + b4
      /\ FromBits(bits, 58) = 2 * FromBits(bits, 57) + b5
      /\ FromBits(bits, 59) = 2 * FromBits(bits, 58) + b6 /\ v = 2 * FromBits(bits, 59) + b7
  BY ONLY <1>1, 57 - 1 = 56, 58 - 1 = 57, 59 - 1 = 58, 60 - 1 = 59,
          57 \in 54 .. 60, 58 \in 54 .. 60, 59 \in 54 .. 60, 60 \in 54 .. 60
<1> DEFINE f54 == FromBits(bits, 54)
           f55 == FromBits(bits, 55)
           f56 == FromBits(bits, 56)
           f57 == FromBits(bits, 57)
           f58 == FromBits(bits, 58)
           f59 == FromBits(bits, 59)
<1>8. f54 = 2 * a + b1 /\ f55 = 2 * f54 + b2 /\ f56 = 2 * f55 + b3
      /\ f57 = 2 * f56 + b4 /\ f58 = 2 * f57 + b5 /\ f59 = 2 * f58 + b6 /\ v = 2 * f59 + b7
      /\ a \in Nat
  BY ONLY <1>2, <1>6, <1>7
<1> HIDE DEF a, v, b1, b2, b3, b4, b5, b6, f54, f55, f56, f57, f58, f59, b7, up
<1>9. v = 128 * a + 64 * b1 + 32 * b2 + 16 * b3 + 8 * b4 + 4 * b5 + 2 * b6 + b7
  BY ONLY <1>3, <1>8 DEF Bits
<1>10. \/ n = a /\ (b1 = 0 \/ (b2 = 0 /\ b3 = 0 /\ b4 = 0 /\ b5 = 0 /\ b6 = 0 /\ b7 = 0))
       \/ n = a + 1 /\ b1 = 1
  BY ONLY <1>3, <1>4, <1>5 DEF Bits
<1>11. 128 * n <= v + 64 /\ v <= 128 * n + 64
  BY ONLY <1>3, <1>8, <1>9, <1>10 DEF Bits
<1> QED BY ONLY <1>11 DEF v

(* The Double nearest to 100 times m, with c bits after its 53.            *)
NearHundred(d, m, e, c, n) ==
  /\ e.bits \in Seq(Bits) /\ Len(e.bits) \in {53, 54}
  /\ e.point = d.point + c + Len(e.bits) - 53
  /\ n = FromBits(e.bits, Len(e.bits)) /\ n \in Nat
  /\ 2 * (PowerOfTwo(c) * n) <= 200 * m + PowerOfTwo(c)
  /\ 200 * m <= 2 * (PowerOfTwo(c) * n) + PowerOfTwo(c)

LEMMA SmallPowers ==
  /\ PowerOfTwo(6) = 64 /\ PowerOfTwo(7) = 128 /\ PowerOfTwo(9) = 512
  /\ PowerOfTwo(22) = 4194304
<1>1. PowerOfTwo(0) = 1 /\ PowerOfTwo(0 + 1) = 2 * PowerOfTwo(0)
      /\ PowerOfTwo(1 + 1) = 2 * PowerOfTwo(1)
      /\ PowerOfTwo(2 + 1) = 2 * PowerOfTwo(2) /\ PowerOfTwo(3 + 1) = 2 * PowerOfTwo(3)
      /\ PowerOfTwo(4 + 1) = 2 * PowerOfTwo(4) /\ PowerOfTwo(5 + 1) = 2 * PowerOfTwo(5)
      /\ PowerOfTwo(6 + 1) = 2 * PowerOfTwo(6) /\ PowerOfTwo(7 + 1) = 2 * PowerOfTwo(7)
      /\ PowerOfTwo(8 + 1) = 2 * PowerOfTwo(8)
  BY PowerOfTwoSteps
<1>2. PowerOfTwo(1) = 2 /\ PowerOfTwo(2) = 4 /\ PowerOfTwo(3) = 8 /\ PowerOfTwo(4) = 16
      /\ PowerOfTwo(5) = 32 /\ PowerOfTwo(6) = 64 /\ PowerOfTwo(7) = 128 /\ PowerOfTwo(8) = 256
      /\ PowerOfTwo(9) = 512
  BY ONLY <1>1
<1>3. PowerOfTwo(9 + 9) = PowerOfTwo(9) * PowerOfTwo(9)
  BY PowersAdd
<1>4. PowerOfTwo(18 + 4) = PowerOfTwo(18) * PowerOfTwo(4)
  BY PowersAdd
<1>5. PowerOfTwo(18) = 512 * 512
  BY ONLY <1>2, <1>3
<1>6. PowerOfTwo(22) = (512 * 512) * 16
  BY ONLY <1>2, <1>4, <1>5
<1> QED BY ONLY <1>2, <1>6

LEMMA TimesHundredIsNear ==
  ASSUME NEW d, IsDouble(d), d.point \in Int
  PROVE  \E c \in {6, 7}, n \in Nat : NearHundred(d, FromBits(d.bits, 53), TimesHundred(d), c, n)
<1> DEFINE bits == d.bits
           s == Columns(bits)
           Is(k) == s[k] # 0 /\ (k > 1 => s[k - 1] = 0)
           first == CHOOSE k \in 1 .. 8 : Is(k)
           p == Product(s, first)
           e == TimesHundred(d)
           m == FromBits(bits, 53)
           c == 8 - first
           n == FromBits(e.bits, Len(e.bits))
<1>1. bits \in Seq(Bits) /\ Len(bits) = 53 /\ bits[1] = 1
  BY DEF IsDouble
<1>2. Carries(bits, 59, s)
  BY ONLY <1>1, ColumnsCarry
<1>3. /\ s \in Seq(Nat) /\ Len(s) = 60
      /\ \A k \in 2 .. 8 : s[k] # 0
      /\ s[1] = 1 \/ (s[1] = 0 /\ s[2] = 1)
  <2> HIDE DEF bits, s
  <2> QED BY ONLY <1>1, <1>2, FirstColumns
<1> HIDE DEF s
<1>4. first \in {1, 2} /\ s[first] = 1
  <2>1. CASE s[1] = 1
    <3>1. Is(1) /\ 1 \in 1 .. 8
      BY ONLY <2>1
    <3>2. \A k \in 1 .. 8 : Is(k) => k = 1
      <4>1. \A k \in 1 .. 8 : Is(k) => ~ (k > 1 /\ k - 1 # 1)
        <5> SUFFICES ASSUME NEW k \in 1 .. 8, Is(k), k > 1, k - 1 # 1 PROVE FALSE
          BY Zenon
        <5>1. k - 1 \in 2 .. 8 /\ s[k - 1] = 0
          OBVIOUS
        <5> QED BY ONLY <5>1, <1>3
      <4>2. \A k \in 1 .. 8 : Is(k) => k # 2
        <5> SUFFICES ASSUME Is(2) PROVE FALSE
          BY Zenon
        <5>1. 2 > 1 /\ 2 - 1 = 1
          OBVIOUS
        <5>2. s[1] = 0
          BY ONLY <5>1, Is(2)
        <5> QED BY ONLY <5>2, <2>1
      <4> HIDE DEF Is
      <4> QED BY ONLY <4>1, <4>2
    <3> HIDE DEF Is
    <3>3. Is(first) /\ first \in 1 .. 8
      BY ONLY <3>1
    <3>4. first = 1
      BY ONLY <3>2, <3>3
    <3> QED BY ONLY <2>1, <3>4
  <2>2. CASE s[1] = 0 /\ s[2] = 1
    <3>1. Is(2) /\ 2 \in 1 .. 8
      <4>1. 2 > 1 /\ 2 - 1 = 1
        OBVIOUS
      <4> QED BY ONLY <2>2, <4>1
    <3>2. \A k \in 1 .. 8 : Is(k) => k = 2
      <4>1. \A k \in 1 .. 8 : Is(k) => ~ (k > 2)
        <5> SUFFICES ASSUME NEW k \in 1 .. 8, Is(k), k > 2 PROVE FALSE
          BY Zenon
        <5>1. k - 1 \in 2 .. 8 /\ s[k - 1] = 0
          OBVIOUS
        <5> QED BY ONLY <5>1, <1>3
      <4>2. \A k \in 1 .. 8 : Is(k) => k # 1
        BY ONLY <2>2
      <4> HIDE DEF Is
      <4> QED BY ONLY <4>1, <4>2
    <3> HIDE DEF Is
    <3>3. Is(first) /\ first \in 1 .. 8
      BY ONLY <3>1
    <3>4. first = 2
      BY ONLY <3>2, <3>3
    <3> QED BY ONLY <2>2, <3>4
  <2> QED BY ONLY <1>3, <2>1, <2>2
<1>5. e = Round([bits |-> p, point |-> d.point + 8 - first], FALSE)
  <2>1. e = Round([ bits  |-> [i \in 1 .. Len(s) - first + 1 |-> s[first + i - 1] % 2],
                    point |-> d.point + 8 - first ], FALSE)
    BY ONLY TRUE DEF TimesHundred, s
  <2> HIDE DEF first
  <2>2. Len(s) - first + 1 = 61 - first
    <3>1. Len(s) = 60 /\ first \in {1, 2}
      BY ONLY <1>3, <1>4
    <3> QED BY ONLY <3>1
  <2> QED BY ONLY <2>1, <2>2 DEF Product
<1> HIDE DEF first
<1>6. p \in Seq(Bits) /\ Len(p) = 61 - first /\ p[1] = 1 /\ FromBits(p, 61 - first) = 100 * m
  <2> HIDE DEF bits
  <2>1. /\ Product(s, first) \in Seq(Bits) /\ Len(Product(s, first)) = 61 - first
        /\ Product(s, first)[1] = 1
        /\ FromBits(Product(s, first), 61 - first) = 100 * FromBits(bits, 53)
    BY ONLY <1>1, <1>2, <1>4, ProductIsThis
  <2> QED BY ONLY <2>1
<1>7. Rounded(e, p, d.point + 8 - first, FALSE)
  <2> DEFINE point == d.point + 8 - first
  <2>1. Len(p) > 53 /\ point \in Int
    BY ONLY <1>4, <1>6, d.point \in Int
  <2> HIDE DEF p, point, e
  <2>2. Rounded(Round([bits |-> p, point |-> point], FALSE), p, point, FALSE)
    BY ONLY <1>6, <2>1, RoundIsThis
  <2> QED BY ONLY <1>5, <2>2 DEF point
<1> HIDE DEF p, e
<1>8. /\ e.bits \in Seq(Bits) /\ Len(e.bits) \in {53, 54}
      /\ e.point = d.point + 8 - first + Len(e.bits) - 53
      /\ RoundedTo(p, n)
  BY ONLY <1>7 DEF Rounded, RoundedTo
<1>9. n \in Nat
  <2>1. Len(e.bits) \in 0 .. Len(e.bits)
    BY ONLY <1>8
  <2> QED BY ONLY <1>8, <2>1, FromBitsSteps
<1>10. m \in Nat
  <2>1. 53 \in 0 .. Len(bits)
    BY ONLY <1>1
  <2> QED BY ONLY <1>1, <2>1, FromBitsSteps
<1>11. e.point = d.point + c + Len(e.bits) - 53
  BY ONLY <1>4, <1>8, d.point \in Int
<1>12. c \in {6, 7}
  BY ONLY <1>4
<1>13. /\ 2 * (PowerOfTwo(c) * n) <= 200 * m + PowerOfTwo(c)
       /\ 200 * m <= 2 * (PowerOfTwo(c) * n) + PowerOfTwo(c)
  <2>1. CASE first = 2
    <3>1. Len(p) = 59 /\ FromBits(p, 59) = 100 * m /\ 61 - first = 59 /\ c = 6
      BY ONLY <1>6, <2>1
    <3> HIDE DEF n, m, c
    <3>2. 64 * n <= FromBits(p, 59) + 32 /\ FromBits(p, 59) <= 64 * n + 32
      BY ONLY <1>6, <1>8, <3>1, SixBitsRounded
    <3>3. PowerOfTwo(c) = 64
      BY ONLY <3>1, SmallPowers
    <3> QED BY ONLY <1>9, <1>10, <3>1, <3>2, <3>3
  <2>2. CASE first = 1
    <3>1. Len(p) = 60 /\ FromBits(p, 60) = 100 * m /\ 61 - first = 60 /\ c = 7
      BY ONLY <1>6, <2>2
    <3> HIDE DEF n, m, c
    <3>2. 128 * n <= FromBits(p, 60) + 64 /\ FromBits(p, 60) <= 128 * n + 64
      BY ONLY <1>6, <1>8, <3>1, SevenBitsRounded
    <3>3. PowerOfTwo(c) = 128
      BY ONLY <3>1, SmallPowers
    <3> QED BY ONLY <1>9, <1>10, <3>1, <3>2, <3>3
  <2> QED BY ONLY <1>4, <2>1, <2>2
<1> HIDE DEF c
<1>14. NearHundred(d, m, e, c, n)
  BY ONLY <1>8, <1>9, <1>11, <1>13 DEF NearHundred
<1> HIDE DEF n
<1>15. \E cc \in {6, 7}, nn \in Nat : NearHundred(d, m, e, cc, nn)
  BY ONLY <1>9, <1>12, <1>14
<1> QED BY ONLY <1>15 DEF m, e, bits

(* w of t matches are percent in 100, rounded down; one less may be shown   *)
(* when that is a whole number.                                            *)
IsPercentage(percentage, w, t) ==
  /\ percentage \in Nat
  /\ percentage * t <= 100 * w
  /\ 100 * w <= (percentage + 1) * t

(* The bits before the point are those of what n is divided by the power   *)
(* of two of the others.                                                   *)
LEMMA TruncateDivides ==
  ASSUME NEW e, e.bits \in Seq(Bits), e.point \in Int, NEW k \in Nat, e.point + k = Len(e.bits)
  PROVE  /\ Truncate(e) \in Nat
         /\ Truncate(e) * PowerOfTwo(k) <= FromBits(e.bits, Len(e.bits))
         /\ FromBits(e.bits, Len(e.bits)) < (Truncate(e) + 1) * PowerOfTwo(k)
<1> DEFINE len == Len(e.bits)
           n == FromBits(e.bits, len)
<1>1. len \in Nat /\ n \in Nat /\ PowerOfTwo(k) \in Nat
  <2>1. len \in 0 .. len /\ len \in Nat
    OBVIOUS
  <2> QED BY ONLY <2>1, FromBitsSteps, PowerOfTwoSteps, e.bits \in Seq(Bits), k \in Nat
<1>2. CASE e.point > 0
  <2>1. e.point \in Nat /\ e.point \in 0 .. Len(e.bits) /\ e.point + k <= Len(e.bits)
    BY ONLY <1>2, <1>1, e.point \in Int, e.point + k = Len(e.bits), k \in Nat
  <2>2. Truncate(e) = FromBits(e.bits, e.point)
    BY ONLY <1>2, e.point \in Int DEF Truncate
  <2>3. Truncate(e) \in Nat
    BY ONLY <2>1, <2>2, FromBitsSteps, e.bits \in Seq(Bits)
  <2>4. /\ FromBits(e.bits, e.point) * PowerOfTwo(k) <= FromBits(e.bits, e.point + k)
        /\ FromBits(e.bits, e.point + k) < (FromBits(e.bits, e.point) + 1) * PowerOfTwo(k)
    BY ONLY <2>1, FromBitsSplits, e.bits \in Seq(Bits), k \in Nat
  <2> QED BY ONLY <2>2, <2>3, <2>4, e.point + k = Len(e.bits)
<1>3. CASE e.point <= 0
  <2>1. Truncate(e) = 0
    BY ONLY <1>3 DEF Truncate
  <2>2. FromBits(e.bits, 0 + len) < (FromBits(e.bits, 0) + 1) * PowerOfTwo(len)
    <3>1. 0 + len <= Len(e.bits) /\ 0 \in Nat
      BY ONLY <1>1
    <3> QED BY ONLY <1>1, <3>1, FromBitsSplits, e.bits \in Seq(Bits)
  <2>3. PowerOfTwo(len) <= PowerOfTwo(k) /\ PowerOfTwo(len) \in Nat
    <3>1. len <= k
      BY ONLY <1>1, <1>3, e.point \in Int, e.point + k = Len(e.bits), k \in Nat
    <3> QED BY ONLY <1>1, <3>1, PowersGrow, PowerOfTwoSteps, k \in Nat
  <2>4. FromBits(e.bits, 0) = 0 /\ 0 + len = len
    BY ONLY <1>1, FromBitsSteps, e.bits \in Seq(Bits)
  <2> DEFINE pk == PowerOfTwo(k)
             pl == PowerOfTwo(len)
  <2>5. n < (0 + 1) * pl /\ pl <= pk /\ pl \in Nat /\ pk \in Nat
    BY ONLY <1>1, <2>2, <2>3, <2>4
  <2> HIDE DEF pk, pl, n
  <2>6. 0 * pk <= n /\ n < (0 + 1) * pk
    BY ONLY <1>1, <2>5
  <2> QED BY ONLY <2>1, <2>6 DEF pk, n
<1> QED BY ONLY <1>2, <1>3, e.point \in Int

(* The two rounding errors together are less than what is left of the next *)
(* whole number. h is 2 ^ c, p is 2 ^ 53, z is 2 ^ s and unit the value    *)
(* that the last place before the point has among the bits.                *)
LEMMA TwoRoundings ==
  ASSUME NEW t \in Nat \ {0}, NEW w \in Nat, NEW m \in Nat, NEW n \in Nat, NEW h \in {64, 128},
         NEW a \in Nat, NEW unit \in Nat, a = 2 * h * (w * unit),
         2 * (m * t) <= a + t, a <= 2 * (m * t) + t,
         2 * (h * n) <= 200 * m + h, 200 * m <= 2 * (h * n) + h
  PROVE  n * t < 100 * (w * unit) + 2 * t /\ 100 * (w * unit) < n * t + 2 * t
<1> DEFINE mt == m * t
           nt == n * t
           u == w * unit
<1>1. mt \in Nat /\ nt \in Nat /\ u \in Nat
  OBVIOUS
<1>2. CASE h = 64
  <2>1. 128 * n <= 200 * m + 64 /\ 200 * m <= 128 * n + 64
    BY <1>2
  <2>2. (128 * n) * t <= (200 * m + 64) * t /\ (200 * m) * t <= (128 * n + 64) * t
    <3> DEFINE x == 128 * n
               y == 200 * m
    <3> HIDE DEF x, y
    <3>1. x \in Nat /\ y \in Nat
      BY DEF x, y
    <3>2. x <= y + 64 /\ y <= x + 64
      BY <2>1 DEF x, y
    <3>3. x * t <= (y + 64) * t
      BY ONLY <3>1, <3>2, t \in Nat
    <3>4. y * t <= (x + 64) * t
      BY ONLY <3>1, <3>2, t \in Nat
    <3> QED BY ONLY <3>3, <3>4 DEF x, y
  <2>3. (128 * n) * t = 128 * nt /\ (200 * m) * t = 200 * mt
        /\ (200 * m + 64) * t = 200 * mt + 64 * t /\ (128 * n + 64) * t = 128 * nt + 64 * t
    OBVIOUS
  <2>4. a = 128 * u
    BY <1>2
  <2> HIDE DEF mt, nt, u
  <2>5. 128 * nt <= 200 * mt + 64 * t /\ 200 * mt <= 128 * nt + 64 * t
    BY ONLY <2>2, <2>3
  <2>6. 2 * mt <= a + t /\ a <= 2 * mt + t
    BY DEF mt
  <2>7. nt < 100 * u + 2 * t /\ 100 * u < nt + 2 * t
    BY ONLY <1>1, <2>4, <2>5, <2>6, t \in Nat \ {0}
  <2> QED BY ONLY <2>7 DEF nt, u
<1>3. CASE h = 128
  <2>1. 256 * n <= 200 * m + 128 /\ 200 * m <= 256 * n + 128
    BY <1>3
  <2>2. (256 * n) * t <= (200 * m + 128) * t /\ (200 * m) * t <= (256 * n + 128) * t
    <3> DEFINE x == 256 * n
               y == 200 * m
    <3> HIDE DEF x, y
    <3>1. x \in Nat /\ y \in Nat
      BY DEF x, y
    <3>2. x <= y + 128 /\ y <= x + 128
      BY <2>1 DEF x, y
    <3>3. x * t <= (y + 128) * t
      BY ONLY <3>1, <3>2, t \in Nat
    <3>4. y * t <= (x + 128) * t
      BY ONLY <3>1, <3>2, t \in Nat
    <3> QED BY ONLY <3>3, <3>4 DEF x, y
  <2>3. (256 * n) * t = 256 * nt /\ (200 * m) * t = 200 * mt
        /\ (200 * m + 128) * t = 200 * mt + 128 * t /\ (256 * n + 128) * t = 256 * nt + 128 * t
    OBVIOUS
  <2>4. a = 256 * u
    BY <1>3
  <2> HIDE DEF mt, nt, u
  <2>5. 256 * nt <= 200 * mt + 128 * t /\ 200 * mt <= 256 * nt + 128 * t
    BY ONLY <2>2, <2>3
  <2>6. 2 * mt <= a + t /\ a <= 2 * mt + t
    BY DEF mt
  <2>7. nt < 100 * u + 2 * t /\ 100 * u < nt + 2 * t
    BY ONLY <1>1, <2>4, <2>5, <2>6, t \in Nat \ {0}
  <2> QED BY ONLY <2>7 DEF nt, u
<1> QED BY ONLY <1>2, <1>3, h \in {64, 128}

(* What is kept of n is then the percentage.                               *)
LEMMA KeptIsPercentage ==
  ASSUME NEW t \in Nat \ {0}, NEW w \in Nat, NEW n \in Nat, NEW unit \in Nat \ {0}, NEW f \in Nat,
         2 * t <= unit,
         f * unit <= n, n < (f + 1) * unit,
         n * t < 100 * (w * unit) + 2 * t, 100 * (w * unit) < n * t + 2 * t
  PROVE  IsPercentage(f, w, t)
<1>1. f * t <= 100 * w
  <2> SUFFICES ASSUME ~ (f * t <= 100 * w) PROVE FALSE
    OBVIOUS
  <2> DEFINE ft == f * t
             cw == 100 * w
  <2>1. ft \in Nat /\ cw \in Nat /\ ft >= cw + 1
    OBVIOUS
  <2>2. (f * unit) * t <= n * t
    <3> DEFINE x == f * unit
    <3>1. x \in Nat /\ x <= n
      OBVIOUS
    <3> HIDE DEF x
    <3>2. x * t <= n * t
      BY ONLY <3>1, n \in Nat, t \in Nat
    <3> QED BY ONLY <3>2 DEF x
  <2>3. (f * unit) * t = ft * unit
    OBVIOUS
  <2>4. 100 * (w * unit) = cw * unit
    OBVIOUS
  <2>5. n * t \in Nat /\ cw * unit \in Nat /\ ft * unit \in Nat
    OBVIOUS
  <2> HIDE DEF ft, cw
  <2>6. (cw + 1) * unit <= ft * unit
    BY ONLY <2>1, unit \in Nat \ {0}
  <2>7. (cw + 1) * unit = cw * unit + unit
    BY ONLY <2>1, unit \in Nat \ {0}
  <2> DEFINE x == n * t
             y == cw * unit
             z == ft * unit
  <2>8. x \in Nat /\ y \in Nat /\ z \in Nat /\ z <= x /\ y + unit <= z /\ x < y + 2 * t
    BY ONLY <2>2, <2>3, <2>4, <2>5, <2>6, <2>7, n * t < 100 * (w * unit) + 2 * t
  <2> HIDE DEF x, y, z
  <2> QED BY ONLY <2>8, 2 * t <= unit, t \in Nat, unit \in Nat
<1>2. 100 * w <= (f + 1) * t
  <2> SUFFICES ASSUME ~ (100 * w <= (f + 1) * t) PROVE FALSE
    OBVIOUS
  <2> DEFINE gt == (f + 1) * t
             cw == 100 * w
             g == (f + 1) * unit
  <2>1. gt \in Nat /\ cw \in Nat /\ cw >= gt + 1 /\ g \in Nat /\ n + 1 <= g
    OBVIOUS
  <2>2. g * t = gt * unit
    OBVIOUS
  <2>4. 100 * (w * unit) = cw * unit
    OBVIOUS
  <2>5. n * t \in Nat /\ cw * unit \in Nat /\ gt * unit \in Nat
    OBVIOUS
  <2> HIDE DEF gt, cw, g
  <2>3. (n + 1) * t <= g * t
    BY ONLY <2>1, n \in Nat, t \in Nat
  <2>6. (n + 1) * t = n * t + t
    BY ONLY n \in Nat, t \in Nat
  <2>7. (gt + 1) * unit <= cw * unit
    BY ONLY <2>1, unit \in Nat \ {0}
  <2>8. (gt + 1) * unit = gt * unit + unit
    BY ONLY <2>1, unit \in Nat \ {0}
  <2> DEFINE x == n * t
             y == cw * unit
             z == gt * unit
  <2>9. x \in Nat /\ y \in Nat /\ z \in Nat /\ x + t <= z /\ z + unit <= y /\ y < x + 2 * t
    BY ONLY <2>2, <2>3, <2>4, <2>5, <2>6, <2>7, <2>8, 100 * (w * unit) < n * t + 2 * t
  <2> HIDE DEF x, y, z
  <2> QED BY ONLY <2>9, 2 * t <= unit, t \in Nat, unit \in Nat
<1> QED BY <1>1, <1>2 DEF IsPercentage

LEMMA LargePowers ==
  ASSUME NEW t \in Nat, t < PowerOfTwo(44)
  PROVE  512 * t <= PowerOfTwo(53) /\ \A k \in Nat : k >= 45 => 2 * t <= PowerOfTwo(k)
<1> DEFINE p44 == PowerOfTwo(44)
<1>1. PowerOfTwo(9 + 44) = PowerOfTwo(9) * PowerOfTwo(44) /\ 9 + 44 = 53
  BY PowersAdd
<1>2. PowerOfTwo(44 + 1) = 2 * PowerOfTwo(44) /\ 44 + 1 = 45
  BY PowerOfTwoSteps
<1>3. PowerOfTwo(53) = 512 * p44 /\ PowerOfTwo(45) = 2 * p44
  BY ONLY <1>1, <1>2, SmallPowers
<1>4. t < p44 /\ p44 \in Nat
  BY PowerOfTwoSteps
<1> HIDE DEF p44
<1>5. 512 * t <= PowerOfTwo(53) /\ 2 * t <= PowerOfTwo(45)
  BY ONLY <1>3, <1>4, t \in Nat
<1>6. \A k \in Nat : k >= 45 => 2 * t <= PowerOfTwo(k)
  <2> SUFFICES ASSUME NEW k \in Nat, k >= 45 PROVE 2 * t <= PowerOfTwo(k)
    OBVIOUS
  <2>1. PowerOfTwo(45) <= PowerOfTwo(k) /\ PowerOfTwo(45) \in Nat /\ PowerOfTwo(k) \in Nat
    BY ONLY PowersGrow, PowerOfTwoSteps, k \in Nat, k >= 45, 45 \in Nat, 45 <= k
  <2> QED BY ONLY <1>5, <2>1, t \in Nat
<1> QED BY ONLY <1>5, <1>6

(* 2 ^ 53 * 2 ^ s and what is before the point and after it. *)
LEMMA UnitAtPoint ==
  ASSUME NEW s \in Nat, NEW c \in {6, 7}, NEW k \in Nat, k = 52 + s - c, NEW w \in Nat
  PROVE  PowerOfTwo(53) * (w * PowerOfTwo(s)) = 2 * PowerOfTwo(c) * (w * PowerOfTwo(k))
<1>1. 53 + s = (c + 1) + k /\ c \in Nat /\ c + 1 \in Nat
  OBVIOUS
<1>2. PowerOfTwo(53 + s) = PowerOfTwo(53) * PowerOfTwo(s)
  BY PowersAdd
<1>3. PowerOfTwo((c + 1) + k) = PowerOfTwo(c + 1) * PowerOfTwo(k)
  BY ONLY <1>1, PowersAdd, k \in Nat
<1>4. PowerOfTwo(c + 1) = 2 * PowerOfTwo(c)
  BY ONLY <1>1, PowerOfTwoSteps
<1> DEFINE p == PowerOfTwo(53)
           z == PowerOfTwo(s)
           h == PowerOfTwo(c)
           u == PowerOfTwo(k)
<1>5. p \in Nat /\ z \in Nat /\ h \in Nat /\ u \in Nat /\ p * z = (2 * h) * u
  BY ONLY <1>1, <1>2, <1>3, <1>4, PowerOfTwoSteps, s \in Nat, k \in Nat
<1> HIDE DEF p, z, h, u
<1>6. p * (w * z) = w * (p * z) /\ w * ((2 * h) * u) = 2 * h * (w * u)
  BY ONLY <1>5, w \in Nat
<1>7. p * (w * z) = 2 * h * (w * u)
  BY ONLY <1>5, <1>6
<1> QED BY ONLY <1>7 DEF p, z, h, u

(* The percentage of wins, for fewer than 2 ^ 44 matches; exactly 100 when  *)
(* all of them are won.                                                    *)
LEMMA PercentageOfWins ==
  ASSUME NEW t \in Nat \ {0}, NEW w \in 1 .. t, t < PowerOfTwo(44)
  PROVE  /\ IsPercentage(Truncate(TimesHundred(Quotient(w, t))), w, t)
         /\ w = t => Truncate(TimesHundred(Quotient(w, t))) = 100
<1> DEFINE q == Quotient(w, t)
           e == TimesHundred(q)
           f == Truncate(e)
<1>1. w \in Nat /\ t \in Nat /\ t # 0
  OBVIOUS
<1>2. 512 * t <= PowerOfTwo(53) /\ \A k \in Nat : k >= 45 => 2 * t <= PowerOfTwo(k)
  BY ONLY <1>1, LargePowers, t < PowerOfTwo(44)
<1>3. PICK s \in Nat, m \in Nat : NearQuotient(w, t, s, q, m)
  BY ONLY <1>2, QuotientIsNear, t \in Nat \ {0}, w \in 1 .. t
<1> HIDE DEF q
<1>4. /\ IsDouble(q) /\ q.point = 1 - s /\ m = FromBits(q.bits, 53)
      /\ 2 * (m * t) <= PowerOfTwo(53) * (w * PowerOfTwo(s)) + t
      /\ PowerOfTwo(53) * (w * PowerOfTwo(s)) <= 2 * (m * t) + t
      /\ (w = t => s = 0 /\ m = PowerOfTwo(52))
  BY ONLY <1>3 DEF NearQuotient
<1>5. q.point \in Int
  BY ONLY <1>4, s \in Nat
<1>6. PICK c \in {6, 7}, n \in Nat : NearHundred(q, m, e, c, n)
  <2>1. \E c \in {6, 7}, n \in Nat : NearHundred(q, FromBits(q.bits, 53), e, c, n)
    BY ONLY <1>4, <1>5, TimesHundredIsNear
  <2> QED BY ONLY <1>4, <2>1
<1> HIDE DEF e
<1>7. /\ e.bits \in Seq(Bits) /\ Len(e.bits) \in {53, 54}
      /\ e.point = q.point + c + Len(e.bits) - 53
      /\ n = FromBits(e.bits, Len(e.bits))
      /\ 2 * (PowerOfTwo(c) * n) <= 200 * m + PowerOfTwo(c)
      /\ 200 * m <= 2 * (PowerOfTwo(c) * n) + PowerOfTwo(c)
  BY ONLY <1>6 DEF NearHundred
<1> DEFINE k == 52 + s - c
           unit == PowerOfTwo(k)
           h == PowerOfTwo(c)
           a == PowerOfTwo(53) * (w * PowerOfTwo(s))
<1>8. k \in Nat /\ k >= 45 /\ k = 52 + s - c
  BY ONLY s \in Nat, c \in {6, 7}
<1> HIDE DEF k
<1>9. e.point \in Int /\ e.point + k = Len(e.bits)
  <2> DEFINE len == Len(e.bits)
  <2>1. q.point = 1 - s /\ len \in {53, 54} /\ e.point = q.point + c + len - 53
    BY ONLY <1>4, <1>7
  <2> HIDE DEF len
  <2>2. e.point \in Int /\ e.point + k = len
    BY ONLY <1>8, <2>1, s \in Nat, c \in {6, 7}
  <2> QED BY ONLY <2>2 DEF len
<1>10. /\ f \in Nat
       /\ f * unit <= n
       /\ n < (f + 1) * unit
  BY ONLY <1>7, <1>8, <1>9, TruncateDivides
<1> HIDE DEF f
<1>11. h \in {64, 128}
  BY ONLY SmallPowers, c \in {6, 7}
<1>12. unit \in Nat \ {0} /\ 2 * t <= unit
  <2>1. 0 <= k /\ 0 \in Nat
    BY ONLY <1>8
  <2>2. unit \in Nat /\ 1 <= unit
    <3>1. PowerOfTwo(0) <= PowerOfTwo(k) /\ PowerOfTwo(0) = 1 /\ PowerOfTwo(k) \in Nat
      BY ONLY <1>8, <2>1, PowersGrow, PowerOfTwoSteps
    <3> QED BY ONLY <3>1
  <2>3. 2 * t <= unit
    BY ONLY <1>2, <1>8
  <2> HIDE DEF unit
  <2> QED BY ONLY <2>2, <2>3
<1>13. a = 2 * h * (w * unit)
  BY ONLY <1>1, <1>8, UnitAtPoint, s \in Nat, c \in {6, 7}
<1>14. a \in Nat
  <2>1. PowerOfTwo(53) \in Nat /\ PowerOfTwo(s) \in Nat
    BY ONLY PowerOfTwoSteps, s \in Nat, 53 \in Nat
  <2> QED BY ONLY <1>1, <2>1
<1>15. /\ 2 * (m * t) <= a + t /\ a <= 2 * (m * t) + t
       /\ 2 * (h * n) <= 200 * m + h /\ 200 * m <= 2 * (h * n) + h
  BY ONLY <1>4, <1>7
<1> HIDE DEF a, h, unit
<1>16. n * t < 100 * (w * unit) + 2 * t /\ 100 * (w * unit) < n * t + 2 * t
  BY ONLY <1>1, <1>11, <1>12, <1>13, <1>14, <1>15, TwoRoundings, m \in Nat, n \in Nat,
          t \in Nat \ {0}
<1>17. IsPercentage(f, w, t)
  BY ONLY <1>1, <1>10, <1>12, <1>16, KeptIsPercentage, n \in Nat, t \in Nat \ {0}
<1>18. ASSUME w = t PROVE f = 100
  <2>1. 53 = 52 + 1 /\ PowerOfTwo(52 + 1) = 2 * PowerOfTwo(52) /\ PowerOfTwo(52) \in Nat
    BY PowerOfTwoSteps
  <2>2. 2 * m = PowerOfTwo(53) /\ PowerOfTwo(0) = 1 /\ s = 0
    BY ONLY <1>4, <1>18, <2>1, PowerOfTwoSteps
  <2>3. a = (2 * m) * (t * 1)
    BY ONLY <2>2, <1>18 DEF a
  <2> DEFINE b == h * unit
  <2>4. b \in Nat /\ (2 * m) * (t * 1) = (2 * m) * t /\ 2 * h * (t * unit) = (2 * b) * t
    BY ONLY <1>11, <1>12, <1>1, m \in Nat
  <2>5. (2 * m) * t = (2 * b) * t
    BY ONLY <1>13, <1>18, <2>3, <2>4
  <2>6. m = b
    <3> DEFINE x == 2 * m
               y == 2 * b
    <3>1. x \in Nat /\ y \in Nat /\ x * t = y * t
      BY ONLY <2>4, <2>5, m \in Nat
    <3> HIDE DEF x, y
    <3>2. x = y
      BY ONLY <1>1, <3>1
    <3> HIDE DEF b
    <3> QED BY ONLY <3>2, <2>4, m \in Nat DEF x, y
  <2>7. 200 * (h * unit) <= 2 * (h * n) + h
    BY ONLY <1>15, <2>6
  <2>8. 100 * unit <= n
    BY ONLY <1>11, <1>12, <2>7, n \in Nat
  <2>9. 100 * unit < (f + 1) * unit
    BY ONLY <1>10, <1>12, <2>8, n \in Nat
  <2>10. 100 <= f
    <3> SUFFICES ASSUME ~ (100 <= f) PROVE FALSE
      OBVIOUS
    <3>0. f + 1 <= 100
      BY ONLY <1>10, ~ (100 <= f)
    <3>1. (f + 1) * unit <= 100 * unit
      BY ONLY <1>10, <1>12, <3>0
    <3> DEFINE x == (f + 1) * unit
    <3>2. x \in Nat /\ 100 * unit < x /\ x <= 100 * unit
      BY ONLY <1>10, <1>12, <2>9, <3>1
    <3> HIDE DEF x
    <3> QED BY ONLY <1>12, <3>2
  <2>11. f * t <= 100 * t
    BY ONLY <1>17, <1>18 DEF IsPercentage
  <2>12. f <= 100
    <3> SUFFICES ASSUME ~ (f <= 100) PROVE FALSE
      OBVIOUS
    <3>0. f >= 101
      BY ONLY <1>10, ~ (f <= 100)
    <3>1. 101 * t <= f * t
      BY ONLY <1>1, <1>10, <3>0
    <3> DEFINE x == f * t
    <3>2. x \in Nat /\ x <= 100 * t /\ 101 * t <= x
      BY ONLY <1>1, <1>10, <2>11, <3>1
    <3> HIDE DEF x
    <3> QED BY ONLY <1>1, <3>2
  <2> QED BY ONLY <1>10, <2>10, <2>12
<1> QED BY ONLY <1>17, <1>18 DEF f, e, q

(* One percentage for every pair of fewer than 2 ^ 44 matches.             *)
LEMMA StatIsPercentage ==
  ASSUME NEW wins \in Nat, NEW losses \in Nat, wins + losses < PowerOfTwo(44)
  PROVE  LET percentage == calculateStat(wins, losses).percentage
         IN  /\ wins + losses > 0 => IsPercentage(percentage, wins, wins + losses)
             /\ losses = 0 => percentage = 100
<1> DEFINE total == wins + losses
           percentage == calculateStat(wins, losses).percentage
           shows == Truncate(TimesHundred(Quotient(wins, total)))
<1>1. percentage = IF total = 0 THEN 100 ELSE IF wins = 0 THEN 0 ELSE shows
  BY DEF calculateStat
<1>2. total \in Nat
  OBVIOUS
<1> HIDE DEF percentage, shows
<1>3. CASE total = 0
  <2>1. percentage = 100 /\ ~ (total > 0)
    BY ONLY <1>1, <1>3
  <2> QED BY ONLY <2>1 DEF total, percentage
<1>4. CASE total # 0 /\ wins = 0
  <2>1. percentage = 0 /\ losses # 0
    BY ONLY <1>1, <1>4, losses \in Nat
  <2>2. IsPercentage(0, 0, total)
    BY ONLY <1>2 DEF IsPercentage
  <2> HIDE DEF total
  <2>3. IsPercentage(percentage, wins, total)
    BY ONLY <1>4, <2>1, <2>2
  <2> QED BY ONLY <2>1, <2>3 DEF total, percentage
<1>5. CASE total # 0 /\ wins # 0
  <2>1. total \in Nat \ {0} /\ wins \in 1 .. total /\ (losses = 0 => wins = total)
    BY <1>2, <1>5
  <2>2. total < PowerOfTwo(44)
    OBVIOUS
  <2>3. percentage = shows
    BY ONLY <1>1, <1>5
  <2> HIDE DEF total
  <2>4. IsPercentage(shows, wins, total) /\ (wins = total => shows = 100)
    BY ONLY <2>1, <2>2, PercentageOfWins DEF shows
  <2>5. IsPercentage(percentage, wins, total) /\ (losses = 0 => percentage = 100)
    BY ONLY <2>1, <2>3, <2>4
  <2> QED BY ONLY <2>5 DEF total, percentage
<1> QED BY ONLY <1>3, <1>4, <1>5

-----------------------------------------------------------------------------
(* The displayed pair. *)

Shows ==
  /\ desc \in [wins : Nat, losses : Nat]
  /\ desc.wins + desc.losses <= MaxMatches
  /\ shown = calculateStat(desc.wins, desc.losses)

LEMMA LessThanSquare ==
  ASSUME NEW n \in Nat, NEW b \in Nat \ {0}, n \div b < b
  PROVE  n < b * b
<1> DEFINE q == n \div b
           r == n % b
<1>1. q \in Nat /\ r \in Nat /\ r < b /\ n = b * q + r /\ q + 1 <= b
  OBVIOUS
<1> HIDE DEF q, r
<1>2. b * (q + 1) <= b * b
  BY ONLY <1>1, b \in Nat \ {0}
<1>3. b * (q + 1) = b * q + b
  BY ONLY <1>1, b \in Nat \ {0}
<1> DEFINE x == b * q
           y == b * b
<1>4. x \in Nat /\ y \in Nat /\ x + b <= y /\ n = x + r
  BY ONLY <1>1, <1>2, <1>3, b \in Nat \ {0}
<1> HIDE DEF x, y
<1>5. n < y
  BY ONLY <1>1, <1>4, b \in Nat \ {0}
<1> QED BY ONLY <1>5 DEF y

LEMMA FewMatches ==
  ASSUME NEW t \in Nat, t <= MaxMatches
  PROVE  t < PowerOfTwo(44)
<1> DEFINE b == PowerOfTwo(22)
<1>1. b = 4194304 /\ b \in Nat \ {0}
  BY ONLY SmallPowers
<1>2. MaxMatches \in Nat /\ MaxMatches \div b < b
  BY <1>1, TallyAssumption
<1> HIDE DEF b
<1>3. MaxMatches < b * b /\ b * b \in Nat
  BY ONLY <1>1, <1>2, LessThanSquare
<1>4. PowerOfTwo(22 + 22) = b * b /\ 22 + 22 = 44
  BY PowersAdd DEF b
<1> QED BY ONLY <1>2, <1>3, <1>4, t \in Nat, t <= MaxMatches

LEMMA BecomesShown ==
  ASSUME Shows, NEW d \in [wins : Nat, losses : Nat], Becomes(d)
  PROVE  Shows'
  BY DEF Shows, Becomes

LEMMA TallyTypes ==
  ASSUME Shows
  PROVE  /\ desc.wins \in Nat /\ desc.losses \in Nat
         /\ [desc EXCEPT !.wins = @ + 1] = [wins |-> desc.wins + 1, losses |-> desc.losses]
         /\ [desc EXCEPT !.losses = @ + 1] = [wins |-> desc.wins, losses |-> desc.losses + 1]
         /\ \A v : [desc EXCEPT !.wins = v] = [wins |-> v, losses |-> desc.losses]
         /\ \A v : [desc EXCEPT !.losses = v] = [wins |-> desc.wins, losses |-> v]
  BY DEF Shows

THEOREM ShowsHolds == TallySpec => []Shows
<1>1. ASSUME TallyInit PROVE Shows
  BY <1>1, TallyAssumption DEF TallyInit, Shows
<1>2. ASSUME Shows, [TallyNext]_tally PROVE Shows'
  <2> USE <1>2
  <2>0. Corrections \subseteq Nat
    BY TallyAssumption
  <2>1. CASE AddWin
    BY <2>1, BecomesShown, TallyTypes DEF AddWin
  <2>2. CASE AddLoss
    BY <2>2, BecomesShown, TallyTypes DEF AddLoss
  <2>3. ASSUME NEW v \in Corrections, EditWins(v) PROVE Shows'
    <3>1. v \in Nat
      BY <2>0
    <3> QED BY <2>3, <3>1, BecomesShown, TallyTypes DEF EditWins
  <2>4. ASSUME NEW v \in Corrections, EditLosses(v) PROVE Shows'
    <3>1. v \in Nat
      BY <2>0
    <3> QED BY <2>4, <3>1, BecomesShown, TallyTypes DEF EditLosses
  <2>5. CASE UNCHANGED tally
    BY <2>5 DEF tally, Shows
  <2> QED BY <2>1, <2>2, <2>3, <2>4, <2>5 DEF TallyNext
<1> QED BY <1>1, <1>2, PTL DEF TallySpec

LEMMA PercentageIsExactOrOneLess ==
  ASSUME NEW f, NEW w \in Nat, NEW t \in Nat \ {0}, IsPercentage(f, w, t)
  PROVE  \/ f = (100 * w) \div t
         \/ (100 * w) % t = 0 /\ f = ((100 * w) \div t) - 1
<1> DEFINE q == (100 * w) \div t
           r == (100 * w) % t
<1>1. q \in Nat /\ r \in 0 .. t - 1 /\ 100 * w = t * q + r
  OBVIOUS
<1>2. f \in Nat /\ f * t <= 100 * w /\ 100 * w <= (f + 1) * t
  BY DEF IsPercentage
<1> HIDE DEF q, r
<1>3. f <= q
  <2> SUFFICES ASSUME ~ (f <= q) PROVE FALSE
    OBVIOUS
  <2>1. (q + 1) * t <= f * t
    BY ONLY <1>1, <1>2, ~ (f <= q), t \in Nat \ {0}
  <2>2. (q + 1) * t = t * q + t
    BY ONLY <1>1, t \in Nat
  <2> QED BY ONLY <1>1, <1>2, <2>1, <2>2, t \in Nat, w \in Nat
<1>4. f # q => f = q - 1 /\ r = 0
  <2> SUFFICES ASSUME f + 1 <= q PROVE f = q - 1 /\ r = 0
    BY ONLY <1>1, <1>2, <1>3
  <2>1. (f + 1) * t <= q * t /\ q * t = t * q
    BY ONLY <1>1, <1>2, f + 1 <= q, t \in Nat
  <2>2. r = 0 /\ (f + 1) * t = q * t
    BY ONLY <1>1, <1>2, <2>1, t \in Nat, w \in Nat
  <2>3. f + 1 = q
    BY ONLY <1>1, <1>2, <2>2, t \in Nat \ {0}
  <2> QED BY ONLY <1>2, <2>2, <2>3
<1> QED BY ONLY <1>3, <1>4 DEF q, r

(* What is displayed is the percentage of wins rounded down, or one less   *)
(* when it is a whole number: calculateStat and its two roundings.         *)
THEOREM PercentageWithinOneHolds == TallySpec => []PercentageWithinOne
<1>1. ASSUME Shows PROVE PercentageWithinOne
  <2> DEFINE w == desc.wins
             l == desc.losses
             f == calculateStat(w, l).percentage
  <2>1. w \in Nat /\ l \in Nat /\ w + l <= MaxMatches /\ shown.percentage = f
    BY <1>1 DEF Shows
  <2>2. w + l < PowerOfTwo(44)
    BY ONLY <2>1, FewMatches, w + l \in Nat
  <2> HIDE DEF w, l
  <2>3. w + l > 0 => IsPercentage(f, w, w + l)
    BY ONLY <2>1, <2>2, StatIsPercentage
  <2> HIDE DEF f
  <2>4. ASSUME w + l > 0
        PROVE  \/ f = (100 * w) \div (w + l)
               \/ (100 * w) % (w + l) = 0 /\ f = ((100 * w) \div (w + l)) - 1
    <3> DEFINE t == w + l
    <3>1. t \in Nat \ {0} /\ IsPercentage(f, w, t)
      BY ONLY <2>1, <2>3, <2>4
    <3> HIDE DEF t
    <3>2. \/ f = (100 * w) \div t
          \/ (100 * w) % t = 0 /\ f = ((100 * w) \div t) - 1
      BY ONLY <2>1, <3>1, PercentageIsExactOrOneLess
    <3> QED BY ONLY <3>2 DEF t
  <2> QED BY ONLY <2>1, <2>4 DEF PercentageWithinOne, w, l
<1> QED BY <1>1, ShowsHolds, PTL

(* One more match: a win keeps the percentage from falling, a defeat from  *)
(* rising.                                                                 *)
LEMMA OneMoreWin ==
  ASSUME NEW w \in Nat, NEW t \in Nat \ {0}, NEW f, NEW g, w < t,
         IsPercentage(f, w, t), IsPercentage(g, w + 1, t + 1)
  PROVE  g >= f
<1>1. f \in Nat /\ g \in Nat /\ f * t <= 100 * w /\ 100 * (w + 1) <= (g + 1) * (t + 1)
  BY DEF IsPercentage
<1> SUFFICES ASSUME ~ (g >= f) PROVE FALSE
  OBVIOUS
<1>0. g + 1 <= f
  BY ONLY <1>1, ~ (g >= f)
<1>2. (g + 1) * (t + 1) <= f * (t + 1)
  BY ONLY <1>0, <1>1, t \in Nat
<1>3. f * (t + 1) = f * t + f
  BY ONLY <1>1, t \in Nat
<1> DEFINE x == f * t
           y == (g + 1) * (t + 1)
<1>4. x \in Nat /\ y \in Nat /\ x <= 100 * w /\ 100 * (w + 1) <= y /\ y <= x + f
  BY ONLY <1>1, <1>2, <1>3, t \in Nat
<1> HIDE DEF x, y
<1>5. 100 <= f
  BY ONLY <1>1, <1>4, w \in Nat
<1>6. 100 * t <= f * t
  BY ONLY <1>1, <1>5, t \in Nat
<1> QED BY ONLY <1>1, <1>6, w < t, w \in Nat, t \in Nat

LEMMA OneMoreDefeat ==
  ASSUME NEW w \in Nat, NEW t \in Nat \ {0}, NEW f, NEW g,
         IsPercentage(f, w, t), IsPercentage(g, w, t + 1)
  PROVE  g <= f
<1>1. f \in Nat /\ g \in Nat /\ 100 * w <= (f + 1) * t /\ g * (t + 1) <= 100 * w
  BY DEF IsPercentage
<1> SUFFICES ASSUME f + 1 <= g PROVE FALSE
  BY ONLY <1>1
<1>2. (f + 1) * (t + 1) <= g * (t + 1)
  BY ONLY <1>1, f + 1 <= g, t \in Nat
<1>3. (f + 1) * (t + 1) = (f + 1) * t + (f + 1)
  BY ONLY <1>1, t \in Nat
<1> DEFINE x == (f + 1) * t
           y == g * (t + 1)
<1>4. x \in Nat /\ y \in Nat /\ 100 * w <= x /\ y <= 100 * w /\ x + (f + 1) <= y
  BY ONLY <1>1, <1>2, <1>3, t \in Nat
<1> HIDE DEF x, y
<1> QED BY ONLY <1>1, <1>4, w \in Nat

(* The rounding never turns a win into a lower percentage or a defeat into *)
(* a higher one: addWin and addLoss, and showStats after them.             *)
THEOREM ResultsPushTheRightWayHolds == TallySpec => ResultsPushTheRightWay
<1>1. ASSUME Shows, Shows', AddWin PROVE shown'.percentage >= shown.percentage
  <2> DEFINE w == desc.wins
             l == desc.losses
             f == shown.percentage
             g == shown'.percentage
  <2>1. /\ w \in Nat /\ l \in Nat /\ w + l <= MaxMatches
        /\ f = calculateStat(w, l).percentage
        /\ desc' = [wins |-> w + 1, losses |-> l]
        /\ (w + 1) + l <= MaxMatches
        /\ g = calculateStat(w + 1, l).percentage
    BY <1>1, TallyTypes DEF Shows, AddWin, Becomes
  <2>2. w + l < PowerOfTwo(44) /\ (w + 1) + l < PowerOfTwo(44)
    <3>1. w + l \in Nat /\ (w + 1) + l \in Nat
      BY ONLY <2>1
    <3> QED BY ONLY <2>1, <3>1, FewMatches
  <2> HIDE DEF w, l, f, g
  <2>3. (w + l > 0 => IsPercentage(f, w, w + l)) /\ (l = 0 => f = 100)
    BY ONLY <2>1, <2>2, StatIsPercentage
  <2>4. ((w + 1) + l > 0 => IsPercentage(g, w + 1, (w + 1) + l)) /\ (l = 0 => g = 100)
    <3>1. w + 1 \in Nat
      BY ONLY <2>1
    <3> QED BY ONLY <2>1, <2>2, <3>1, StatIsPercentage
  <2>5. g >= f
    <3>1. CASE l = 0
      BY ONLY <2>3, <2>4, <3>1
    <3>2. CASE l # 0
      <4> DEFINE t == w + l
      <4>1. t \in Nat \ {0} /\ w < t /\ (w + 1) + l = t + 1 /\ w + l > 0 /\ (w + 1) + l > 0
        BY ONLY <2>1, <3>2
      <4>2. IsPercentage(f, w, t) /\ IsPercentage(g, w + 1, t + 1)
        BY ONLY <2>3, <2>4, <4>1
      <4> HIDE DEF t
      <4> QED BY ONLY <2>1, <4>1, <4>2, OneMoreWin
    <3> QED BY ONLY <3>1, <3>2
  <2> QED BY ONLY <2>5 DEF f, g
<1>2. ASSUME Shows, Shows', AddLoss PROVE shown'.percentage <= shown.percentage
  <2> DEFINE w == desc.wins
             l == desc.losses
             f == shown.percentage
             g == shown'.percentage
  <2>1. /\ w \in Nat /\ l \in Nat /\ w + l <= MaxMatches
        /\ f = calculateStat(w, l).percentage
        /\ desc' = [wins |-> w, losses |-> l + 1]
        /\ w + (l + 1) <= MaxMatches
        /\ g = calculateStat(w, l + 1).percentage
    BY <1>2, TallyTypes DEF Shows, AddLoss, Becomes
  <2>2. w + l < PowerOfTwo(44) /\ w + (l + 1) < PowerOfTwo(44)
    <3>1. w + l \in Nat /\ w + (l + 1) \in Nat
      BY ONLY <2>1
    <3> QED BY ONLY <2>1, <3>1, FewMatches
  <2> HIDE DEF w, l, f, g
  <2>3. (w + l > 0 => IsPercentage(f, w, w + l)) /\ (l = 0 => f = 100)
    BY ONLY <2>1, <2>2, StatIsPercentage
  <2>4. w + (l + 1) > 0 => IsPercentage(g, w, w + (l + 1))
    <3>1. l + 1 \in Nat
      BY ONLY <2>1
    <3> QED BY ONLY <2>1, <2>2, <3>1, StatIsPercentage
  <2>5. g <= f
    <3>1. CASE w + l = 0
      <4>1. w = 0 /\ f = 100 /\ w + (l + 1) = 1
        BY ONLY <2>1, <2>3, <3>1
      <4>2. IsPercentage(g, 0, 1)
        BY ONLY <2>4, <4>1
      <4> QED BY ONLY <4>1, <4>2 DEF IsPercentage
    <3>2. CASE w + l # 0
      <4> DEFINE t == w + l
      <4>1. t \in Nat \ {0} /\ w + (l + 1) = t + 1 /\ w + l > 0 /\ w + (l + 1) > 0
        BY ONLY <2>1, <3>2
      <4>2. IsPercentage(f, w, t) /\ IsPercentage(g, w, t + 1)
        BY ONLY <2>3, <2>4, <4>1
      <4> HIDE DEF t
      <4> QED BY ONLY <2>1, <4>1, <4>2, OneMoreDefeat
    <3> QED BY ONLY <3>1, <3>2
  <2> QED BY ONLY <2>5 DEF f, g
<1>3. Shows /\ Shows' /\ [TallyNext]_tally
      => [/\ AddWin => shown'.percentage >= shown.percentage
          /\ AddLoss => shown'.percentage <= shown.percentage]_tally
  BY <1>1, <1>2
<1> QED BY <1>3, ShowsHolds, PTL DEF TallySpec, ResultsPushTheRightWay
=============================================================================
