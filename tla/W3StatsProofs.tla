--------------------------- MODULE W3StatsProofs ----------------------------
(***************************************************************************)
(* What is shown, listed and stored stays in step, whatever the user taps  *)
(* between a postponed block and its turn, for every set of names and      *)
(* races, every Int.max and every length of the main queue.                *)
(***************************************************************************)
EXTENDS W3Stats, FiniteSetTheorems, TLAPS

(* The row found by a name. *)
At(rows, n) == rows[RowOf(rows, n)]

(* Names are keys; outside a failed transaction the app sees what is       *)
(* committed.                                                              *)
StoreInv ==
  /\ NamesUnique(disk) /\ NamesUnique(view)
  /\ stage = "reading" => view = disk
  /\ process = "running" => (failed <=> stage = "writing")

(* Nothing but the committed rows outlives the process. *)
EndedInv ==
  process # "running" =>
    /\ stage = "reading" /\ queue = << >>
    /\ player = NoPlayer /\ presented = "none"

(* The player is the stored one already when the players screen leaves:    *)
(* what was chosen is not deleted under it.                                *)
PlayerInv ==
  stage = "reading" /\ presented # "players" /\ player # NoPlayer =>
    /\ player.name \in NamesOf(view)
    /\ At(view, player.name) = player
    /\ labels = player

(* A block that selects a row waits only while the rows are there.         *)
QueueInv ==
  \A i \in DOMAIN queue :
    queue[i].kind = "select" => presented \in {"players", "leaving"}

(* The edit alert is about the player on the screen. *)
EditInv ==
  presented = "edit" =>
    player # NoPlayer /\ edit \in [name : Names, race : Races, result : Results]

(* The list has each stored name once. *)
Lists(names, rows) ==
  /\ {names[i] : i \in DOMAIN names} = NamesOf(rows)
  /\ Len(names) = Len(rows)
  /\ \A i, j \in DOMAIN names : names[i] = names[j] => i = j

ListInv == presented \in {"players", "leaving"} => Lists(list, view)

(* The blur is dimmed as long as the panel is up; then a completion        *)
(* handler is to hide it.                                                  *)
PanelInv(o) ==
  /\ o.dimmed = o.panel
  /\ o.panel \/ o.hidden \/ o.fades > 0

(* A visible checkmark has a timer or a fade to end it, a transparent one  *)
(* a fade.                                                                 *)
MarkInv ==
  /\ mark.timers + mark.fades <= MaxTimers
  /\ mark.hidden \/ mark.timers + mark.fades > 0
  /\ mark.opaque \/ mark.fades > 0

ScreensInv == PanelInv(statsOverlay) /\ PanelInv(playersOverlay) /\ MarkInv

IInv ==
  /\ TypeOK
  /\ StoreInv /\ EndedInv
  /\ PlayerInv /\ QueueInv /\ EditInv
  /\ ListInv
  /\ ScreensInv

-----------------------------------------------------------------------------
(* Rows. *)

(* The row found by a name is in the table and has that name. *)
LEMMA RowOfFinds ==
  ASSUME NEW rows, NEW n \in NamesOf(rows)
  PROVE  RowOf(rows, n) \in DOMAIN rows /\ rows[RowOf(rows, n)].name = n
  BY DEF NamesOf, RowOf

(* With unique names every row is the one found by its name. *)
LEMMA RowOfIsTheRow ==
  ASSUME NEW rows, NamesUnique(rows), NEW i \in DOMAIN rows
  PROVE  RowOf(rows, rows[i].name) = i
<1>1. rows[i].name \in NamesOf(rows)
  BY DEF NamesOf
<1>2. /\ RowOf(rows, rows[i].name) \in DOMAIN rows
      /\ rows[RowOf(rows, rows[i].name)].name = rows[i].name
  BY <1>1, RowOfFinds
<1> QED BY <1>2 DEF NamesUnique

(* Two tables that each keep names unique agree on a name when they agree  *)
(* on a row of that name.                                                  *)
LEMMA SameRowAt ==
  ASSUME NEW rows, NEW rows2, NamesUnique(rows2),
         NEW n \in NamesOf(rows), NEW j \in DOMAIN rows2,
         rows2[j] = rows[RowOf(rows, n)]
  PROVE  n \in NamesOf(rows2) /\ At(rows2, n) = At(rows, n)
<1>1. rows2[j].name = n
  BY RowOfFinds
<1>2. RowOf(rows2, n) = j
  BY <1>1, RowOfIsTheRow
<1> QED BY <1>1, <1>2 DEF NamesOf, At

(* What writing a player into rows leads to: the player under his name,    *)
(* the others as they were.                                                *)
Written(rows, p, rows2) ==
  /\ rows2 \in Seq(Player) /\ NamesUnique(rows2)
  /\ NamesOf(rows2) = NamesOf(rows) \cup {p.name}
  /\ At(rows2, p.name) = p
  /\ \A n \in NamesOf(rows) : n # p.name => At(rows2, n) = At(rows, n)
  /\ p.name \notin NamesOf(rows) => Len(rows2) = Len(rows) + 1

(* PutRow writes a player and nothing else, found or not. *)
LEMMA PutRowWrites ==
  ASSUME NEW rows \in Seq(Player), NamesUnique(rows), NEW p \in Player
  PROVE  Written(rows, p, PutRow(rows, p))
<1> DEFINE rows2 == PutRow(rows, p)
<1>0. DOMAIN rows = 1 .. Len(rows) /\ Len(rows) \in Nat
  OBVIOUS
<1>1. CASE p.name \in NamesOf(rows)
  <2> DEFINE k == RowOf(rows, p.name)
  <2>1. k \in DOMAIN rows /\ rows[k].name = p.name
    BY <1>1, RowOfFinds
  <2>2. rows2 = [rows EXCEPT ![k] = p]
    BY <1>1 DEF PutRow
  <2> HIDE DEF k, rows2
  <2>3. /\ rows2 \in Seq(Player)
        /\ DOMAIN rows2 = DOMAIN rows
        /\ \A i \in DOMAIN rows : rows2[i] = IF i = k THEN p ELSE rows[i]
    BY <2>1, <2>2
  <2>4. NamesUnique(rows2)
    BY <2>1, <2>3 DEF NamesUnique
  <2>5. NamesOf(rows2) = NamesOf(rows)
    BY <2>1, <2>3 DEF NamesOf
  <2>6. At(rows2, p.name) = p
    BY <2>1, <2>3, <2>4, RowOfIsTheRow DEF At
  <2>7. ASSUME NEW n \in NamesOf(rows), n # p.name
        PROVE  At(rows2, n) = At(rows, n)
    <3>1. RowOf(rows, n) \in DOMAIN rows /\ RowOf(rows, n) # k
      BY <2>1, <2>7, RowOfFinds
    <3> QED BY <2>3, <2>4, <3>1, SameRowAt
  <2> QED BY <1>1, <2>3, <2>4, <2>5, <2>6, <2>7 DEF Written, rows2
<1>2. CASE p.name \notin NamesOf(rows)
  <2>1. rows2 = Append(rows, p)
    BY <1>2 DEF PutRow
  <2> HIDE DEF rows2
  <2>2. /\ rows2 \in Seq(Player)
        /\ Len(rows2) = Len(rows) + 1
        /\ DOMAIN rows2 = 1 .. Len(rows) + 1
        /\ \A i \in DOMAIN rows : rows2[i] = rows[i]
        /\ rows2[Len(rows) + 1] = p
    BY <1>0, <2>1
  <2>3. \A i \in DOMAIN rows : rows[i].name # p.name
    BY <1>2 DEF NamesOf
  <2>4. NamesUnique(rows2)
    BY <1>0, <2>2, <2>3 DEF NamesUnique
  <2>5. NamesOf(rows2) = NamesOf(rows) \cup {p.name}
    BY <1>0, <2>2 DEF NamesOf
  <2>6. At(rows2, p.name) = p
    BY <1>0, <2>2, <2>4, RowOfIsTheRow DEF At
  <2>7. ASSUME NEW n \in NamesOf(rows)
        PROVE  At(rows2, n) = At(rows, n)
    <3>1. RowOf(rows, n) \in DOMAIN rows
      BY RowOfFinds
    <3>2. RowOf(rows, n) \in DOMAIN rows2
      BY <1>0, <2>2, <3>1
    <3> QED BY <2>2, <2>4, <3>1, <3>2, SameRowAt
  <2> QED BY <2>2, <2>4, <2>5, <2>6, <2>7 DEF Written, rows2
<1> QED BY <1>1, <1>2

(* What deleting a player leads to: the others as they were. *)
Dropped(rows, n, rows2) ==
  /\ rows2 \in Seq(Player) /\ NamesUnique(rows2)
  /\ NamesOf(rows2) = NamesOf(rows) \ {n}
  /\ \A m \in NamesOf(rows2) : At(rows2, m) = At(rows, m)
  /\ Len(rows2) = Len(rows) - 1

(* DropRow deletes a player and nothing else: the last row, which takes    *)
(* over the place, is found there.                                         *)
LEMMA DropRowDrops ==
  ASSUME NEW rows \in Seq(Player), NamesUnique(rows), NEW n \in NamesOf(rows)
  PROVE  Dropped(rows, n, DropRow(rows, n))
<1> DEFINE k == RowOf(rows, n)
           last == Len(rows)
           rows2 == DropRow(rows, n)
<1>1. DOMAIN rows = 1 .. last /\ last \in Nat
  OBVIOUS
<1>2. k \in 1 .. last /\ rows[k].name = n
  BY <1>1, RowOfFinds
<1>3. rows2 = [j \in 1 .. last - 1 |-> IF j = k THEN rows[last] ELSE rows[j]]
  BY DEF DropRow, MoveLastOver
<1> HIDE DEF k, rows2
<1>4. /\ DOMAIN rows2 = 1 .. last - 1
      /\ \A j \in DOMAIN rows2 : rows2[j] = IF j = k THEN rows[last] ELSE rows[j]
  BY <1>3
<1>5. rows2 \in Seq(Player) /\ Len(rows2) = last - 1
  <2>1. \A j \in 1 .. last - 1 :
           (IF j = k THEN rows[last] ELSE rows[j]) \in Player
    BY <1>1, <1>2
  <2>2. last - 1 \in Nat
    BY <1>1, <1>2
  <2> QED BY <1>3, <2>1, <2>2
<1> HIDE DEF last
<1>6. NamesUnique(rows2)
  BY <1>1, <1>2, <1>4 DEF NamesUnique
<1>7. ASSUME NEW j \in DOMAIN rows2
      PROVE  rows2[j].name \in NamesOf(rows) \ {n}
  BY <1>1, <1>2, <1>4 DEF NamesOf, NamesUnique
<1>8. ASSUME NEW m \in NamesOf(rows) \ {n}
      PROVE  m \in NamesOf(rows2) /\ At(rows2, m) = At(rows, m)
  <2> DEFINE i == RowOf(rows, m)
             j == IF i = last THEN k ELSE i
  <2>1. i \in 1 .. last /\ i # k
    BY <1>1, <1>2, RowOfFinds
  <2>2. j \in DOMAIN rows2 /\ rows2[j] = rows[i]
    BY <1>1, <1>2, <1>4, <2>1
  <2> QED BY <1>6, <2>2, SameRowAt
<1>9. NamesOf(rows2) = NamesOf(rows) \ {n}
  <2>1. NamesOf(rows2) \subseteq NamesOf(rows) \ {n}
    BY <1>7 DEF NamesOf
  <2> QED BY <1>8, <2>1
<1> QED BY <1>5, <1>6, <1>8, <1>9 DEF Dropped, rows2, last

-----------------------------------------------------------------------------
(* The list of names. *)

(* The names of a table, in the order of its rows. *)
LEMMA NamesAreListed ==
  ASSUME NEW rows \in Seq(Player), NamesUnique(rows)
  PROVE  LET names == [i \in DOMAIN rows |-> rows[i].name] IN
         names \in Seq(Names) /\ Lists(names, rows)
<1> DEFINE names == [i \in DOMAIN rows |-> rows[i].name]
<1>1. DOMAIN rows = 1 .. Len(rows) /\ Len(rows) \in Nat
  OBVIOUS
<1>2. \A i \in DOMAIN rows : rows[i].name \in Names
  <2>1. \A i \in DOMAIN rows : rows[i] \in Player
    BY <1>1
  <2> QED BY <2>1 DEF Player
<1>3. names \in Seq(Names) /\ Len(names) = Len(rows) /\ DOMAIN names = DOMAIN rows
  BY <1>1, <1>2
<1>4. {names[i] : i \in DOMAIN names} = NamesOf(rows)
  BY DEF NamesOf
<1>5. \A i, j \in DOMAIN names : names[i] = names[j] => i = j
  BY DEF NamesUnique
<1> QED BY <1>3, <1>4, <1>5 DEF Lists

(* A new name is appended to the list while the player is written. *)
LEMMA AppendIsListed ==
  ASSUME NEW names \in Seq(Names), NEW rows, NEW rows2, NEW p \in Player,
         Lists(names, rows), p.name \notin NamesOf(rows), Written(rows, p, rows2)
  PROVE  Append(names, p.name) \in Seq(Names) /\ Lists(Append(names, p.name), rows2)
<1> DEFINE names2 == Append(names, p.name)
           last == Len(names)
<1>1. p.name \in Names
  BY DEF Player
<1>2. DOMAIN names = 1 .. last /\ last \in Nat
  OBVIOUS
<1>3. /\ names2 \in Seq(Names) /\ Len(names2) = last + 1
      /\ DOMAIN names2 = 1 .. last + 1
      /\ \A i \in 1 .. last : names2[i] = names[i]
      /\ names2[last + 1] = p.name
  BY <1>1, <1>2
<1>4. /\ {names[i] : i \in DOMAIN names} = NamesOf(rows)
      /\ last = Len(rows)
      /\ \A i, j \in DOMAIN names : names[i] = names[j] => i = j
  BY DEF Lists
<1>5. NamesOf(rows2) = NamesOf(rows) \cup {p.name} /\ Len(rows2) = Len(rows) + 1
  BY DEF Written
<1> HIDE DEF names2, last
<1>6. {names2[i] : i \in DOMAIN names2} = NamesOf(rows2)
  BY <1>2, <1>3, <1>4, <1>5
<1>7. \A i, j \in DOMAIN names2 : names2[i] = names2[j] => i = j
  <2>1. \A i \in 1 .. last : names[i] # p.name
    BY <1>2, <1>4
  <2> QED BY <1>2, <1>3, <1>4, <2>1
<1>8. Lists(names2, rows2)
  BY <1>3, <1>4, <1>5, <1>6, <1>7 DEF Lists
<1> QED BY <1>3, <1>8 DEF names2

(* A name is taken out of the list while the player is deleted: the list   *)
(* closes the gap, the table fills it.                                     *)
LEMMA RemovalIsListed ==
  ASSUME NEW names \in Seq(Names), NEW rows, NEW rows2, NEW k \in DOMAIN names,
         Lists(names, rows), Dropped(rows, names[k], rows2)
  PROVE  LET names2 == SubSeq(names, 1, k - 1) \o SubSeq(names, k + 1, Len(names))
         IN  names2 \in Seq(Names) /\ Lists(names2, rows2)
<1> DEFINE last == Len(names)
           a == SubSeq(names, 1, k - 1)
           b == SubSeq(names, k + 1, last)
           names2 == a \o b
<1>1. DOMAIN names = 1 .. last /\ last \in Nat /\ k \in 1 .. last
  OBVIOUS
<1>2. /\ a \in Seq(Names) /\ Len(a) = k - 1
      /\ \A i \in 1 .. k - 1 : a[i] = names[i]
  BY <1>1
<1>3. /\ b \in Seq(Names) /\ Len(b) = last - k
      /\ \A i \in 1 .. last - k : b[i] = names[k + i]
  BY <1>1
<1> HIDE DEF a, b
<1>4. /\ names2 \in Seq(Names) /\ Len(names2) = last - 1
      /\ DOMAIN names2 = 1 .. last - 1
      /\ \A i \in 1 .. last - 1 : names2[i] = IF i < k THEN names[i] ELSE names[i + 1]
  <2>1. names2 \in Seq(Names) /\ Len(names2) = Len(a) + Len(b)
    <3>1. a \in Seq(Names) /\ b \in Seq(Names)
      BY <1>2, <1>3
    <3> QED BY ONLY <3>1
  <2>2. Len(names2) = last - 1 /\ last - 1 \in Nat
    BY <1>1, <1>2, <1>3, <2>1
  <2>3. DOMAIN names2 = 1 .. last - 1
    BY <2>1, <2>2
  <2>4. ASSUME NEW i \in 1 .. last - 1, i < k
        PROVE  names2[i] = names[i]
    BY <1>1, <1>2, <1>3, <2>4
  <2>5. ASSUME NEW i \in 1 .. last - 1, ~(i < k)
        PROVE  names2[i] = names[i + 1]
    <3>1. names2[i] = b[i - (k - 1)]
      BY <1>1, <1>2, <1>3, <2>5
    <3>2. i - (k - 1) \in 1 .. last - k /\ k + (i - (k - 1)) = i + 1
      BY <1>1, <2>5
    <3>3. b[i - (k - 1)] = names[k + (i - (k - 1))]
      BY <1>3, <3>2
    <3> QED BY <3>1, <3>2, <3>3
  <2> QED BY <2>1, <2>2, <2>3, <2>4, <2>5
<1>5. /\ {names[i] : i \in DOMAIN names} = NamesOf(rows)
      /\ last = Len(rows)
      /\ \A i, j \in DOMAIN names : names[i] = names[j] => i = j
  BY DEF Lists
<1>6. NamesOf(rows2) = NamesOf(rows) \ {names[k]} /\ Len(rows2) = Len(rows) - 1
  BY DEF Dropped
<1> HIDE DEF names2, last
<1>7. {names2[i] : i \in DOMAIN names2} = NamesOf(rows2)
  <2>1. ASSUME NEW i \in DOMAIN names2
        PROVE  names2[i] \in NamesOf(rows) \ {names[k]}
    BY <1>1, <1>4, <1>5
  <2>2. ASSUME NEW n \in NamesOf(rows) \ {names[k]}
        PROVE  \E i \in DOMAIN names2 : names2[i] = n
    <3>1. PICK j \in 1 .. last : names[j] = n
      BY <1>1, <1>5
    <3>2. CASE j < k
      BY <1>1, <1>4, <3>1, <3>2
    <3>3. CASE j > k
      <4>1. j - 1 \in DOMAIN names2 /\ names2[j - 1] = names[j]
        BY <1>1, <1>4, <3>3
      <4> QED BY <3>1, <4>1
    <3> QED BY <1>1, <3>1, <3>2, <3>3
  <2> QED BY <1>6, <2>1, <2>2
<1>8. ASSUME NEW i \in DOMAIN names2, NEW j \in DOMAIN names2,
             names2[i] = names2[j]
      PROVE  i = j
  <2> DEFINE From(x) == IF x < k THEN x ELSE x + 1
  <2>1. /\ From(i) \in 1 .. last /\ names2[i] = names[From(i)]
        /\ From(j) \in 1 .. last /\ names2[j] = names[From(j)]
    BY <1>1, <1>4
  <2>2. From(i) = From(j)
    BY <1>1, <1>5, <1>8, <2>1
  <2> QED BY <1>1, <1>4, <2>2
<1>9. Lists(names2, rows2)
  BY <1>4, <1>5, <1>6, <1>7, <1>8 DEF Lists
<1> QED BY <1>4, <1>9 DEF names2, a, b, last

-----------------------------------------------------------------------------
(* The panels and the checkmark. *)

LEMMA Bounds ==
  /\ MaxQueue \in Nat /\ 1 <= MaxQueue
  /\ MaxFades \in Nat /\ MaxPlayersFades \in Nat /\ MaxTimers \in Nat
  BY BoundsAssumption

Reasons == { "killed", "duplicate name", "open transaction", "overflow",
             "row out of range" }

LEMMA ScreensBegin ==
  /\ StatsPanel!Closed \in [ panel : BOOLEAN, dimmed : BOOLEAN, hidden : BOOLEAN,
                             rising : BOOLEAN, fades : 0 .. MaxFades ]
  /\ PlayersPanel!Closed \in [ panel : BOOLEAN, dimmed : BOOLEAN, hidden : BOOLEAN,
                               rising : BOOLEAN, fades : 0 .. MaxPlayersFades ]
  /\ Check!Idle \in [ hidden : BOOLEAN, opaque : BOOLEAN,
                      timers : 0 .. MaxTimers, fades : 0 .. MaxTimers ]
  /\ PanelInv(StatsPanel!Closed) /\ PanelInv(PlayersPanel!Closed)
  BY Bounds DEF StatsPanel!Closed, PlayersPanel!Closed, Check!Idle, PanelInv

Panels(m) == [ panel : BOOLEAN, dimmed : BOOLEAN, hidden : BOOLEAN,
               rising : BOOLEAN, fades : 0 .. m ]

(* However the handlers of a panel and its completions follow each other,  *)
(* a blur without a panel is hidden or is going to be.                     *)
LEMMA PanelHides ==
  ASSUME NEW m \in Nat, NEW o \in Panels(m), NEW o2, PanelInv(o), o.fades < m,
         o2 = [o EXCEPT !.panel = FALSE, !.dimmed = FALSE, !.rising = FALSE,
                        !.fades = @ + 1]
  PROVE  o2 \in Panels(m) /\ PanelInv(o2)
<1>1. o.fades \in 0 .. m /\ o.hidden \in BOOLEAN
  BY DEF Panels
<1>2. o.fades + 1 \in 0 .. m /\ o.fades + 1 > 0
  BY <1>1
<1>3. o2 = [ panel |-> FALSE, dimmed |-> FALSE, hidden |-> o.hidden,
             rising |-> FALSE, fades |-> o.fades + 1 ]
  BY DEF Panels
<1> QED BY <1>1, <1>2, <1>3 DEF Panels, PanelInv

LEMMA PanelFadesOut ==
  ASSUME NEW m \in Nat, NEW o \in Panels(m), NEW o2, PanelInv(o), o.fades > 0,
         o2 = [o EXCEPT !.hidden = TRUE, !.fades = @ - 1]
  PROVE  o2 \in Panels(m) /\ PanelInv(o2)
<1>1. o.fades \in 0 .. m /\ {o.panel, o.dimmed, o.rising} \subseteq BOOLEAN
  BY DEF Panels
<1>2. o.fades - 1 \in 0 .. m
  BY <1>1
<1>3. o2 = [ panel |-> o.panel, dimmed |-> o.dimmed, hidden |-> TRUE,
             rising |-> o.rising, fades |-> o.fades - 1 ]
  BY DEF Panels
<1> QED BY <1>1, <1>2, <1>3 DEF Panels, PanelInv

LEMMA StatsPanelMoves ==
  ASSUME StatsPanel!TypeOK, PanelInv(statsOverlay),
         \/ StatsPanel!Show \/ StatsPanel!Hide
         \/ StatsPanel!FadeInEnds \/ StatsPanel!FadeOutEnds
  PROVE  StatsPanel!TypeOK' /\ PanelInv(statsOverlay')
<1>0. statsOverlay \in Panels(MaxFades)
  BY DEF StatsPanel!TypeOK, Panels
<1>1. CASE StatsPanel!Show
  BY <1>1 DEF StatsPanel!Show, StatsPanel!Shown, StatsPanel!TypeOK, PanelInv
<1>2. CASE StatsPanel!Hide
  <2>1. statsOverlay' \in Panels(MaxFades) /\ PanelInv(statsOverlay')
    BY <1>0, <1>2, Bounds, PanelHides DEF StatsPanel!Hide
  <2> QED BY <2>1 DEF StatsPanel!TypeOK, Panels
<1>3. CASE StatsPanel!FadeInEnds
  BY <1>3 DEF StatsPanel!FadeInEnds, StatsPanel!TypeOK, PanelInv
<1>4. CASE StatsPanel!FadeOutEnds
  <2>1. statsOverlay' \in Panels(MaxFades) /\ PanelInv(statsOverlay')
    BY <1>0, <1>4, Bounds, PanelFadesOut DEF StatsPanel!FadeOutEnds
  <2> QED BY <2>1 DEF StatsPanel!TypeOK, Panels
<1> QED BY <1>1, <1>2, <1>3, <1>4

LEMMA PlayersPanelMoves ==
  ASSUME PlayersPanel!TypeOK, PanelInv(playersOverlay),
         \/ PlayersPanel!Show \/ PlayersPanel!Hide
         \/ PlayersPanel!FadeInEnds \/ PlayersPanel!FadeOutEnds
  PROVE  PlayersPanel!TypeOK' /\ PanelInv(playersOverlay')
<1>0. playersOverlay \in Panels(MaxPlayersFades)
  BY DEF PlayersPanel!TypeOK, Panels
<1>1. CASE PlayersPanel!Show
  BY <1>1 DEF PlayersPanel!Show, PlayersPanel!Shown, PlayersPanel!TypeOK, PanelInv
<1>2. CASE PlayersPanel!Hide
  <2>1. playersOverlay' \in Panels(MaxPlayersFades) /\ PanelInv(playersOverlay')
    BY <1>0, <1>2, Bounds, PanelHides DEF PlayersPanel!Hide
  <2> QED BY <2>1 DEF PlayersPanel!TypeOK, Panels
<1>3. CASE PlayersPanel!FadeInEnds
  BY <1>3 DEF PlayersPanel!FadeInEnds, PlayersPanel!TypeOK, PanelInv
<1>4. CASE PlayersPanel!FadeOutEnds
  <2>1. playersOverlay' \in Panels(MaxPlayersFades) /\ PanelInv(playersOverlay')
    BY <1>0, <1>4, Bounds, PanelFadesOut DEF PlayersPanel!FadeOutEnds
  <2> QED BY <2>1 DEF PlayersPanel!TypeOK, Panels
<1> QED BY <1>1, <1>2, <1>3, <1>4

(* However calls of showCheckmark overlap, a visible checkmark has a timer *)
(* or a fade, and a transparent one a fade.                                *)
LEMMA MarkMoves ==
  ASSUME Check!TypeOK, MarkInv,
         Check!Show \/ Check!TimerFires \/ Check!FadeEnds
  PROVE  Check!TypeOK' /\ MarkInv'
<1> DEFINE t == mark.timers
           f == mark.fades
<1>1. t \in Nat /\ f \in Nat /\ t + f <= MaxTimers /\ MaxTimers \in Nat
  BY Bounds DEF Check!TypeOK, MarkInv
<1>2. mark.hidden \in BOOLEAN /\ mark.opaque \in BOOLEAN
  BY DEF Check!TypeOK
<1>3. CASE Check!Show
  <2>1. t + f < MaxTimers
        /\ mark' = [hidden |-> FALSE, opaque |-> mark.opaque, timers |-> t + 1, fades |-> f]
    BY <1>3 DEF Check!Show, Check!TypeOK
  <2>2. t + 1 \in 0 .. MaxTimers /\ f \in 0 .. MaxTimers
    BY <1>1, <2>1
  <2>3. Check!TypeOK'
    BY <1>2, <2>1, <2>2 DEF Check!TypeOK
  <2> QED BY <1>1, <2>1, <2>3 DEF MarkInv
<1>4. CASE Check!TimerFires
  <2>1. t > 0
        /\ mark' = [hidden |-> mark.hidden, opaque |-> FALSE, timers |-> t - 1, fades |-> f + 1]
    BY <1>4 DEF Check!TimerFires, Check!TypeOK
  <2>2. t - 1 \in 0 .. MaxTimers /\ f + 1 \in 0 .. MaxTimers
    BY <1>1, <2>1
  <2>3. Check!TypeOK'
    BY <1>2, <2>1, <2>2 DEF Check!TypeOK
  <2> QED BY <1>1, <2>1, <2>3 DEF MarkInv
<1>5. CASE Check!FadeEnds
  <2>1. f > 0
        /\ mark' = [hidden |-> TRUE, opaque |-> TRUE, timers |-> t, fades |-> f - 1]
    BY <1>5 DEF Check!FadeEnds, Check!TypeOK
  <2>2. t \in 0 .. MaxTimers /\ f - 1 \in 0 .. MaxTimers
    BY <1>1, <2>1
  <2>3. Check!TypeOK'
    BY <1>2, <2>1, <2>2 DEF Check!TypeOK
  <2> QED BY <1>1, <2>1, <2>3 DEF MarkInv
<1> QED BY <1>3, <1>4, <1>5

-----------------------------------------------------------------------------
(* The invariant holds initially. *)
LEMMA InitIInv == Init => IInv
<1> SUFFICES ASSUME Init PROVE IInv
  OBVIOUS
<1> USE DEF Init
<1>1. << >> \in Seq(Player) /\ << >> \in Seq(Names)
  OBVIOUS
<1>2. queue \in Seq(Blocks) /\ Len(queue) = 1 /\ queue[1].kind = "present"
  <2>1. [kind |-> "present", row |-> 0] \in Blocks
    BY DEF Blocks
  <2> QED BY <2>1
<1>3. StatsPanel!TypeOK /\ PlayersPanel!TypeOK /\ Check!TypeOK
  BY ScreensBegin DEF StatsPanel!Init, PlayersPanel!Init, Check!Init,
     StatsPanel!TypeOK, PlayersPanel!TypeOK, Check!TypeOK
<1>4. TypeOK
  BY <1>1, <1>2, <1>3, Bounds DEF TypeOK
<1>5. StoreInv /\ EndedInv /\ PlayerInv /\ EditInv /\ ListInv
  BY DEF StoreInv, NamesUnique, EndedInv, PlayerInv, EditInv, ListInv
<1>6. QueueInv
  BY <1>2 DEF QueueInv
<1>7. ScreensInv
  BY ScreensBegin, Bounds
  DEF ScreensInv, MarkInv, Check!Idle, StatsPanel!Init, PlayersPanel!Init, Check!Init
<1> QED BY <1>4, <1>5, <1>6, <1>7 DEF IInv

(* The end of the process leaves the committed rows and no more.           *)
LEMMA EndIInv ==
  ASSUME IInv, NEW why \in Reasons,
         NEW rows \in Seq(Player), NamesUnique(rows), End(why, rows)
  PROVE  IInv'
<1>1. /\ process' = why
      /\ disk' = rows /\ view' = rows /\ stage' = "reading" /\ queue' = << >>
      /\ player' = NoPlayer /\ labels' = NoPlayer /\ presented' = "none" /\ edit' = NoEdit
      /\ list' = << >> /\ form' = NoName /\ playersAlert' = "none"
      /\ failed' = failed
  BY DEF End, NewStatsScreen, NewPlayersScreen
<1>2. /\ statsOverlay' = StatsPanel!Closed /\ playersOverlay' = PlayersPanel!Closed
      /\ mark' = Check!Idle
  BY DEF End, NewStatsScreen, NewPlayersScreen
<1>3. << >> \in Seq(Blocks) /\ << >> \in Seq(Names) /\ Len(<< >>) = 0
  OBVIOUS
<1>4. (StatsPanel!TypeOK /\ PlayersPanel!TypeOK /\ Check!TypeOK)'
  BY <1>2, ScreensBegin DEF StatsPanel!TypeOK, PlayersPanel!TypeOK, Check!TypeOK
<1>5. failed \in BOOLEAN
  BY DEF IInv, TypeOK
<1>6. TypeOK'
  <2>1. process' \in { "running", "killed", "duplicate name", "open transaction",
                       "overflow", "row out of range" }
    BY <1>1 DEF Reasons
  <2>2. queue' \in Seq(Blocks) /\ Len(queue') <= MaxQueue
    BY <1>1, <1>3, Bounds
  <2>3. list' \in Seq(Names)
    BY <1>1, <1>3
  <2> QED BY <1>1, <1>4, <1>5, <2>1, <2>2, <2>3 DEF TypeOK
<1>7. (StoreInv /\ EndedInv)'
  BY <1>1 DEF StoreInv, EndedInv, Reasons
<1>8. (PlayerInv /\ QueueInv /\ EditInv /\ ListInv)'
  BY <1>1 DEF PlayerInv, QueueInv, EditInv, ListInv
<1>9. ScreensInv'
  BY <1>2, ScreensBegin, Bounds DEF ScreensInv, MarkInv, Check!Idle
<1> QED BY <1>6, <1>7, <1>8, <1>9 DEF IInv

(* What a running process has committed is typed and has unique names.     *)
LEMMA DiskEndIInv ==
  ASSUME IInv, NEW why \in Reasons, End(why, disk)
  PROVE  IInv'
<1>1. disk \in Seq(Player) /\ NamesUnique(disk)
  BY DEF IInv, TypeOK, StoreInv
<1> QED BY <1>1, EndIInv

(* A launch starts with what was committed, and nothing else.              *)
LEMMA LaunchIInv == IInv /\ Launch => IInv'
<1> SUFFICES ASSUME IInv, Launch PROVE IInv'
  OBVIOUS
<1>1. /\ process # "running" /\ process' = "running" /\ failed' = FALSE
      /\ queue' = << [kind |-> "present", row |-> 0] >>
      /\ UNCHANGED <<disk, view, stage, player, labels, presented, edit, list,
                     form, playersAlert, statsOverlay, playersOverlay, mark>>
  BY DEF Launch, statsScreen, playersScreen
<1>2. queue' \in Seq(Blocks) /\ Len(queue') = 1 /\ queue'[1].kind = "present"
  <2>1. [kind |-> "present", row |-> 0] \in Blocks
    BY DEF Blocks
  <2> QED BY <1>1, <2>1
<1>3. stage = "reading" /\ player = NoPlayer /\ presented = "none"
  BY <1>1 DEF IInv, EndedInv
<1>4. TypeOK'
  <2>1. /\ disk \in Seq(Player) /\ view \in Seq(Player) /\ stage \in {"reading", "writing"}
        /\ player \in Player \cup {NoPlayer} /\ labels \in Player \cup {NoPlayer}
        /\ presented \in {"none", "players", "leaving", "edit", "alert"}
        /\ edit \in [name : Names, race : Races, result : Results] \cup {NoEdit}
        /\ list \in Seq(Names) /\ form \in Names \cup {NoName}
        /\ playersAlert \in {"none", "save", "delete"}
    BY DEF IInv, TypeOK
  <2>2. (StatsPanel!TypeOK /\ PlayersPanel!TypeOK /\ Check!TypeOK)'
    BY <1>1 DEF IInv, TypeOK, StatsPanel!TypeOK, PlayersPanel!TypeOK, Check!TypeOK
  <2> QED BY <1>1, <1>2, <2>1, <2>2, Bounds DEF TypeOK
<1>5. (StoreInv /\ EndedInv /\ PlayerInv /\ EditInv /\ ListInv)'
  BY <1>1, <1>3 DEF IInv, StoreInv, EndedInv, PlayerInv, EditInv, ListInv
<1>6. QueueInv'
  BY <1>2 DEF QueueInv
<1>7. ScreensInv'
  BY <1>1 DEF IInv, ScreensInv, MarkInv
<1> QED BY <1>4, <1>5, <1>6, <1>7 DEF IInv

-----------------------------------------------------------------------------
(* Steps that leave players, rows and lists alone. *)

(* Panels, the checkmark and the text field have nothing to do with what   *)
(* is shown, listed and stored.                                            *)
LEMMA ScreensMoveIInv ==
  ASSUME IInv, ScreensInv',
         (StatsPanel!TypeOK /\ PlayersPanel!TypeOK /\ Check!TypeOK)',
         form' \in Names \cup {NoName},
         UNCHANGED << process, store, queue, player, labels, presented, edit,
                      list, playersAlert >>
  PROVE  IInv'
<1>1. UNCHANGED << process, disk, view, stage, failed, queue, player, labels,
                   presented, edit, list, playersAlert >>
  BY DEF store
<1>2. TypeOK'
  BY <1>1 DEF IInv, TypeOK
<1>3. (StoreInv /\ EndedInv)'
  BY <1>1 DEF IInv, StoreInv, EndedInv
<1>4. (PlayerInv /\ QueueInv /\ EditInv /\ ListInv)'
  BY <1>1 DEF IInv, PlayerInv, QueueInv, EditInv, ListInv
<1> QED BY <1>2, <1>3, <1>4 DEF IInv

LEMMA StatsPanelIInv ==
  ASSUME IInv, addMatchButtonTapped \/ tappedOnStatsBackground \/ StatsFadeEnds
  PROVE  IInv'
<1>1. /\ process = "running"
      /\ UNCHANGED << process, store, queue, player, labels, presented, edit, mark,
                      playersScreen >>
      /\ \/ StatsPanel!Show \/ StatsPanel!Hide
         \/ StatsPanel!FadeInEnds \/ StatsPanel!FadeOutEnds
  BY DEF addMatchButtonTapped, tappedOnStatsBackground, StatsFadeEnds,
         StatsInFront, StatsPanel!AddTapped, StatsPanel!BackgroundTapped
<1>2. UNCHANGED <<mark, list, form, playersAlert, playersOverlay>>
  BY <1>1 DEF playersScreen
<1>3. StatsPanel!TypeOK' /\ PanelInv(statsOverlay')
  BY <1>1, StatsPanelMoves DEF IInv, TypeOK, ScreensInv
<1>4. ScreensInv' /\ (PlayersPanel!TypeOK /\ Check!TypeOK)'
  BY <1>2, <1>3
  DEF IInv, TypeOK, ScreensInv, MarkInv, PlayersPanel!TypeOK, Check!TypeOK
<1>5. form' \in Names \cup {NoName}
  BY <1>2 DEF IInv, TypeOK
<1> QED BY <1>1, <1>2, <1>3, <1>4, <1>5, ScreensMoveIInv

LEMMA PlayersPanelIInv ==
  ASSUME IInv, addPlayerButtonTapped \/ tappedOnPlayersBackground \/ PlayersFadeEnds
  PROVE  IInv'
<1>1. /\ process = "running"
      /\ UNCHANGED <<process, store, queue, statsScreen, list, form, playersAlert>>
      /\ \/ PlayersPanel!Show \/ PlayersPanel!Hide
         \/ PlayersPanel!FadeInEnds \/ PlayersPanel!FadeOutEnds
  BY DEF addPlayerButtonTapped, tappedOnPlayersBackground, PlayersFadeEnds,
         PlayersInFront, PlayersPanel!AddTapped, PlayersPanel!BackgroundTapped
<1>2. UNCHANGED <<player, labels, presented, edit, statsOverlay, mark>>
  BY <1>1 DEF statsScreen
<1>3. PlayersPanel!TypeOK' /\ PanelInv(playersOverlay')
  BY <1>1, PlayersPanelMoves DEF IInv, TypeOK, ScreensInv
<1>4. ScreensInv' /\ (StatsPanel!TypeOK /\ Check!TypeOK)'
  BY <1>2, <1>3
  DEF IInv, TypeOK, ScreensInv, MarkInv, StatsPanel!TypeOK, Check!TypeOK
<1>5. form' \in Names \cup {NoName}
  BY <1>1 DEF IInv, TypeOK
<1> QED BY <1>1, <1>2, <1>3, <1>4, <1>5, ScreensMoveIInv

LEMMA CheckmarkIInv ==
  ASSUME IInv, CheckmarkMoves
  PROVE  IInv'
<1>1. /\ process = "running"
      /\ UNCHANGED << process, store, queue, player, labels, presented, edit,
                      statsOverlay, list, form, playersAlert, playersOverlay >>
      /\ Check!TimerFires \/ Check!FadeEnds
  BY DEF CheckmarkMoves, playersScreen
<1>2. Check!TypeOK' /\ MarkInv'
  BY <1>1, MarkMoves DEF IInv, TypeOK, ScreensInv
<1>3. ScreensInv' /\ (StatsPanel!TypeOK /\ PlayersPanel!TypeOK)'
  BY <1>1, <1>2 DEF IInv, TypeOK, ScreensInv, StatsPanel!TypeOK, PlayersPanel!TypeOK
<1>4. form' \in Names \cup {NoName}
  BY <1>1 DEF IInv, TypeOK
<1> QED BY <1>1, <1>2, <1>3, <1>4, ScreensMoveIInv

LEMMA TextFieldIInv ==
  ASSUME IInv, NEW n \in Names \cup {NoName}, textFieldEditingChanged(n)
  PROVE  IInv'
<1>1. /\ process = "running" /\ form' = n
      /\ UNCHANGED << process, store, queue, player, labels, presented, edit,
                      statsOverlay, mark, list, playersAlert, playersOverlay >>
  BY DEF textFieldEditingChanged, PlayersInFront, statsScreen
<1>2. ScreensInv' /\ (StatsPanel!TypeOK /\ PlayersPanel!TypeOK /\ Check!TypeOK)'
  BY <1>1
  DEF IInv, TypeOK, ScreensInv, MarkInv, StatsPanel!TypeOK, PlayersPanel!TypeOK, Check!TypeOK
<1> QED BY <1>1, <1>2, ScreensMoveIInv

LEMMA EditAlertIInv ==
  ASSUME IInv,
         \/ \E r \in Races, k \in Results : showEditAlert(r, k)
         \/ closeEditAlert
  PROVE  IInv'
<1>1. /\ process = "running" /\ presented \in {"none", "edit"}
      /\ UNCHANGED << process, disk, view, stage, failed, queue, player, labels,
                      statsOverlay, mark, list, form, playersAlert, playersOverlay >>
  BY DEF showEditAlert, closeEditAlert, StatsInFront, store, playersScreen
<1>2. /\ presented' \in {"none", "edit"}
      /\ edit' \in [name : Names, race : Races, result : Results] \cup {NoEdit}
      /\ EditInv'
  <2>1. CASE closeEditAlert
    BY <2>1 DEF closeEditAlert, EditInv
  <2>2. ASSUME NEW r \in Races, NEW k \in Results, showEditAlert(r, k)
        PROVE  /\ presented' \in {"none", "edit"}
               /\ edit' \in [name : Names, race : Races, result : Results]
               /\ EditInv'
    <3>1. player # NoPlayer /\ presented' = "edit"
          /\ edit' = [name |-> player.name, race |-> r, result |-> k]
      BY <2>2 DEF showEditAlert
    <3>2. player.name \in Names
      BY <3>1 DEF IInv, TypeOK, Player
    <3> QED BY <1>1, <3>1, <3>2 DEF EditInv
  <2> QED BY <2>1, <2>2
<1>3. TypeOK'
  BY <1>1, <1>2
  DEF IInv, TypeOK, StatsPanel!TypeOK, PlayersPanel!TypeOK, Check!TypeOK
<1>4. (StoreInv /\ EndedInv /\ ScreensInv)'
  BY <1>1 DEF IInv, StoreInv, EndedInv, ScreensInv, MarkInv
<1>5. (PlayerInv /\ QueueInv /\ ListInv)'
  BY <1>1, <1>2 DEF IInv, PlayerInv, QueueInv, ListInv
<1> QED BY <1>2, <1>3, <1>4, <1>5 DEF IInv

-----------------------------------------------------------------------------
(* The main queue. *)

(* A block goes to the end of the main queue. *)
LEMMA PostponeIInv ==
  ASSUME IInv, process = "running", NEW block \in Blocks, Postpone(block),
         block.kind = "select" => presented \in {"players", "leaving"},
         UNCHANGED <<process, store, statsScreen, playersScreen>>
  PROVE  IInv'
<1>1. UNCHANGED << process, disk, view, stage, failed, player, labels, presented, edit,
                   statsOverlay, mark, list, form, playersAlert, playersOverlay >>
  BY DEF store, statsScreen, playersScreen
<1>2. /\ queue \in Seq(Blocks) /\ Len(queue) < MaxQueue /\ MaxQueue \in Nat
      /\ queue' = Append(queue, block)
  BY Bounds DEF Postpone, IInv, TypeOK
<1>3. /\ queue' \in Seq(Blocks) /\ Len(queue') <= MaxQueue
      /\ \A i \in DOMAIN queue' : \/ i \in DOMAIN queue /\ queue'[i] = queue[i]
                                  \/ queue'[i] = block
  BY <1>2
<1>4. QueueInv'
  BY <1>1, <1>3 DEF IInv, QueueInv
<1>5. TypeOK'
  BY <1>1, <1>3
  DEF IInv, TypeOK, StatsPanel!TypeOK, PlayersPanel!TypeOK, Check!TypeOK
<1>6. (StoreInv /\ EndedInv /\ ScreensInv)'
  BY <1>1 DEF IInv, StoreInv, EndedInv, ScreensInv, MarkInv
<1>7. (PlayerInv /\ EditInv /\ ListInv)'
  BY <1>1 DEF IInv, PlayerInv, EditInv, ListInv
<1> QED BY <1>4, <1>5, <1>6, <1>7 DEF IInv

LEMMA PostponesIInv ==
  ASSUME IInv,
         presentPlayersViewController \/ \E i \in DOMAIN list : didSelectRow(i)
  PROVE  IInv'
<1>1. CASE presentPlayersViewController
  <2>1. [kind |-> "present", row |-> 0] \in Blocks
    BY DEF Blocks
  <2> QED BY <1>1, <2>1, PostponeIInv DEF presentPlayersViewController, StatsInFront
<1>2. ASSUME NEW i \in DOMAIN list, didSelectRow(i) PROVE IInv'
  <2>1. i \in Nat \ {0}
    <3>1. list \in Seq(Names)
      BY DEF IInv, TypeOK
    <3>2. DOMAIN list = 1 .. Len(list) /\ Len(list) \in Nat
      BY <3>1
    <3> QED BY <3>2
  <2>2. [kind |-> "select", row |-> i] \in Blocks
    BY <2>1 DEF Blocks
  <2> QED BY <1>2, <2>2, PostponeIInv DEF didSelectRow, PlayersInFront
<1> QED BY <1>1, <1>2

(* The rest of the main queue, when its first block runs. *)
LEMMA QueueTail ==
  ASSUME IInv, queue # << >>, queue' = Tail(queue)
  PROVE  /\ queue' \in Seq(Blocks) /\ Len(queue') <= MaxQueue
         /\ Block \in Blocks
         /\ Block.kind = "select" => presented \in {"players", "leaving"}
         /\ \A i \in DOMAIN queue' :
              queue'[i].kind = "select" => presented \in {"players", "leaving"}
<1>1. queue \in Seq(Blocks) /\ Len(queue) <= MaxQueue /\ MaxQueue \in Nat
  BY Bounds DEF IInv, TypeOK
<1>2. /\ queue' \in Seq(Blocks) /\ Len(queue') <= MaxQueue
      /\ \A i \in DOMAIN queue' : i + 1 \in DOMAIN queue /\ queue'[i] = queue[i + 1]
  BY <1>1
<1>3. Block \in Blocks /\ 1 \in DOMAIN queue /\ Block = queue[1]
  BY <1>1 DEF Block
<1> QED BY <1>2, <1>3 DEF IInv, QueueInv

LEMMA PresentIgnoredIInv ==
  ASSUME IInv, PresentIgnored
  PROVE  IInv'
<1>1. /\ process = "running" /\ queue # << >> /\ queue' = Tail(queue)
      /\ UNCHANGED << process, disk, view, stage, failed, player, labels, presented, edit,
                      statsOverlay, mark, list, form, playersAlert, playersOverlay >>
  BY DEF PresentIgnored, RunsBlock, store, statsScreen, playersScreen
<1>2. queue' \in Seq(Blocks) /\ Len(queue') <= MaxQueue /\ QueueInv'
  BY <1>1, QueueTail DEF QueueInv
<1>3. TypeOK'
  BY <1>1, <1>2
  DEF IInv, TypeOK, StatsPanel!TypeOK, PlayersPanel!TypeOK, Check!TypeOK
<1>4. (StoreInv /\ EndedInv /\ ScreensInv)'
  BY <1>1 DEF IInv, StoreInv, EndedInv, ScreensInv, MarkInv
<1>5. (PlayerInv /\ EditInv /\ ListInv)'
  BY <1>1 DEF IInv, PlayerInv, EditInv, ListInv
<1> QED BY <1>2, <1>3, <1>4, <1>5 DEF IInv

(* A players screen that comes up lists what is stored. *)
LEMMA PresentPlayersIInv ==
  ASSUME IInv, PresentPlayers
  PROVE  IInv'
<1>1. /\ process = "running" /\ queue # << >> /\ queue' = Tail(queue)
      /\ presented = "none" /\ presented' = "players"
      /\ list' = [i \in DOMAIN view |-> view[i].name]
      /\ playersOverlay' =
           IF view = << >> THEN PlayersPanel!Shown ELSE PlayersPanel!Closed
      /\ UNCHANGED << process, disk, view, stage, failed, player, labels, edit,
                      statsOverlay, mark, form, playersAlert >>
  BY DEF PresentPlayers, RunsBlock, store
<1>2. queue' \in Seq(Blocks) /\ Len(queue') <= MaxQueue /\ QueueInv'
  BY <1>1, QueueTail DEF QueueInv
<1>3. list' \in Seq(Names) /\ Lists(list', view)
  <2>1. view \in Seq(Player) /\ NamesUnique(view)
    BY DEF IInv, TypeOK, StoreInv
  <2> QED BY <1>1, <2>1, NamesAreListed
<1>4. PlayersPanel!TypeOK' /\ PanelInv(playersOverlay')
  <2>1. CASE view = << >>
    <3>1. PlayersPanel!Show
      BY <1>1, <2>1 DEF PlayersPanel!Show
    <3> QED BY <3>1, PlayersPanelMoves DEF IInv, TypeOK, ScreensInv
  <2>2. CASE view # << >>
    BY <1>1, <2>2, ScreensBegin DEF PlayersPanel!TypeOK
  <2> QED BY <2>1, <2>2
<1>5. TypeOK'
  BY <1>1, <1>2, <1>3, <1>4
  DEF IInv, TypeOK, StatsPanel!TypeOK, Check!TypeOK
<1>6. (StoreInv /\ EndedInv /\ ScreensInv)'
  BY <1>1, <1>4 DEF IInv, StoreInv, EndedInv, ScreensInv, MarkInv
<1>7. (PlayerInv /\ EditInv /\ ListInv)'
  BY <1>1, <1>3 DEF PlayerInv, EditInv, ListInv
<1> QED BY <1>2, <1>5, <1>6, <1>7 DEF IInv

(* A selection shows the stored player, or nobody; the screen leaves only  *)
(* with one of the two.                                                    *)
LEMMA RunSelectIInv ==
  ASSUME IInv, RunSelect
  PROVE  IInv'
<1> DEFINE n == list[Block.row]
<1>1. /\ process = "running" /\ queue # << >> /\ queue' = Tail(queue)
      /\ Block.kind = "select" /\ Block.row \in DOMAIN list
      /\ UNCHANGED << process, disk, view, stage, failed, edit, statsOverlay, mark,
                      list, form, playersOverlay >>
  BY DEF RunSelect, RunsBlock, store
<1>2. /\ presented \in {"players", "leaving"}
      /\ queue' \in Seq(Blocks) /\ Len(queue') <= MaxQueue
  BY <1>1, QueueTail
<1>3. /\ presented' \in {"players", "leaving"}
      /\ playersAlert' \in {"none", "save", "delete"}
  BY <1>2 DEF RunSelect, Dismiss, IInv, TypeOK
<1>4. /\ player' \in Player \cup {NoPlayer} /\ labels' \in Player \cup {NoPlayer}
      /\ player' # NoPlayer =>
           /\ player'.name \in NamesOf(view)
           /\ At(view, player'.name) = player'
           /\ labels' = player'
  <2>1. CASE n \in NamesOf(view)
    <3>1. player' = Stored(n) /\ labels' = Stored(n)
      BY <2>1 DEF RunSelect
    <3>2. RowOf(view, n) \in DOMAIN view /\ view[RowOf(view, n)].name = n
      BY <2>1, RowOfFinds
    <3>3. view \in Seq(Player)
      BY DEF IInv, TypeOK
    <3>4. Stored(n) \in Player /\ Stored(n).name = n
      BY <3>2, <3>3 DEF Stored
    <3> QED BY <2>1, <3>1, <3>4 DEF At, Stored
  <2>2. CASE n \notin NamesOf(view)
    <3>1. player' = NoPlayer /\ labels' = labels
      BY <2>2 DEF RunSelect
    <3> QED BY <3>1 DEF IInv, TypeOK
  <2> QED BY <2>1, <2>2
<1>5. TypeOK'
  BY <1>1, <1>2, <1>3, <1>4
  DEF IInv, TypeOK, StatsPanel!TypeOK, PlayersPanel!TypeOK, Check!TypeOK
<1>6. (StoreInv /\ EndedInv /\ ScreensInv)'
  BY <1>1 DEF IInv, StoreInv, EndedInv, ScreensInv, MarkInv
<1>7. (PlayerInv /\ QueueInv /\ EditInv /\ ListInv)'
  BY <1>1, <1>2, <1>3, <1>4 DEF IInv, PlayerInv, QueueInv, EditInv, ListInv
<1> QED BY <1>5, <1>6, <1>7 DEF IInv

LEMMA PlayersGoneIInv ==
  ASSUME IInv, PlayersGone
  PROVE  IInv'
<1>1. /\ process = "running" /\ queue = << >>
      /\ presented = "leaving" /\ presented' = "none"
      /\ list' = << >> /\ form' = NoName /\ playersAlert' = "none"
      /\ playersOverlay' = PlayersPanel!Closed
      /\ UNCHANGED << process, disk, view, stage, failed, queue, player, labels, edit,
                      statsOverlay, mark >>
  BY DEF PlayersGone, NewPlayersScreen, store
<1>2. << >> \in Seq(Names)
  OBVIOUS
<1>3. PlayersPanel!TypeOK' /\ PanelInv(playersOverlay')
  BY <1>1, ScreensBegin DEF PlayersPanel!TypeOK
<1>4. TypeOK'
  BY <1>1, <1>2, <1>3 DEF IInv, TypeOK, StatsPanel!TypeOK, Check!TypeOK
<1>5. (StoreInv /\ EndedInv /\ ScreensInv)'
  BY <1>1, <1>3 DEF IInv, StoreInv, EndedInv, ScreensInv, MarkInv
<1>6. (PlayerInv /\ QueueInv /\ EditInv /\ ListInv)'
  BY <1>1 DEF IInv, PlayerInv, QueueInv, EditInv, ListInv
<1> QED BY <1>4, <1>5, <1>6 DEF IInv

-----------------------------------------------------------------------------
(* Numbers. *)

(* Writing one number leaves the name, the race and the others.            *)
LEMMA WithResultSets ==
  ASSUME player \in Player,
         NEW r \in Races, NEW k \in Results, NEW v \in 0 .. MaxInt
  PROVE  /\ WithResult(r, k, v) \in Player
         /\ WithResult(r, k, v).name = player.name
         /\ WithResult(r, k, v).race = player.race
         /\ \A r2 \in Races, k2 \in Results :
              WithResult(r, k, v).stats[r2][k2] =
                IF r2 = r /\ k2 = k THEN v ELSE player.stats[r2][k2]
<1> DEFINE s == player.stats
           s2 == [s EXCEPT ![r][k] = v]
           p == WithResult(r, k, v)
<1>1. player.name \in Names /\ player.race \in Races
      /\ s \in [Races -> [Results -> 0 .. MaxInt]]
  BY DEF Player, Stats
<1>2. /\ s2 \in [Races -> [Results -> 0 .. MaxInt]]
      /\ \A r2 \in Races, k2 \in Results :
           s2[r2][k2] = IF r2 = r /\ k2 = k THEN v ELSE s[r2][k2]
  BY <1>1
<1>3. p = [name |-> player.name, race |-> player.race, stats |-> s2]
  BY DEF WithResult, Player
<1> HIDE DEF s2, p
<1> QED BY <1>1, <1>2, <1>3 DEF Player, Stats, p

(* The player that is shown can be changed: he is stored, or a commit has  *)
(* failed, and then nothing is written.                                    *)
Changing(r, k, v) ==
  /\ process = "running" /\ presented \in {"none", "edit"} /\ player # NoPlayer
  /\ r \in Races /\ k \in Results /\ v \in 0 .. MaxInt

LEMMA UpdateAndShowIInv ==
  ASSUME IInv, NEW r, NEW k, NEW v, Changing(r, k, v),
         UpdateAndShow(WithResult(r, k, v)),
         StatsPanel!TypeOK', Check!TypeOK', PanelInv(statsOverlay'), MarkInv'
  PROVE  IInv'
<1> DEFINE p == WithResult(r, k, v)
           rows == PutRow(view, p)
<1>1. player \in Player /\ view \in Seq(Player) /\ NamesUnique(view)
  BY DEF Changing, IInv, TypeOK, StoreInv
<1>2. p \in Player
  BY <1>1, WithResultSets DEF Changing
<1> HIDE DEF p
<1>3. Written(view, p, rows)
  BY <1>1, <1>2, PutRowWrites
<1> HIDE DEF rows
<1>4. /\ process = "running" /\ stage = "reading" /\ view' = rows
      /\ player' = p /\ labels' = p /\ edit' = NoEdit
      /\ \/ /\ disk' = rows /\ presented' = "none"
            /\ UNCHANGED <<stage, failed>>
         \/ /\ disk' = disk /\ presented' = "alert"
            /\ stage' = "writing" /\ failed' = TRUE
      /\ UNCHANGED <<process, queue, list, form, playersAlert, playersOverlay>>
  BY DEF UpdateAndShow, Committed, CommitFails, Changing, playersScreen, p, rows
<1>5. /\ rows \in Seq(Player) /\ NamesUnique(rows)
      /\ p.name \in NamesOf(rows) /\ At(rows, p.name) = p
  BY <1>3 DEF Written
<1>6. TypeOK'
  BY <1>2, <1>4, <1>5 DEF IInv, TypeOK, PlayersPanel!TypeOK
<1>7. (StoreInv /\ EndedInv /\ ScreensInv)'
  BY <1>4, <1>5 DEF IInv, StoreInv, EndedInv, ScreensInv
<1>8. PlayerInv'
  BY <1>4, <1>5 DEF PlayerInv
<1>9. (QueueInv /\ EditInv /\ ListInv)'
  BY <1>4 DEF IInv, QueueInv, EditInv, ListInv, Changing
<1> QED BY <1>6, <1>7, <1>8, <1>9 DEF IInv

LEMMA UpdateEndsIInv ==
  ASSUME IInv, NEW r, NEW k, NEW v, Changing(r, k, v),
         UpdateEnds(WithResult(r, k, v))
  PROVE  IInv'
<1> DEFINE p == WithResult(r, k, v)
<1>1. player \in Player /\ view \in Seq(Player) /\ NamesUnique(view)
  BY DEF Changing, IInv, TypeOK, StoreInv
<1>2. PutRow(view, p) \in Seq(Player) /\ NamesUnique(PutRow(view, p))
  BY <1>1, WithResultSets, PutRowWrites DEF Changing, Written
<1>3. \/ End("open transaction", disk)
      \/ End("overflow", PutRow(view, p))
      \/ End("overflow", disk)
  BY DEF UpdateEnds
<1>4. {"open transaction", "overflow"} \subseteq Reasons
  BY DEF Reasons
<1> QED BY <1>2, <1>3, <1>4, EndIInv, DiskEndIInv

(* The numbers that are written. *)
LEMMA AddChanges ==
  ASSUME IInv, NEW r \in Races, NEW k \in Results,
         CanAddResult, player.stats[r][k] < MaxInt
  PROVE  Changing(r, k, player.stats[r][k] + 1)
<1>1. player \in Player
  BY DEF CanAddResult, IInv, TypeOK
<1>2. player.stats[r][k] \in 0 .. MaxInt
  BY <1>1 DEF Player, Stats
<1>3. player.stats[r][k] + 1 \in 0 .. MaxInt
  BY <1>2, IntAssumption
<1> QED BY <1>3 DEF CanAddResult, StatsInFront, Changing

LEMMA EditChanges ==
  ASSUME IInv, NEW v \in 0 .. MaxInt, process = "running", presented = "edit"
  PROVE  Changing(edit.race, edit.result, v)
  BY DEF IInv, EditInv, Changing

LEMMA AddResultIInv ==
  ASSUME IInv, NEW r \in Races, NEW k \in Results,
         addNewMatchResult(r, k) \/ addNewMatchResultEnds(r, k)
  PROVE  IInv'
<1>1. CASE addNewMatchResult(r, k)
  <2>1. /\ Changing(r, k, player.stats[r][k] + 1)
        /\ UpdateAndShow(WithResult(r, k, player.stats[r][k] + 1))
        /\ StatsPanel!Hide /\ Check!Show
    BY <1>1, AddChanges DEF addNewMatchResult
  <2>2. StatsPanel!TypeOK' /\ PanelInv(statsOverlay')
    BY <2>1, StatsPanelMoves DEF IInv, TypeOK, ScreensInv
  <2>3. Check!TypeOK' /\ MarkInv'
    BY <2>1, MarkMoves DEF IInv, TypeOK, ScreensInv
  <2> QED BY <2>1, <2>2, <2>3, UpdateAndShowIInv
<1>2. CASE addNewMatchResultEnds(r, k)
  <2>1. CASE End("overflow", disk)
    BY <2>1, DiskEndIInv DEF Reasons
  <2>2. CASE /\ CanAddResult /\ player.stats[r][k] < MaxInt
             /\ UpdateEnds(WithResult(r, k, player.stats[r][k] + 1))
    BY <2>2, AddChanges, UpdateEndsIInv
  <2> QED BY <1>2, <2>1, <2>2 DEF addNewMatchResultEnds
<1> QED BY <1>1, <1>2

LEMMA SaveValueIInv ==
  ASSUME IInv, NEW v \in 0 .. MaxInt, saveNewValue(v) \/ saveNewValueEnds(v)
  PROVE  IInv'
<1>1. Changing(edit.race, edit.result, v)
  BY EditChanges DEF saveNewValue, saveNewValueEnds
<1>2. CASE saveNewValue(v)
  <2>1. UpdateAndShow(WithResult(edit.race, edit.result, v))
        /\ UNCHANGED <<statsOverlay, mark>>
    BY <1>2 DEF saveNewValue
  <2>2. (StatsPanel!TypeOK /\ Check!TypeOK)' /\ PanelInv(statsOverlay') /\ MarkInv'
    BY <2>1 DEF IInv, TypeOK, ScreensInv, MarkInv, StatsPanel!TypeOK, Check!TypeOK
  <2> QED BY <1>1, <2>1, <2>2, UpdateAndShowIInv
<1>3. CASE saveNewValueEnds(v)
  BY <1>1, <1>3, UpdateEndsIInv DEF saveNewValueEnds
<1> QED BY <1>2, <1>3

-----------------------------------------------------------------------------
(* The players screen writes. *)

(* A step of the players screen that has written rows and brought the list *)
(* up to date with them: committed, or left in a transaction.              *)
LEMMA ListedIInv ==
  ASSUME IInv, PlayersInFront, NEW rows \in Seq(Player), NamesUnique(rows),
         Committed(rows) \/ CommitFails(rows),
         list' \in Seq(Names), Lists(list', rows),
         playersAlert' \in {"none", "save", "delete"},
         PlayersPanel!TypeOK', PanelInv(playersOverlay'),
         UNCHANGED <<process, queue, statsScreen, form>>
  PROVE  IInv'
<1>1. /\ process = "running" /\ presented = "players"
      /\ UNCHANGED << process, queue, player, labels, presented, edit,
                      statsOverlay, mark, form >>
  BY DEF PlayersInFront, statsScreen
<1>2. /\ stage = "reading" /\ view' = rows
      /\ \/ disk' = rows /\ UNCHANGED <<stage, failed>>
         \/ disk' = disk /\ stage' = "writing" /\ failed' = TRUE
  BY DEF Committed, CommitFails
<1>3. TypeOK'
  <2>1. (StatsPanel!TypeOK /\ Check!TypeOK)'
    BY <1>1 DEF IInv, TypeOK, StatsPanel!TypeOK, Check!TypeOK
  <2>2. /\ disk' \in Seq(Player) /\ view' \in Seq(Player)
        /\ stage' \in {"reading", "writing"} /\ failed' \in BOOLEAN
    BY <1>2 DEF IInv, TypeOK
  <2> QED BY <1>1, <2>1, <2>2 DEF IInv, TypeOK
<1>4. (StoreInv /\ EndedInv /\ ScreensInv)'
  BY <1>1, <1>2 DEF IInv, StoreInv, EndedInv, ScreensInv, MarkInv
<1>5. (PlayerInv /\ QueueInv /\ EditInv /\ ListInv)'
  BY <1>1, <1>2 DEF IInv, PlayerInv, QueueInv, EditInv, ListInv
<1> QED BY <1>3, <1>4, <1>5 DEF IInv

(* The row that is deleted on the screen is stored: deleteRow finds it.    *)
LEMMA ListedIsStored ==
  ASSUME IInv, PlayersInFront, NEW i \in DOMAIN list
  PROVE  /\ list \in Seq(Names) /\ Lists(list, view)
         /\ list[i] \in NamesOf(view)
         /\ view \in Seq(Player) /\ NamesUnique(view)
<1>1. list \in Seq(Names) /\ view \in Seq(Player) /\ NamesUnique(view)
  BY DEF IInv, TypeOK, StoreInv
<1>2. Lists(list, view)
  BY DEF IInv, ListInv, PlayersInFront
<1>3. list[i] \in NamesOf(view)
  BY <1>2 DEF Lists
<1> QED BY <1>1, <1>2, <1>3

LEMMA DeleteRowIInv ==
  ASSUME IInv, NEW i \in DOMAIN list, deleteRow(i) \/ deleteRowEnds(i)
  PROVE  IInv'
<1>1. CASE deleteRowEnds(i)
  <2>1. End("open transaction", disk) /\ "open transaction" \in Reasons
    BY <1>1 DEF deleteRowEnds, Reasons
  <2> QED BY <2>1, DiskEndIInv
<1>2. CASE deleteRow(i)
  <2> DEFINE rows == DropRow(view, list[i])
  <2>1. /\ PlayersInFront
        /\ list' = SubSeq(list, 1, i - 1) \o SubSeq(list, i + 1, Len(list))
        /\ UNCHANGED <<process, queue, statsScreen, form, playersOverlay>>
    BY <1>2 DEF deleteRow
  <2>2. /\ list \in Seq(Names) /\ Lists(list, view)
        /\ list[i] \in NamesOf(view)
        /\ view \in Seq(Player) /\ NamesUnique(view)
    BY <2>1, ListedIsStored
  <2>3. /\ Committed(rows) \/ CommitFails(rows)
        /\ playersAlert' \in {"none", "save", "delete"}
    BY <1>2, <2>2 DEF deleteRow, IInv, TypeOK
  <2>4. Dropped(view, list[i], rows)
    BY <2>2, DropRowDrops
  <2> HIDE DEF rows
  <2>5. list' \in Seq(Names) /\ Lists(list', rows)
    BY <2>1, <2>2, <2>4, RemovalIsListed
  <2>6. PlayersPanel!TypeOK' /\ PanelInv(playersOverlay')
    BY <2>1 DEF IInv, TypeOK, ScreensInv, PlayersPanel!TypeOK
  <2>7. rows \in Seq(Player) /\ NamesUnique(rows)
    BY <2>4 DEF Dropped
  <2> QED BY <2>1, <2>3, <2>5, <2>6, <2>7, ListedIInv
<1> QED BY <1>1, <1>2

(* A player of the form. *)
NewPlayer(r) == [name |-> form, race |-> r, stats |-> NoMatches]

LEMMA NewPlayerIsPlayer ==
  ASSUME IInv, CanSavePlayer, NEW r \in Races
  PROVE  NewPlayer(r) \in Player /\ NewPlayer(r).name = form
<1>1. form \in Names
  BY DEF CanSavePlayer, IInv, TypeOK
<1>2. NoMatches \in Stats
  <2>1. 0 \in 0 .. MaxInt
    BY IntAssumption
  <2> QED BY <2>1 DEF NoMatches, Stats
<1> QED BY <1>1, <1>2 DEF NewPlayer, Player

LEMMA AddPlayerIInv ==
  ASSUME IInv,
         \/ \E r \in Races : addNewPlayer(r)
         \/ addNewPlayerEnds
  PROVE  IInv'
<1>1. CASE addNewPlayerEnds
  <2>1. /\ End("open transaction", disk) \/ End("duplicate name", disk)
        /\ {"open transaction", "duplicate name"} \subseteq Reasons
    BY <1>1 DEF addNewPlayerEnds, Reasons
  <2> QED BY <2>1, DiskEndIInv
<1>2. ASSUME NEW r \in Races, addNewPlayer(r) PROVE IInv'
  <2> DEFINE p == NewPlayer(r)
             rows == PutRow(view, p)
  <2>1. /\ CanSavePlayer /\ PlayersInFront
        /\ form \notin NamesOf(view)
        /\ Committed(rows) \/ CommitFails(rows)
        /\ playersAlert' \in {"none", "save", "delete"}
        /\ list' = Append(list, form)
        /\ PlayersPanel!Hide
        /\ UNCHANGED <<process, queue, statsScreen, form>>
    BY <1>2 DEF addNewPlayer, CanSavePlayer, NewPlayer, IInv, TypeOK
  <2>2. p \in Player /\ p.name = form
    BY <2>1, NewPlayerIsPlayer
  <2> HIDE DEF p
  <2>3. /\ view \in Seq(Player) /\ NamesUnique(view)
        /\ list \in Seq(Names) /\ Lists(list, view)
    BY <2>1 DEF IInv, TypeOK, StoreInv, ListInv, PlayersInFront
  <2>4. Written(view, p, rows)
    BY <2>2, <2>3, PutRowWrites
  <2> HIDE DEF rows
  <2>5. list' \in Seq(Names) /\ Lists(list', rows)
    BY <2>1, <2>2, <2>3, <2>4, AppendIsListed
  <2>6. PlayersPanel!TypeOK' /\ PanelInv(playersOverlay')
    BY <2>1, PlayersPanelMoves DEF IInv, TypeOK, ScreensInv
  <2>7. rows \in Seq(Player) /\ NamesUnique(rows)
    BY <2>4 DEF Written
  <2> QED BY <2>1, <2>5, <2>6, <2>7, ListedIInv
<1> QED BY <1>1, <1>2

LEMMA RunSelectEndsIInv ==
  ASSUME IInv, RunSelectEnds
  PROVE  IInv'
<1>1. /\ End("row out of range", disk) \/ End("overflow", disk)
      /\ {"row out of range", "overflow"} \subseteq Reasons
  BY DEF RunSelectEnds, Reasons
<1> QED BY <1>1, DiskEndIInv

-----------------------------------------------------------------------------
(* Every step keeps the invariant, one action at a time. *)
LEMMA NextIInv == IInv /\ [Next]_vars => IInv'
<1> SUFFICES ASSUME IInv, [Next]_vars PROVE IInv'
  OBVIOUS
<1>1. CASE Kill
  <2>1. End("killed", disk) /\ "killed" \in Reasons
    BY <1>1 DEF Kill, Reasons
  <2> QED BY <2>1, DiskEndIInv
<1>2. CASE Launch
  BY <1>2, LaunchIInv
<1>3. CASE presentPlayersViewController
  BY <1>3, PostponesIInv
<1>4. CASE addMatchButtonTapped \/ tappedOnStatsBackground \/ StatsFadeEnds
  BY <1>4, StatsPanelIInv
<1>5. ASSUME NEW r \in Races, NEW k \in Results,
             addNewMatchResult(r, k) \/ addNewMatchResultEnds(r, k)
      PROVE  IInv'
  BY <1>5, AddResultIInv
<1>6. ASSUME NEW r \in Races, NEW k \in Results, showEditAlert(r, k)
      PROVE  IInv'
  BY <1>6, EditAlertIInv
<1>7. CASE closeEditAlert
  BY <1>7, EditAlertIInv
<1>8. ASSUME NEW v \in 0 .. MaxInt, saveNewValue(v) \/ saveNewValueEnds(v)
      PROVE  IInv'
  BY <1>8, SaveValueIInv
<1>9. ASSUME NEW i \in DOMAIN list, didSelectRow(i) PROVE IInv'
  BY <1>9, PostponesIInv
<1>10. ASSUME NEW i \in DOMAIN list, deleteRow(i) \/ deleteRowEnds(i) PROVE IInv'
  BY <1>10, DeleteRowIInv
<1>11. CASE addPlayerButtonTapped \/ tappedOnPlayersBackground \/ PlayersFadeEnds
  BY <1>11, PlayersPanelIInv
<1>12. ASSUME NEW n \in Names \cup {NoName}, textFieldEditingChanged(n) PROVE IInv'
  BY <1>12, TextFieldIInv
<1>13. ASSUME NEW r \in Races, addNewPlayer(r) PROVE IInv'
  BY <1>13, AddPlayerIInv
<1>14. CASE addNewPlayerEnds
  BY <1>14, AddPlayerIInv
<1>15. CASE RunBlock
  BY <1>15, PresentPlayersIInv, PresentIgnoredIInv, RunSelectIInv, RunSelectEndsIInv
  DEF RunBlock
<1>16. CASE PlayersGone
  BY <1>16, PlayersGoneIInv
<1>17. CASE CheckmarkMoves
  BY <1>17, CheckmarkIInv
<1>18. CASE UNCHANGED vars
  <2>1. UNCHANGED << process, store, queue, player, labels, presented, edit, statsOverlay,
                     mark, list, form, playersAlert, playersOverlay >>
    BY <1>18 DEF vars, statsScreen, playersScreen
  <2>2. ScreensInv' /\ (StatsPanel!TypeOK /\ PlayersPanel!TypeOK /\ Check!TypeOK)'
    BY <2>1
    DEF IInv, TypeOK, ScreensInv, MarkInv, StatsPanel!TypeOK, PlayersPanel!TypeOK, Check!TypeOK
  <2>3. form' \in Names \cup {NoName}
    BY <2>1 DEF IInv, TypeOK
  <2> QED BY <2>1, <2>2, <2>3, ScreensMoveIInv
<1> QED
  BY <1>1, <1>2, <1>3, <1>4, <1>5, <1>6, <1>7, <1>8, <1>9, <1>10, <1>11, <1>12,
     <1>13, <1>14, <1>15, <1>16, <1>17, <1>18 DEF Next

(* The invariant of the app. *)
THEOREM Invariance == Spec => []IInv
<1>1. Init => IInv
  BY InitIInv
<1>2. IInv /\ [Next]_vars => IInv'
  BY NextIInv
<1> QED BY <1>1, <1>2, PTL DEF Spec

(* Type correctness. *)
THEOREM TypeCorrect == Spec => []TypeOK
<1>1. IInv => TypeOK
  BY DEF IInv
<1> QED BY Invariance, <1>1, PTL

(* The stats screen in front shows the stored player, and everything it    *)
(* acknowledged is on disk, as long as no commit has failed.               *)
THEOREM ShownIsStoredHolds == Spec => []ShownIsStored
<1>1. IInv => ShownIsStored
  <2> SUFFICES ASSUME IInv, process = "running", ~failed
               PROVE  /\ view = disk
                      /\ presented \in {"none", "edit"} /\ player # NoPlayer =>
                           /\ player.name \in NamesOf(disk)
                           /\ disk[RowOf(disk, player.name)] = player
                           /\ labels = player
    BY DEF ShownIsStored
  <2>1. stage = "reading" /\ view = disk
    BY DEF IInv, TypeOK, StoreInv
  <2> QED BY <2>1 DEF IInv, PlayerInv, At
<1> QED BY Invariance, <1>1, PTL

(* The players screen lists the players there are, each once.              *)
THEOREM ListIsStoredHolds == Spec => []ListIsStored
<1>1. IInv => ListIsStored
  BY DEF IInv, ListInv, Lists, ListIsStored
<1> QED BY Invariance, <1>1, PTL

(* The way to the panel for adding a player is never blocked.              *)
THEOREM CanAlwaysAddPlayerHolds == Spec => []CanAlwaysAddPlayer
<1>1. IInv => CanAlwaysAddPlayer
  BY DEF IInv, ScreensInv, PanelInv, CanAlwaysAddPlayer, PlayersPanel!Reachable
<1> QED BY Invariance, <1>1, PTL

(* Once animations and timers have ended nothing is left covered or half   *)
(* faded, however their calls overlapped.                                  *)
THEOREM AnimationsSettleHolds == Spec => []AnimationsSettle
<1>1. IInv => AnimationsSettle
  <2> SUFFICES ASSUME IInv PROVE AnimationsSettle
    OBVIOUS
  <2>1. /\ ~statsOverlay.panel /\ statsOverlay.fades = 0
             => statsOverlay.hidden /\ ~statsOverlay.dimmed
        /\ ~playersOverlay.panel /\ playersOverlay.fades = 0
             => playersOverlay.hidden /\ ~playersOverlay.dimmed
    BY DEF IInv, ScreensInv, PanelInv
  <2>2. ASSUME Check!Settled PROVE mark = Check!Idle
    <3>1. mark.timers = 0 /\ mark.fades = 0 /\ mark.hidden /\ mark.opaque
      BY <2>2 DEF IInv, ScreensInv, MarkInv, Check!Settled
    <3> QED BY <3>1 DEF IInv, TypeOK, Check!TypeOK, Check!Idle
  <2> QED BY <2>1, <2>2 DEF AnimationsSettle
<1> QED BY Invariance, <1>1, PTL

-----------------------------------------------------------------------------
(* Which steps change rows. *)

(* Rows are written by a step: committed, or left in a transaction. *)
Writes(rows) == stage = "reading" /\ view' = rows /\ disk' \in {disk, rows}

(* The shown player is written with one number changed. *)
ChangesShown ==
  \E r \in Races, k \in Results, v \in 0 .. MaxInt :
    Changing(r, k, v) /\ Writes(PutRow(view, WithResult(r, k, v)))

(* The player of the form is written, and was not there before. *)
AddsFromForm ==
  /\ CanSavePlayer /\ form \notin NamesOf(view)
  /\ \E r \in Races : Writes(PutRow(view, NewPlayer(r)))

(* A listed player is deleted. *)
DeletesListed ==
  PlayersInFront /\ \E i \in DOMAIN list : Writes(DropRow(view, list[i]))

(* What a step does to the rows: nothing, one of the three, or what they   *)
(* are rolled back to at the end of the process.                           *)
RowsStep ==
  \/ UNCHANGED <<disk, view>>
  \/ process' # "running" /\ disk' = disk
  \/ ChangesShown \/ AddsFromForm \/ DeletesListed

LEMMA EndKeepsDisk ==
  ASSUME NEW why \in Reasons, End(why, disk)
  PROVE  process' # "running" /\ disk' = disk
  BY DEF End, Reasons

(* What becomes of an update, whether the process survives it or not.      *)
LEMMA UpdateChanges ==
  ASSUME NEW r, NEW k, NEW v, Changing(r, k, v),
         UpdateAndShow(WithResult(r, k, v)) \/ UpdateEnds(WithResult(r, k, v))
  PROVE  RowsStep
<1> DEFINE rows == PutRow(view, WithResult(r, k, v))
<1>1. CASE End("open transaction", disk) \/ End("overflow", disk)
  BY <1>1, EndKeepsDisk DEF RowsStep, Reasons
<1>2. CASE Writes(rows)
  BY <1>2 DEF RowsStep, ChangesShown, Changing
<1>3. CASE stage = "reading" /\ End("overflow", rows)
  BY <1>2, <1>3 DEF End, Writes
<1>4. CASE Committed(rows) \/ CommitFails(rows)
  BY <1>2, <1>4 DEF Committed, CommitFails, Writes
<1> QED BY <1>1, <1>3, <1>4 DEF UpdateAndShow, UpdateEnds

LEMMA NextRows == IInv /\ [Next]_vars => RowsStep
<1> SUFFICES ASSUME IInv, [Next]_vars PROVE RowsStep
  OBVIOUS
<1>1. ASSUME \/ Launch \/ presentPlayersViewController \/ addMatchButtonTapped
             \/ tappedOnStatsBackground \/ closeEditAlert
             \/ addPlayerButtonTapped \/ tappedOnPlayersBackground
             \/ \E r \in Races, k \in Results : showEditAlert(r, k)
             \/ \E i \in DOMAIN list : didSelectRow(i)
             \/ \E n \in Names \cup {NoName} : textFieldEditingChanged(n)
             \/ PresentPlayers \/ PresentIgnored \/ RunSelect \/ PlayersGone
             \/ StatsFadeEnds \/ PlayersFadeEnds \/ CheckmarkMoves
             \/ UNCHANGED vars
      PROVE  RowsStep
  <2>1. UNCHANGED <<disk, view>>
    BY <1>1
    DEF Launch, presentPlayersViewController, addMatchButtonTapped,
        tappedOnStatsBackground, closeEditAlert, addPlayerButtonTapped,
        tappedOnPlayersBackground, showEditAlert, didSelectRow,
        textFieldEditingChanged, PresentPlayers, PresentIgnored, RunSelect,
        PlayersGone, StatsFadeEnds, PlayersFadeEnds, CheckmarkMoves, vars, store
  <2> QED BY <2>1 DEF RowsStep
<1>2. ASSUME Kill \/ RunSelectEnds \/ addNewPlayerEnds
             \/ \E i \in DOMAIN list : deleteRowEnds(i)
      PROVE  RowsStep
  <2>1. \E why \in Reasons : End(why, disk)
    BY <1>2 DEF Kill, RunSelectEnds, addNewPlayerEnds, deleteRowEnds, Reasons
  <2> QED BY <2>1, EndKeepsDisk DEF RowsStep
<1>3. ASSUME NEW r \in Races, NEW k \in Results,
             addNewMatchResult(r, k) \/ addNewMatchResultEnds(r, k)
      PROVE  RowsStep
  <2>1. CASE End("overflow", disk)
    BY <2>1, EndKeepsDisk DEF RowsStep, Reasons
  <2>2. CASE /\ CanAddResult /\ player.stats[r][k] < MaxInt
             /\ \/ UpdateAndShow(WithResult(r, k, player.stats[r][k] + 1))
                \/ UpdateEnds(WithResult(r, k, player.stats[r][k] + 1))
    BY <2>2, AddChanges, UpdateChanges
  <2> QED BY <1>3, <2>1, <2>2 DEF addNewMatchResult, addNewMatchResultEnds
<1>4. ASSUME NEW v \in 0 .. MaxInt, saveNewValue(v) \/ saveNewValueEnds(v)
      PROVE  RowsStep
  BY <1>4, EditChanges, UpdateChanges DEF saveNewValue, saveNewValueEnds
<1>5. ASSUME NEW i \in DOMAIN list, deleteRow(i) PROVE RowsStep
  <2>1. PlayersInFront /\ list[i] \in NamesOf(view)
    BY <1>5, ListedIsStored DEF deleteRow
  <2>2. Writes(DropRow(view, list[i]))
    BY <1>5, <2>1 DEF deleteRow, Committed, CommitFails, Writes
  <2> QED BY <2>1, <2>2 DEF RowsStep, DeletesListed
<1>6. ASSUME NEW r \in Races, addNewPlayer(r) PROVE RowsStep
  BY <1>6 DEF addNewPlayer, NewPlayer, Committed, CommitFails, Writes, RowsStep, AddsFromForm
<1> QED BY <1>1, <1>2, <1>3, <1>4, <1>5, <1>6 DEF Next, RunBlock

(* The shown player is stored as he is shown, with the committed rows in   *)
(* view, whenever he is changed.                                           *)
LEMMA ChangedIsStored ==
  ASSUME IInv, stage = "reading", NEW r, NEW k, NEW v, Changing(r, k, v)
  PROVE  LET p == WithResult(r, k, v) IN
         /\ player \in Player /\ player.name \in NamesOf(disk)
         /\ At(disk, player.name) = player
         /\ view = disk
         /\ p.name = player.name
         /\ Written(disk, p, PutRow(view, p))
<1>1. /\ player \in Player /\ view = disk
      /\ view \in Seq(Player) /\ NamesUnique(view)
      /\ player.name \in NamesOf(view) /\ At(view, player.name) = player
  BY DEF Changing, IInv, TypeOK, StoreInv, PlayerInv
<1>2. WithResult(r, k, v) \in Player /\ WithResult(r, k, v).name = player.name
  BY <1>1, WithResultSets DEF Changing
<1>3. Written(view, WithResult(r, k, v), PutRow(view, WithResult(r, k, v)))
  BY <1>1, <1>2, PutRowWrites
<1> QED BY <1>1, <1>2, <1>3

(* A stored player comes into being only from the form: the player on the  *)
(* stats screen is stored whenever updatePlayer is called with the means   *)
(* to store him, so it never brings a deleted player back.                 *)
THEOREM OnlyTheFormCreatesHolds == Spec => OnlyTheFormCreates
<1> DEFINE Created ==
      process = "running" /\ process' = "running" =>
        \A n \in NamesOf(view') \ NamesOf(view) : PlayersInFront /\ n = form
<1>1. ASSUME IInv, [Next]_vars PROVE [Created]_vars
  <2> SUFFICES ASSUME process' = "running",
                      NEW n \in NamesOf(view') \ NamesOf(view)
               PROVE  PlayersInFront /\ n = form
    OBVIOUS
  <2>1. ChangesShown \/ AddsFromForm \/ DeletesListed
    BY <1>1, NextRows DEF RowsStep
  <2>2. CASE ChangesShown
    <3>1. PICK r \in Races, k \in Results, v \in 0 .. MaxInt :
             Changing(r, k, v) /\ Writes(PutRow(view, WithResult(r, k, v)))
      BY <2>2 DEF ChangesShown
    <3>2. NamesOf(view') = NamesOf(view)
      BY <1>1, <3>1, ChangedIsStored DEF Writes, Written
    <3> QED BY <3>2
  <2>3. CASE AddsFromForm
    <3>1. PICK r \in Races : Writes(PutRow(view, NewPlayer(r)))
      BY <2>3 DEF AddsFromForm
    <3>2. NewPlayer(r) \in Player /\ NewPlayer(r).name = form
      BY <1>1, <2>3, NewPlayerIsPlayer DEF AddsFromForm
    <3>3. view \in Seq(Player) /\ NamesUnique(view)
      BY <1>1 DEF IInv, TypeOK, StoreInv
    <3>4. NamesOf(view') = NamesOf(view) \cup {form}
      BY <3>1, <3>2, <3>3, PutRowWrites DEF Writes, Written
    <3> QED BY <2>3, <3>4 DEF AddsFromForm, CanSavePlayer
  <2>4. CASE DeletesListed
    <3>1. PICK i \in DOMAIN list : Writes(DropRow(view, list[i]))
      BY <2>4 DEF DeletesListed
    <3>2. Dropped(view, list[i], DropRow(view, list[i]))
      BY <1>1, <2>4, ListedIsStored, DropRowDrops DEF DeletesListed
    <3> QED BY <3>1, <3>2 DEF Writes, Dropped
  <2> QED BY <2>1, <2>2, <2>3, <2>4
<1> QED BY <1>1, Invariance, PTL DEF Spec, OnlyTheFormCreates

(* The numbers that differ between two players. *)
Differ(new, old) ==
  {rk \in Races \X Results : new.stats[rk[1]][rk[2]] # old.stats[rk[1]][rk[2]]}

(* Writing one number makes a difference of one, if it makes any. *)
LEMMA OneDiffers ==
  ASSUME player \in Player,
         NEW r \in Races, NEW k \in Results, NEW v \in 0 .. MaxInt,
         WithResult(r, k, v) # player
  PROVE  Cardinality(Differ(WithResult(r, k, v), player)) = 1
<1> DEFINE p == WithResult(r, k, v)
<1>1. /\ p \in Player /\ p.name = player.name /\ p.race = player.race
      /\ \A r2 \in Races, k2 \in Results :
           p.stats[r2][k2] = IF r2 = r /\ k2 = k THEN v ELSE player.stats[r2][k2]
  BY WithResultSets
<1> HIDE DEF p
<1>2. player.stats[r][k] # v
  <2> SUFFICES ASSUME player.stats[r][k] = v PROVE p = player
    BY DEF p
  <2>1. \A r2 \in Races, k2 \in Results : p.stats[r2][k2] = player.stats[r2][k2]
    BY <1>1
  <2>2. /\ p.stats \in [Races -> [Results -> 0 .. MaxInt]]
        /\ player.stats \in [Races -> [Results -> 0 .. MaxInt]]
    BY <1>1 DEF Player, Stats
  <2>3. p.stats = player.stats
    BY <2>1, <2>2
  <2> QED BY <1>1, <2>3 DEF Player
<1>3. Differ(p, player) = {<<r, k>>}
  BY <1>1, <1>2 DEF Differ
<1> QED BY <1>3, FS_Singleton DEF p

(* Numbers change only for the player on the stats screen, one at a time:  *)
(* additions and deletions, which move rows, leave the others theirs.      *)
THEOREM OnlyTheShownPlayerChangesHolds == Spec => OnlyTheShownPlayerChanges
<1> DEFINE ShownChanges ==
      \A n \in NamesOf(disk) \cap NamesOf(disk') :
        LET old == disk[RowOf(disk, n)]
            new == disk'[RowOf(disk', n)]
        IN  new # old =>
              /\ player # NoPlayer /\ n = player.name
              /\ presented \in {"none", "edit"}
              /\ new.race = old.race
              /\ Cardinality({ rk \in Races \X Results :
                     new.stats[rk[1]][rk[2]] # old.stats[rk[1]][rk[2]] }) = 1
<1>1. ASSUME IInv, [Next]_vars PROVE [ShownChanges]_vars
  <2> SUFFICES ASSUME NEW n \in NamesOf(disk) \cap NamesOf(disk'),
                      At(disk', n) # At(disk, n)
               PROVE  /\ player # NoPlayer /\ n = player.name
                      /\ presented \in {"none", "edit"}
                      /\ At(disk', n).race = At(disk, n).race
                      /\ Cardinality(Differ(At(disk', n), At(disk, n))) = 1
    BY DEF At, Differ
  <2>1. ChangesShown \/ AddsFromForm \/ DeletesListed
    BY <1>1, NextRows DEF RowsStep
  <2>2. disk' # disk
    OBVIOUS
  <2>3. stage = "reading" => view = disk /\ disk \in Seq(Player) /\ NamesUnique(disk)
    BY <1>1 DEF IInv, TypeOK, StoreInv
  <2>4. CASE ChangesShown
    <3>1. PICK r \in Races, k \in Results, v \in 0 .. MaxInt :
             Changing(r, k, v) /\ Writes(PutRow(view, WithResult(r, k, v)))
      BY <2>4 DEF ChangesShown
    <3> DEFINE p == WithResult(r, k, v)
    <3>2. disk' = PutRow(view, p) /\ stage = "reading"
      BY <2>2, <3>1 DEF Writes
    <3>3. /\ player \in Player /\ player.name \in NamesOf(disk)
          /\ At(disk, player.name) = player
          /\ p.name = player.name
          /\ Written(disk, p, disk')
      BY <1>1, <3>1, <3>2, ChangedIsStored
    <3>4. n = player.name /\ At(disk', n) = p /\ At(disk, n) = player
      BY <3>3 DEF Written
    <3>5. p.race = player.race /\ Cardinality(Differ(p, player)) = 1
      BY <3>3, <3>4, OneDiffers, WithResultSets
    <3> QED BY <3>1, <3>4, <3>5 DEF Changing
  <2>5. CASE AddsFromForm
    <3>1. PICK r \in Races : Writes(PutRow(view, NewPlayer(r)))
      BY <2>5 DEF AddsFromForm
    <3>2. NewPlayer(r) \in Player /\ NewPlayer(r).name = form
      BY <1>1, <2>5, NewPlayerIsPlayer DEF AddsFromForm
    <3>3. Written(disk, NewPlayer(r), disk') /\ form \notin NamesOf(disk)
      BY <2>2, <2>3, <2>5, <3>1, <3>2, PutRowWrites DEF Writes, AddsFromForm
    <3> QED BY <3>2, <3>3 DEF Written
  <2>6. CASE DeletesListed
    <3>1. PICK i \in DOMAIN list : Writes(DropRow(view, list[i]))
      BY <2>6 DEF DeletesListed
    <3>2. Dropped(view, list[i], DropRow(view, list[i]))
      BY <1>1, <2>6, ListedIsStored, DropRowDrops DEF DeletesListed
    <3>3. Dropped(disk, list[i], disk')
      BY <2>2, <2>3, <3>1, <3>2 DEF Writes
    <3> QED BY <3>3 DEF Dropped
  <2> QED BY <2>1, <2>4, <2>5, <2>6
<1> QED BY <1>1, Invariance, PTL DEF Spec, OnlyTheShownPlayerChanges
=============================================================================
