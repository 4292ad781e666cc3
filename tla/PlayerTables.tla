---------------------------- MODULE PlayerTables ----------------------------
(***************************************************************************)
(* The object tables in which W3Stats keeps its players, and what the      *)
(* calls of the data layer do to them.                                     *)
(*                                                                         *)
(* A PlayerObject row holds the primary key `name', the raw race and a     *)
(* link to a row of the StatsObject table; that StatsObject and the four   *)
(* DescObjects it links to are created together and never touched          *)
(* afterwards, so one entry of `stats' stands for the five of them.        *)
(* Neither StatsObject nor DescObject has a primary key: writing a player  *)
(* again always makes new ones, and the old ones stay behind, unlinked.    *)
(***************************************************************************)
EXTENDS PlayerRows

CONSTANTS
  Names,     \* the player names in use (non-empty strings)
  Races,     \* the races in use, some of the four of enum Race
  StatsVals  \* the values the four win/loss pairs of a player can have

ASSUME RacesAssumption == Races \subseteq {"human", "elf", "orc", "undead"}

(* A player as the rest of the program sees it (class Player). *)
Player == [name : Names, race : Races, stats : StatsVals]

(* enum Race's initialiser: every raw value it does not know is human. *)
RaceFromRaw(raw) == IF raw \in {"elf", "orc", "undead"} THEN raw ELSE "human"

Row == [name : Names, race : Races, stats : Nat \ {0}]

Tables == [players : Seq(Row), stats : Seq(StatsVals)]

NoTables == [players |-> << >>, stats |-> << >>]

StoredNames(t) == NamesOf(t.players)

-----------------------------------------------------------------------------
(* Reading. *)

(* playerFromPlayerObject on one row, its links followed. *)
PlayerAt(t, i) ==
  [ name  |-> t.players[i].name,
    race  |-> RaceFromRaw(t.players[i].race),
    stats |-> t.stats[t.players[i].stats] ]

(* loadPlayers: every row, in the order of the table. *)
LoadPlayers(t) == [i \in DOMAIN t.players |-> PlayerAt(t, i)]

(* loadPlayer: the row found by its primary key; the caller has checked    *)
(* that there is one.                                                      *)
LoadPlayer(t, n) == PlayerAt(t, RowOf(t.players, n))

-----------------------------------------------------------------------------
(* Writing, inside a write transaction. *)

(* Mutant of Put: the link is taken before the new stats are there.        *)
PutLinkedTooEarly(t, p) ==
  [ players |-> PutRow(t.players, [ name  |-> p.name,
                                    race  |-> p.race,
                                    stats |-> Len(t.stats) ]),
    stats   |-> Append(t.stats, p.stats) ]

(* Object::create for a PlayerObject and, below it, the objects it links   *)
(* to: the row gets its fields and a link to new stats.                    *)
Put(t, p) ==
  [ players |-> PutRow(t.players, [ name  |-> p.name,
                                    race  |-> p.race,
                                    stats |-> Len(t.stats) + 1 ]),
    stats   |-> Append(t.stats, p.stats) ]

(* realm.delete(playerObject): links are not followed, the stats of the    *)
(* player stay behind.                                                     *)
Remove(t, n) == [t EXCEPT !.players = DropRow(t.players, n)]

-----------------------------------------------------------------------------
(* What must be true of tables for the reads above to make sense. *)

(* Every link leads to an object: playerFromPlayerObject never returns nil *)
(* for a stored player, so compactMap in loadPlayers never drops one.      *)
LinksResolve(t) ==
  \A i \in DOMAIN t.players : t.players[i].stats \in DOMAIN t.stats

(* No two players share their stats, so a result of one is never counted   *)
(* for another.                                                            *)
LinksUnshared(t) ==
  \A i, j \in DOMAIN t.players :
     t.players[i].stats = t.players[j].stats => i = j

WellFormed(t) ==
  NamesUnique(t.players) /\ LinksResolve(t) /\ LinksUnshared(t)
=============================================================================
