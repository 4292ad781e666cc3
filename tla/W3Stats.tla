------------------------------- MODULE W3Stats ------------------------------
(***************************************************************************)
(* The app: the stats screen, the players screen it presents, the main     *)
(* queue between them and the player store under both.                     *)
(*                                                                         *)
(* Everything runs on the main thread: an event handler is one step, and   *)
(* what it postpones (DispatchQueue.main.async, animation completions,     *)
(* timers) are later steps, with the user's taps in between. The process   *)
(* can end at any time; the next launch starts from the committed rows.    *)
(*                                                                         *)
(* The store appears here as the rows LoadPlayers sees (PlayerTables); a   *)
(* call of the data layer is one step of the handler that makes it, with   *)
(* the outcomes PlayerStore has for it.                                    *)
(***************************************************************************)
EXTENDS PlayerRows, FiniteSets, FiniteSetsExt

CONSTANTS
  Names,      \* names of at least three characters
  Races,      \* the races in use
  NoName,     \* any shorter text
  NoPlayer,
  MaxInt,     \* Int.max
  MaxQueue,   \* bound: blocks waiting on the main queue
  MaxFades, MaxPlayersFades, MaxTimers  \* bounds: see Overlay and Checkmark

ASSUME IntAssumption == MaxInt \in Nat \ {0}

ASSUME BoundsAssumption ==
  MaxQueue \in Nat \ {0} /\ {MaxFades, MaxPlayersFades, MaxTimers} \subseteq Nat

VARIABLES
  process,         \* "running", or why the process has ended
  disk,            \* the committed rows
  view,            \* the rows as the app's Realm shows them
  stage,           \* "reading" or "writing"
  failed,          \* has a commit of this launch failed
  queue,           \* blocks on the main queue, oldest first
  player,          \* StatsViewController.player
  labels,          \* the player as last displayed by showStats
  presented,       \* what StatsViewController presents
  edit,            \* what the edit alert was opened for
  list,            \* PlayersViewController.players, by name
  form,            \* AddPlayerView.playerResult.name
  playersAlert,    \* the alert PlayersViewController presents
  statsOverlay, playersOverlay, mark   \* see Overlay and Checkmark

store == <<disk, view, stage, failed>>
statsScreen == <<player, labels, presented, edit, statsOverlay, mark>>
playersScreen == <<list, form, playersAlert, playersOverlay>>
vars == <<process, store, queue, statsScreen, playersScreen>>

StatsPanel   == INSTANCE Overlay WITH overlay <- statsOverlay
PlayersPanel == INSTANCE Overlay WITH overlay <- playersOverlay, MaxFades <- MaxPlayersFades
Check        == INSTANCE Checkmark

-----------------------------------------------------------------------------
(* Players and their numbers. *)

Results == {"wins", "losses"}

Stats == [Races -> [Results -> 0 .. MaxInt]]

Player == [name : Names, race : Races, stats : Stats]

NoMatches == [r \in Races |-> [k \in Results |-> 0]]

(* showStats adds all numbers up in Ints: it traps when the sum is beyond  *)
(* Int.max (every partial sum is smaller).                                 *)
Showable(s) ==
  MapThenSumSet(LAMBDA r : s[r]["wins"] + s[r]["losses"], Races) <= MaxInt

Stored(n) == view[RowOf(view, n)]

NoEdit == [name |-> NoName, race |-> "none", result |-> "none"]

Blocks == [kind : {"present"}, row : {0}] \cup [kind : {"select"}, row : Nat \ {0}]

TypeOK ==
  /\ process \in { "running", "killed", "duplicate name", "open transaction",
                   "overflow", "row out of range" }
  /\ disk \in Seq(Player) /\ view \in Seq(Player)
  /\ stage \in {"reading", "writing"} /\ failed \in BOOLEAN
  /\ queue \in Seq(Blocks) /\ Len(queue) <= MaxQueue
  /\ player \in Player \cup {NoPlayer}
  /\ labels \in Player \cup {NoPlayer}
  /\ presented \in {"none", "players", "leaving", "edit", "alert"}
  /\ edit \in [name : Names, race : Races, result : Results] \cup {NoEdit}
  /\ list \in Seq(Names)
  /\ form \in Names \cup {NoName}
  /\ playersAlert \in {"none", "save", "delete"}
  /\ StatsPanel!TypeOK /\ PlayersPanel!TypeOK /\ Check!TypeOK

-----------------------------------------------------------------------------
(* The life of the process. *)

NewPlayersScreen ==
  /\ list' = << >>
  /\ form' = NoName
  /\ playersAlert' = "none"
  /\ playersOverlay' = PlayersPanel!Closed

NewStatsScreen ==
  /\ player' = NoPlayer
  /\ labels' = NoPlayer
  /\ presented' = "none"
  /\ edit' = NoEdit
  /\ statsOverlay' = StatsPanel!Closed
  /\ mark' = Check!Idle

(* The process ends, by a trap, an uncaught exception or from outside:     *)
(* nothing but the committed rows is left.                                 *)
End(why, rows) ==
  /\ process' = why
  /\ disk' = rows
  /\ view' = rows
  /\ stage' = "reading"
  /\ queue' = << >>
  /\ NewStatsScreen
  /\ NewPlayersScreen
  /\ UNCHANGED failed

Kill == process = "running" /\ End("killed", disk)

(* Mutant of Launch: viewDidLoad does not look for a player.               *)
LaunchWithoutPlayers ==
  /\ process # "running"
  /\ process' = "running"
  /\ failed' = FALSE
  /\ UNCHANGED <<disk, view, stage, queue, statsScreen, playersScreen>>

(* StatsViewController.viewDidLoad: player is nil, so the players screen   *)
(* is asked for.                                                           *)
Launch ==
  /\ process # "running"
  /\ process' = "running"
  /\ failed' = FALSE
  /\ queue' = << [kind |-> "present", row |-> 0] >>
  /\ UNCHANGED <<disk, view, stage, statsScreen, playersScreen>>

Init ==
  /\ process = "running"
  /\ disk = << >> /\ view = << >> /\ stage = "reading" /\ failed = FALSE
  /\ queue = << [kind |-> "present", row |-> 0] >>
  /\ player = NoPlayer /\ labels = NoPlayer
  /\ presented = "none" /\ edit = NoEdit
  /\ list = << >> /\ form = NoName /\ playersAlert = "none"
  /\ StatsPanel!Init /\ PlayersPanel!Init /\ Check!Init

(* A write transaction that leads to these rows: committed, or left open   *)
(* by a commit that fails.                                                 *)
Committed(rows) ==
  /\ stage = "reading"
  /\ disk' = rows /\ view' = rows
  /\ UNCHANGED <<stage, failed>>

CommitFails(rows) ==
  /\ stage = "reading"
  /\ view' = rows
  /\ stage' = "writing" /\ failed' = TRUE
  /\ UNCHANGED disk

-----------------------------------------------------------------------------
(* The stats screen. *)

StatsInFront == process = "running" /\ presented = "none"

Postpone(block) == Len(queue) < MaxQueue /\ queue' = Append(queue, block)

(* PlayerView's button. *)
presentPlayersViewController ==
  /\ StatsInFront /\ StatsPanel!Reachable
  /\ Postpone([kind |-> "present", row |-> 0])
  /\ UNCHANGED <<process, store, statsScreen, playersScreen>>

addMatchButtonTapped ==
  /\ StatsInFront
  /\ StatsPanel!AddTapped
  /\ UNCHANGED << process, store, queue, player, labels, presented, edit, mark,
                  playersScreen >>

tappedOnStatsBackground ==
  /\ StatsInFront
  /\ StatsPanel!BackgroundTapped
  /\ UNCHANGED << process, store, queue, player, labels, presented, edit, mark,
                  playersScreen >>

(* Mutant of UpdateAndShow: showStats is not called.                       *)
UpdateWithoutShow(p) ==
  /\ Showable(p.stats)
  /\ \/ Committed(PutRow(view, p)) /\ presented' = "none"
     \/ CommitFails(PutRow(view, p)) /\ presented' = "alert"
  /\ player' = p
  /\ edit' = NoEdit
  /\ UNCHANGED <<process, queue, labels, playersScreen>>

(* updatePlayer and showStats with the changed player. A failed commit     *)
(* presents an alert; the rest goes on as if nothing had happened.         *)
UpdateAndShow(p) ==
  /\ Showable(p.stats)
  /\ \/ Committed(PutRow(view, p)) /\ presented' = "none"
     \/ CommitFails(PutRow(view, p)) /\ presented' = "alert"
  /\ player' = p
  /\ labels' = p
  /\ edit' = NoEdit
  /\ UNCHANGED <<process, queue, playersScreen>>

(* The same call when it ends the process: beginWrite raises in an open    *)
(* transaction, or showStats traps after the commit.                       *)
UpdateEnds(p) ==
  \/ stage = "writing" /\ End("open transaction", disk)
  \/ /\ stage = "reading" /\ ~Showable(p.stats)
     /\ \E rows \in {PutRow(view, p), disk} : End("overflow", rows)

(* Mutant of WithResult: both numbers of the pair are written.             *)
WithBothResults(r, k, v) == [player EXCEPT !.stats[r] = [x \in Results |-> v]]

WithResult(r, k, v) == [player EXCEPT !.stats[r][k] = v]

(* The save button of the panel; nothing happens without a player.         *)
CanAddResult == StatsInFront /\ statsOverlay.panel /\ player # NoPlayer

addNewMatchResult(r, k) ==
  /\ CanAddResult
  /\ player.stats[r][k] < MaxInt
  /\ UpdateAndShow(WithResult(r, k, player.stats[r][k] + 1))
  /\ StatsPanel!Hide
  /\ Check!Show

addNewMatchResultEnds(r, k) ==
  /\ CanAddResult
  /\ \/ player.stats[r][k] = MaxInt /\ End("overflow", disk)
     \/ /\ player.stats[r][k] < MaxInt
        /\ UpdateEnds(WithResult(r, k, player.stats[r][k] + 1))

(* A long press on a number. *)
showEditAlert(r, k) ==
  /\ StatsInFront /\ StatsPanel!Reachable
  /\ player # NoPlayer
  /\ presented' = "edit"
  /\ edit' = [name |-> player.name, race |-> r, result |-> k]
  /\ UNCHANGED <<process, store, queue, player, labels, statsOverlay, mark, playersScreen>>

(* Cancel, or Save with a text that is no Int. *)
closeEditAlert ==
  /\ process = "running" /\ presented = "edit"
  /\ presented' = "none"
  /\ edit' = NoEdit
  /\ UNCHANGED <<process, store, queue, player, labels, statsOverlay, mark, playersScreen>>

saveNewValue(v) ==
  /\ process = "running" /\ presented = "edit"
  /\ UpdateAndShow(WithResult(edit.race, edit.result, v))
  /\ UNCHANGED <<statsOverlay, mark>>

saveNewValueEnds(v) ==
  /\ process = "running" /\ presented = "edit"
  /\ UpdateEnds(WithResult(edit.race, edit.result, v))

-----------------------------------------------------------------------------
(* The players screen. *)

PlayersInFront ==
  process = "running" /\ presented = "players" /\ playersAlert = "none"

(* Mutant of didSelectRow: rows counted from 0 and from 1 are mixed up.    *)
didSelectRowBefore(i) ==
  /\ PlayersInFront /\ PlayersPanel!Reachable
  /\ Postpone([kind |-> "select", row |-> i - 1])
  /\ UNCHANGED <<process, store, statsScreen, playersScreen>>

(* didSelectRowAt: only the index is kept. *)
didSelectRow(i) ==
  /\ PlayersInFront /\ PlayersPanel!Reachable
  /\ Postpone([kind |-> "select", row |-> i])
  /\ UNCHANGED <<process, store, statsScreen, playersScreen>>

(* Mutant of deleteRow: players.remove(at:) is forgotten.                  *)
deleteRowKeepingIt(i) ==
  /\ PlayersInFront /\ PlayersPanel!Reachable
  /\ list[i] \in NamesOf(view)
  /\ Committed(DropRow(view, list[i]))
  /\ UNCHANGED <<process, queue, statsScreen, playersScreen>>

(* commit editingStyle: the row goes, whether the deletion fails or not;   *)
(* it fails at once when no player of that name is found.                  *)
deleteRow(i) ==
  /\ PlayersInFront /\ PlayersPanel!Reachable
  /\ IF list[i] \in NamesOf(view)
     THEN \/ /\ Committed(DropRow(view, list[i]))
             /\ UNCHANGED playersAlert
          \/ /\ CommitFails(DropRow(view, list[i]))
             /\ playersAlert' = "delete"
     ELSE playersAlert' = "delete" /\ UNCHANGED store
  /\ list' = SubSeq(list, 1, i - 1) \o SubSeq(list, i + 1, Len(list))
  /\ UNCHANGED <<process, queue, statsScreen, form, playersOverlay>>

deleteRowEnds(i) ==
  /\ PlayersInFront /\ PlayersPanel!Reachable
  /\ list[i] \in NamesOf(view)
  /\ stage = "writing" /\ End("open transaction", disk)

addPlayerButtonTapped ==
  /\ PlayersInFront
  /\ PlayersPanel!AddTapped
  /\ UNCHANGED <<process, store, queue, statsScreen, list, form, playersAlert>>

(* Without players the panel stays. *)
tappedOnPlayersBackground ==
  /\ PlayersInFront
  /\ list # << >>
  /\ PlayersPanel!BackgroundTapped
  /\ UNCHANGED <<process, store, queue, statsScreen, list, form, playersAlert>>

(* textFieldEditingChanged: the save button is enabled for long names.     *)
textFieldEditingChanged(n) ==
  /\ PlayersInFront /\ playersOverlay.panel
  /\ form' = n
  /\ UNCHANGED <<process, store, queue, statsScreen, list, playersAlert, playersOverlay>>

CanSavePlayer == PlayersInFront /\ playersOverlay.panel /\ form # NoName

(* Mutant of addNewPlayer: the screen is left after adding, with no choice *)
(* made.                                                                   *)
addNewPlayerAndLeave(r) ==
  /\ CanSavePlayer
  /\ form \notin NamesOf(view)
  /\ Committed(PutRow(view, [name |-> form, race |-> r, stats |-> NoMatches]))
  /\ presented' = "leaving"
  /\ list' = Append(list, form)
  /\ PlayersPanel!Hide
  /\ UNCHANGED <<process, queue, player, labels, edit, statsOverlay, mark, form, playersAlert>>

(* tapOnSave and addNewPlayer: the name is appended to the list, whether   *)
(* it was saved or not; the text field is cleared, the form and the save   *)
(* button are not.                                                         *)
addNewPlayer(r) ==
  /\ CanSavePlayer
  /\ form \notin NamesOf(view)
  /\ LET rows == PutRow(view, [name |-> form, race |-> r, stats |-> NoMatches]) IN
     \/ Committed(rows) /\ UNCHANGED playersAlert
     \/ CommitFails(rows) /\ playersAlert' = "save"
  /\ list' = Append(list, form)
  /\ PlayersPanel!Hide
  /\ UNCHANGED <<process, queue, statsScreen, form>>

addNewPlayerEnds ==
  /\ CanSavePlayer
  /\ \/ stage = "writing" /\ End("open transaction", disk)
     \/ /\ stage = "reading" /\ form \in NamesOf(view)
        /\ End("duplicate name", disk)

-----------------------------------------------------------------------------
(* The main queue. *)

Block == Head(queue)

RunsBlock(kind) ==
  process = "running" /\ queue # << >> /\ Block.kind = kind

(* A new PlayersViewController, loaded and presented; UIKit ignores the    *)
(* call while something else is presented.                                 *)
PresentPlayers ==
  /\ RunsBlock("present") /\ presented = "none"
  /\ queue' = Tail(queue)
  /\ presented' = "players"
  /\ list' = [i \in DOMAIN view |-> view[i].name]
  /\ playersOverlay' =
       IF view = << >> THEN PlayersPanel!Shown ELSE PlayersPanel!Closed
  /\ UNCHANGED <<process, store, player, labels, edit, statsOverlay, mark, form, playersAlert>>

PresentIgnored ==
  /\ RunsBlock("present") /\ presented # "none"
  /\ queue' = Tail(queue)
  /\ UNCHANGED <<process, store, statsScreen, playersScreen>>

(* Mutant of Dismiss: the screen stays. *)
DismissNothing == UNCHANGED <<presented, playersAlert>>

(* dismiss takes the alert away when there is one over the players screen, *)
(* and otherwise the screen.                                               *)
Dismiss ==
  IF playersAlert # "none"
  THEN playersAlert' = "none" /\ UNCHANGED presented
  ELSE presented' = "leaving" /\ UNCHANGED playersAlert

(* updateStatsForPlayer(players[row].name), then dismiss. Without a row    *)
(* for the name the player is nil and the labels stay.                     *)
RunSelect ==
  /\ RunsBlock("select") /\ Block.row \in DOMAIN list
  /\ LET n == list[Block.row] IN
     IF n \in NamesOf(view)
     THEN /\ Showable(Stored(n).stats)
          /\ player' = Stored(n)
          /\ labels' = Stored(n)
     ELSE player' = NoPlayer /\ UNCHANGED labels
  /\ Dismiss
  /\ queue' = Tail(queue)
  /\ UNCHANGED <<process, store, edit, statsOverlay, mark, list, form, playersOverlay>>

RunSelectEnds ==
  /\ RunsBlock("select")
  /\ \/ Block.row \notin DOMAIN list /\ End("row out of range", disk)
     \/ /\ Block.row \in DOMAIN list
        /\ list[Block.row] \in NamesOf(view)
        /\ ~Showable(Stored(list[Block.row]).stats)
        /\ End("overflow", disk)

(* The players screen has slid away. Blocks queued before are run long     *)
(* before its animation ends.                                              *)
PlayersGone ==
  /\ process = "running" /\ presented = "leaving" /\ queue = << >>
  /\ presented' = "none"
  /\ NewPlayersScreen
  /\ UNCHANGED <<process, store, queue, player, labels, edit, statsOverlay, mark>>

(* Animations and timers. *)
StatsFadeEnds ==
  /\ process = "running"
  /\ StatsPanel!FadeInEnds \/ StatsPanel!FadeOutEnds
  /\ UNCHANGED << process, store, queue, player, labels, presented, edit, mark,
                  playersScreen >>

PlayersFadeEnds ==
  /\ process = "running"
  /\ PlayersPanel!FadeInEnds \/ PlayersPanel!FadeOutEnds
  /\ UNCHANGED <<process, store, queue, statsScreen, list, form, playersAlert>>

CheckmarkMoves ==
  /\ process = "running"
  /\ Check!TimerFires \/ Check!FadeEnds
  /\ UNCHANGED << process, store, queue, player, labels, presented, edit,
                  statsOverlay, playersScreen >>

RunBlock == PresentPlayers \/ PresentIgnored \/ RunSelect \/ RunSelectEnds

Next ==
  \/ Kill \/ Launch
  \/ presentPlayersViewController \/ addMatchButtonTapped \/ tappedOnStatsBackground
  \/ \E r \in Races, k \in Results :
       addNewMatchResult(r, k) \/ addNewMatchResultEnds(r, k) \/ showEditAlert(r, k)
  \/ closeEditAlert
  \/ \E v \in 0 .. MaxInt : saveNewValue(v) \/ saveNewValueEnds(v)
  \/ \E i \in DOMAIN list : didSelectRow(i) \/ deleteRow(i) \/ deleteRowEnds(i)
  \/ addPlayerButtonTapped \/ tappedOnPlayersBackground
  \/ \E n \in Names \cup {NoName} : textFieldEditingChanged(n)
  \/ \E r \in Races : addNewPlayer(r)
  \/ addNewPlayerEnds
  \/ RunBlock \/ PlayersGone
  \/ StatsFadeEnds \/ PlayersFadeEnds \/ CheckmarkMoves

(* The main thread comes to the blocks on its queue, the transition that   *)
(* dismisses the players screen ends, and so do animations and timers.     *)
Fairness ==
  /\ WF_vars(RunBlock)
  /\ WF_vars(PlayersGone)
  /\ WF_vars(StatsFadeEnds) /\ WF_vars(PlayersFadeEnds)
  /\ WF_vars(CheckmarkMoves)

Spec == Init /\ [][Next]_vars /\ Fairness

-----------------------------------------------------------------------------
(* Properties. *)

(* The stats screen in front shows a stored player with his stored         *)
(* numbers, and everything it ever acknowledged is on disk, as long as no  *)
(* commit has failed: the copy in StatsViewController, the labels, the     *)
(* Realm and the file never drift apart, whatever happened on the players  *)
(* screen or before the last end of the process.                           *)
ShownIsStored ==
  process = "running" /\ ~failed =>
    /\ view = disk
    /\ presented \in {"none", "edit"} /\ player # NoPlayer =>
         /\ player.name \in NamesOf(disk)
         /\ disk[RowOf(disk, player.name)] = player
         /\ labels = player

(* The players screen lists the players there are, each once: the list it  *)
(* edits in memory and the store, edited in parallel, agree, though not in *)
(* their order (a deletion moves the last row of the table).               *)
ListIsStored ==
  process = "running" /\ presented \in {"players", "leaving"} =>
    /\ {list[i] : i \in DOMAIN list} = NamesOf(view)
    /\ Len(list) = Len(view)

(* Without players the only way on is the panel for adding one: on the     *)
(* players screen it is up, or the button that brings it up can be tapped. *)
CanAlwaysAddPlayer ==
  PlayersInFront => playersOverlay.panel \/ PlayersPanel!Reachable

(* A stored player comes into being only from the form of the players      *)
(* screen: updatePlayer, which would create a missing row, never brings a  *)
(* deleted player back.                                                    *)
OnlyTheFormCreates ==
  [][process = "running" /\ process' = "running" =>
       \A n \in NamesOf(view') \ NamesOf(view) :
          PlayersInFront /\ n = form]_vars

(* Numbers change only for the player on the stats screen, one number at a *)
(* time.                                                                   *)
OnlyTheShownPlayerChanges ==
  [][\A n \in NamesOf(disk) \cap NamesOf(disk') :
       LET old == disk[RowOf(disk, n)]
           new == disk'[RowOf(disk', n)]
       IN  new # old =>
             /\ player # NoPlayer /\ n = player.name
             /\ presented \in {"none", "edit"}
             /\ new.race = old.race
             /\ Cardinality({ rk \in Races \X Results :
                    new.stats[rk[1]][rk[2]] # old.stats[rk[1]][rk[2]] }) = 1
    ]_vars

(* The stats screen is never left without a player: the players screen     *)
(* comes up, at launch and whenever else there is nothing to show, and no  *)
(* tap in between can make UIKit ignore it.                                *)
NoPlayerLeadsToPlayers ==
  (process = "running" /\ player = NoPlayer)
    ~> (presented = "players" \/ process # "running")

(* A tap on a player leads to the stats screen, unless a commit fails or   *)
(* the process ends.                                                       *)
TapLeadsToStats ==
  (process = "running" /\ \E i \in DOMAIN queue : queue[i].kind = "select")
    ~> (presented \in {"none", "edit"} \/ failed \/ process # "running")

(* "Failed to save player." (PlayersViewController): a player who could    *)
(* not be saved is not listed.                                             *)
FailedSaveIsNotListed ==
  [][playersAlert' = "save" /\ playersAlert = "none" => list' = list]_vars

(* Once every animation and timer has ended everything is as before it     *)
(* began, however the calls of blurBackground, unblurBackground and        *)
(* showCheckmark overlapped: the blur of a panel that is down is hidden,   *)
(* not merely transparent, and the checkmark has its alpha back.           *)
AnimationsSettle ==
  process = "running" =>
    /\ ~statsOverlay.panel /\ statsOverlay.fades = 0
         => statsOverlay.hidden /\ ~statsOverlay.dimmed
    /\ ~playersOverlay.panel /\ playersOverlay.fades = 0
         => playersOverlay.hidden /\ ~playersOverlay.dimmed
    /\ Check!Settled => mark = Check!Idle

(* The checkmark does not stay on the screen, nor does the blur of a panel *)
(* that is down, unless the panel comes up again.                          *)
AnimationsEnd ==
  /\ ~mark.hidden ~> (mark.hidden \/ process # "running")
  /\ ~statsOverlay.panel
       ~> (statsOverlay.hidden \/ statsOverlay.panel \/ process # "running")
  /\ ~playersOverlay.panel
       ~> (playersOverlay.hidden \/ playersOverlay.panel \/ process # "running")
=============================================================================
