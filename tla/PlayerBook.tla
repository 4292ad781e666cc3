----------------------------- MODULE PlayerBook -----------------------------
(***************************************************************************)
(* What the data layer (protocol DataProviding) promises its callers, with *)
(* no tables, links or transactions: a book of players by name, which      *)
(* changes only by the one request that is outstanding, as a whole or not  *)
(* at all, and which survives the end of the process.                      *)
(***************************************************************************)
EXTENDS Naturals

CONSTANTS Names, Races, StatsVals, NoRequest

VARIABLES
  book,    \* name |-> race and stats, for the names that are stored
  asked,   \* the request in progress, or NoRequest
  answer   \* how the last request of this launch ended

vars == <<book, asked, answer>>

Entry == [race : Races, stats : StatsVals]

Player == [name : Names, race : Races, stats : StatsVals]

Request == [op : {"save", "update"}, player : Player]
             \cup [op : {"delete"}, name : Names]

Init ==
  /\ book = << >>
  /\ asked = NoRequest
  /\ answer = "none"

Ask(r) ==
  /\ asked = NoRequest
  /\ asked' = r
  /\ answer' = "none"
  /\ UNCHANGED book

Done == asked' = NoRequest /\ answer' = "done"

EntryOf(p) == [race |-> p.race, stats |-> p.stats]

(* Writing an entry: the others keep theirs. *)
With(b, p) ==
  [n \in DOMAIN b \cup {p.name} |-> IF n = p.name THEN EntryOf(p) ELSE b[n]]

Without(b, n) == [m \in DOMAIN b \ {n} |-> b[m]]

Save ==
  /\ asked # NoRequest
  /\ asked.op = "save"
  /\ asked.player.name \notin DOMAIN book
  /\ book' = With(book, asked.player)
  /\ Done

Update ==
  /\ asked # NoRequest
  /\ asked.op = "update"
  /\ book' = With(book, asked.player)
  /\ Done

Delete ==
  /\ asked # NoRequest
  /\ asked.op = "delete"
  /\ asked.name \in DOMAIN book
  /\ book' = Without(book, asked.name)
  /\ Done

(* onFailed: nothing has changed. *)
Refuse ==
  /\ asked # NoRequest
  /\ asked' = NoRequest
  /\ answer' = "failed"
  /\ UNCHANGED book

(* The process ends, with the request half done or done but unanswered.    *)
Forget ==
  /\ asked' = NoRequest
  /\ answer' = "none"
  /\ UNCHANGED book

Next ==
  \/ \E r \in Request : Ask(r)
  \/ Save \/ Update \/ Delete \/ Refuse \/ Forget

Spec == Init /\ [][Next]_vars
=============================================================================
