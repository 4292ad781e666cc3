---------------------------- MODULE PlayerStore -----------------------------
(***************************************************************************)
(* The data layer of W3Stats (RealmDataProvider) on the write path of the  *)
(* Realm library beneath it, call by call and step by step:                *)
(*                                                                         *)
(*    savePlayer / updatePlayer / deletePlayer                             *)
(*      -> Realm.write { ... }     beginWrite, the block, commitWrite      *)
(*                                                                         *)
(* All calls are made on the main thread, one at a time; between any two   *)
(* steps the process can end, because the system kills it or because an    *)
(* NSException is raised, which no Swift `catch' sees.                     *)
(***************************************************************************)
EXTENDS PlayerTables

CONSTANTS
  NoCall,
  MaxObjects   \* bound: objects in the StatsObject table, for model checking

ASSUME NoCallAssumption == NoCall \notin [op : {"save", "update"}, player : Player]
                                           \cup [op : {"delete"}, name : Names]

VARIABLES
  disk,     \* the tables of the last commit: what a new launch finds
  view,     \* the tables as the app's Realm instance shows them
  stage,    \* "reading" or "writing": the stage of its SharedGroup
  call,     \* the call of the data layer in progress
  at,       \* where it is: "idle", "begin", "modify", "commit", or "ended"
  outcome,  \* how the last call of this launch ended
  failed    \* whether a call of this launch has reported onFailed after its
            \* commit failed

vars == <<disk, view, stage, call, at, outcome, failed>>

Call == [op : {"save", "update"}, player : Player]
          \cup [op : {"delete"}, name : Names]

TypeOK ==
  /\ disk \in Tables
  /\ view \in Tables
  /\ stage \in {"reading", "writing"}
  /\ call \in Call \cup {NoCall}
  /\ at \in {"idle", "begin", "modify", "commit", "ended"}
  /\ outcome \in {"none", "done", "failed"}
  /\ failed \in BOOLEAN

Init ==
  /\ disk = NoTables
  /\ view = NoTables
  /\ stage = "reading"
  /\ call = NoCall
  /\ at = "idle"
  /\ outcome = "none"
  /\ failed = FALSE

-----------------------------------------------------------------------------
(* The three calls that write. *)

Start(c) ==
  /\ at = "idle"
  /\ call' = c
  /\ at' = "begin"
  /\ outcome' = "none"
  /\ UNCHANGED <<disk, view, stage, failed>>

savePlayer(p) ==
  /\ Len(view.stats) < MaxObjects
  /\ Start([op |-> "save", player |-> p])

updatePlayer(p) ==
  /\ Len(view.stats) < MaxObjects
  /\ Start([op |-> "update", player |-> p])

deletePlayer(n) == Start([op |-> "delete", name |-> n])

Return(how) ==
  /\ call' = NoCall
  /\ at' = "idle"
  /\ outcome' = how

(* The process ends: what is not committed is gone. *)
End ==
  /\ call' = NoCall
  /\ at' = "ended"
  /\ outcome' = "none"
  /\ UNCHANGED <<disk, view, stage, failed>>

(* deletePlayer looks the object up first, outside any transaction it      *)
(* opens, and reports failure when there is none.                          *)
DeleteMissing ==
  /\ at = "begin"
  /\ call.op = "delete"
  /\ call.name \notin StoredNames(view)
  /\ Return("failed")
  /\ UNCHANGED <<disk, view, stage, failed>>

FoundIfDelete == call.op = "delete" => call.name \in StoredNames(view)

(* Mutants of beginWrite: deletePlayer does not look the object up first;  *)
(* a transaction that is already open is simply continued.                 *)
beginWriteUnchecked ==
  /\ at = "begin"
  /\ stage = "reading"
  /\ stage' = "writing"
  /\ at' = "modify"
  /\ UNCHANGED <<disk, view, call, outcome, failed>>

beginWriteAnyway ==
  /\ at = "begin"
  /\ FoundIfDelete
  /\ stage' = "writing"
  /\ at' = "modify"
  /\ UNCHANGED <<disk, view, call, outcome, failed>>

beginWrite ==
  /\ at = "begin"
  /\ FoundIfDelete
  /\ stage = "reading"
  /\ stage' = "writing"
  /\ at' = "modify"
  /\ UNCHANGED <<disk, view, call, outcome, failed>>

(* "The Realm is already in a write transaction" is a C++ exception, which *)
(* becomes an NSException: the process ends.                               *)
beginWriteInTransaction ==
  /\ at = "begin"
  /\ FoundIfDelete
  /\ stage = "writing"
  /\ End

(* realm.add(object), without update, of a name that has a row: a          *)
(* std::logic_error, hence an NSException.                                 *)
addDuplicate ==
  /\ at = "modify"
  /\ call.op = "save"
  /\ call.player.name \in StoredNames(view)
  /\ End

addNew ==
  /\ at = "modify"
  /\ call.op = "save"
  /\ call.player.name \notin StoredNames(view)
  /\ view' = Put(view, call.player)
  /\ at' = "commit"
  /\ UNCHANGED <<disk, stage, call, outcome, failed>>

addOrUpdate ==
  /\ at = "modify"
  /\ call.op = "update"
  /\ view' = Put(view, call.player)
  /\ at' = "commit"
  /\ UNCHANGED <<disk, stage, call, outcome, failed>>

remove ==
  /\ at = "modify"
  /\ call.op = "delete"
  /\ view' = Remove(view, call.name)
  /\ at' = "commit"
  /\ UNCHANGED <<disk, stage, call, outcome, failed>>

(* Mutant of commitWrite: the call answers before anything is stored.      *)
commitWriteLost ==
  /\ at = "commit"
  /\ stage' = "reading"
  /\ Return("done")
  /\ UNCHANGED <<disk, view, failed>>

commitWrite ==
  /\ at = "commit"
  /\ disk' = view
  /\ stage' = "reading"
  /\ Return("done")
  /\ UNCHANGED <<view, failed>>

(* The commit throws (no space, I/O error): write rethrows it as an        *)
(* NSError without cancelling, the data layer catches it and calls         *)
(* onFailed, and the transaction is still there.                           *)
commitWriteFails ==
  /\ at = "commit"
  /\ failed' = TRUE
  /\ Return("failed")
  /\ UNCHANGED <<disk, view, stage>>

(* The process is killed, or an exception other than those above is raised.*)
Kill ==
  /\ at # "ended"
  /\ End

(* A new launch opens the file: try! Realm(). *)
Launch ==
  /\ at = "ended"
  /\ view' = disk
  /\ stage' = "reading"
  /\ at' = "idle"
  /\ failed' = FALSE
  /\ UNCHANGED <<disk, call, outcome>>

Next ==
  \/ \E p \in Player : savePlayer(p) \/ updatePlayer(p)
  \/ \E n \in Names : deletePlayer(n)
  \/ DeleteMissing \/ beginWrite \/ beginWriteInTransaction
  \/ addDuplicate \/ addNew \/ addOrUpdate \/ remove
  \/ commitWrite \/ commitWriteFails
  \/ Kill \/ Launch

Spec == Init /\ [][Next]_vars

-----------------------------------------------------------------------------
(* Properties. *)

(* Names are a primary key, every link leads to an object and no object is *)
(* linked twice, in what is stored and in what the app sees, however calls *)
(* fail and the process ends (updates make new stats each time, deletions  *)
(* move the last row).                                                     *)
TablesWellFormed == WellFormed(disk) /\ WellFormed(view)

(* Between calls the app sees what is stored and no transaction is open,   *)
(* as long as no commit has failed since the launch; while a commit has    *)
(* failed the transaction stays open.                                      *)
OpenOnlyAfterFailure ==
  at = "idle" => IF failed THEN stage = "writing"
                           ELSE stage = "reading" /\ view = disk

(* The inductive invariant behind both: it also says what is known inside  *)
(* a call.                                                                 *)
CallInv ==
  /\ at \in {"begin", "modify", "commit"} <=> call # NoCall
  /\ at \in {"idle", "begin"} => (stage = "writing" <=> failed)
  /\ at \in {"modify", "commit"} => stage = "writing" /\ ~failed
  /\ at \in {"idle", "begin", "modify"} /\ ~failed => view = disk
  /\ at = "modify" => FoundIfDelete

IInv == TypeOK /\ TablesWellFormed /\ CallInv

(* What is about to be committed is the stored tables with the call in     *)
(* progress carried out and nothing else: no leftover of an earlier call   *)
(* whose commit failed slips in with it, and a save or a deletion finds    *)
(* on disk what it has found in the view.                                  *)
CommitsTheCall ==
  at = "commit" =>
    /\ call.op = "save" => call.player.name \notin StoredNames(disk)
    /\ call.op = "delete" => call.name \in StoredNames(disk)
    /\ view = IF call.op = "delete" THEN Remove(disk, call.name)
                                    ELSE Put(disk, call.player)

(* Tables, as the abstract book. *)
BookOf(t) ==
  [n \in StoredNames(t) |->
     LET p == LoadPlayer(t, n) IN [race |-> p.race, stats |-> p.stats]]

StoredBook == BookOf(disk)

Book == INSTANCE PlayerBook WITH
          book      <- StoredBook,
          asked     <- call,
          answer    <- outcome,
          NoRequest <- NoCall

(* The data layer implements the book: the stored players change only by   *)
(* the call in progress, by the whole of it, in one step, and a call that  *)
(* answers onFailed or never answers has changed nothing or everything.    *)
ImplementsBook == Book!Spec
=============================================================================
