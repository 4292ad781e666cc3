----------------------------- MODULE SyncFiles ------------------------------
(***************************************************************************)
(* What sync keeps on disk: the Realm files of the users, the rows of the  *)
(* metadata Realm about users and pending file actions, and the recovery   *)
(* directory. An error asks for a Realm to be deleted, or backed up and    *)
(* then deleted; that happens at the next launch, in SyncManager's         *)
(* configure, or at the application's request. The process can end between *)
(* any two changes of the disk. Each metadata row changes in a transaction *)
(* of its own.                                                             *)
(*                                                                         *)
(* A user whose row has been removed gets a directory of another name when *)
(* he logs in again: he counts as another user here.                       *)
(***************************************************************************)
EXTENDS Naturals

CONSTANTS
  Realms,     \* paths of Realm files
  Users,
  Owner,      \* whose directory a Realm is in
  Names,      \* paths in the recovery directory
  MaxContent  \* bound: versions of what is in a Realm file

ASSUME OwnerAssumption == Owner \in [Realms -> Users]
ASSUME BoundAssumption == MaxContent \in Nat

VARIABLES
  \* on disk
  file,      \* what is in a Realm file, 0 if there is none
  recovery,  \* the files of the recovery directory
  actions,   \* the file action metadata, by original name
  users,     \* the user metadata
  \* in memory
  process,   \* "off", "actions" and "users" in configure, "running"
  pending,   \* Realms whose actions are still to be run
  backup,    \* the Realm that is being backed up, and how far, or Nobody
  completed, \* Realms or users whose rows are to be removed
  \* not in the code
  written,   \* the last content written to a Realm
  diverged,  \* its content at the last error that promised a backup
  born,      \* its first content since the file was created
  excused,   \* Realms whose backup is no longer promised: the Realm is to be
             \* deleted by a later error, or with its user
  refused    \* Realms that could not be read for a backup in this launch

disk == <<file, recovery, actions, users>>
memory == <<process, pending, backup, completed>>
history == <<written, diverged, born, excused, refused>>
vars == <<disk, memory, history>>

Contents == 0 .. MaxContent
NoFile == [of |-> "none"]
NoAction == [do |-> "none"]
Delete == [do |-> "DeleteRealm"]
BackUp(n) == [do |-> "BackUpThenDeleteRealm", new_name |-> n]
Nobody == [step |-> "none"]

Copy(r, whole) ==
  [of |-> "copy", realm |-> r, from |-> born[r], content |-> file[r], whole |-> whole]

Copies ==
  [of : {"copy"}, realm : Realms, from : Contents, content : Contents, whole : BOOLEAN]

BackUps == [step : {"copying", "copied"}, realm : Realms, new_name : Names]

TypeOK ==
  /\ file \in [Realms -> Contents]
  /\ recovery \in [Names -> {NoFile} \cup Copies]
  /\ actions \in [Realms -> {NoAction, Delete} \cup {BackUp(n) : n \in Names}]
  /\ users \in [Users -> {"none", "no token", "active", "marked", "removed"}]
  /\ process \in {"off", "actions", "users", "running"}
  /\ pending \subseteq Realms /\ completed \subseteq Realms \cup Users
  /\ \/ backup = Nobody
     \/ /\ backup \in BackUps
        /\ recovery[backup.new_name] = Copy(backup.realm, backup.step = "copied")
  /\ written \in [Realms -> Contents] /\ diverged \in [Realms -> Contents]
  /\ born \in [Realms -> Contents]
  /\ \A r \in Realms : file[r] \in {0, written[r]}
  /\ excused \subseteq Realms /\ refused \subseteq Realms

Init ==
  /\ file = [r \in Realms |-> 0] /\ recovery = [n \in Names |-> NoFile]
  /\ actions = [r \in Realms |-> NoAction] /\ users = [u \in Users |-> "none"]
  /\ process = "off" /\ pending = {} /\ backup = Nobody /\ completed = {}
  /\ written = [r \in Realms |-> 0] /\ diverged = [r \in Realms |-> 0]
  /\ born = [r \in Realms |-> 0] /\ excused = {} /\ refused = {}

-----------------------------------------------------------------------------
(* run_file_action, for any pending action; `completed' if it returns true *)

RunDelete(r) ==
  /\ r \in pending /\ backup = Nobody /\ actions[r] = Delete
  /\ file' = [file EXCEPT ![r] = 0]
  /\ pending' = pending \ {r} /\ completed' = completed \cup {r}
  /\ UNCHANGED <<recovery, actions, users, process, backup, history>>

(* Mutant of NothingThere: the action is left for later.                   *)
NothingThereYet(r) ==
  /\ r \in pending /\ backup = Nobody /\ actions[r].do = "BackUpThenDeleteRealm"
  /\ file[r] = 0
  /\ pending' = pending \ {r}
  /\ UNCHANGED <<disk, process, backup, completed, history>>

(* There is nothing to back up. *)
NothingThere(r) ==
  /\ r \in pending /\ backup = Nobody /\ actions[r].do = "BackUpThenDeleteRealm"
  /\ file[r] = 0
  /\ pending' = pending \ {r} /\ completed' = completed \cup {r}
  /\ UNCHANGED <<disk, process, backup, history>>

(* The recovery file exists already: the action is left for later.         *)
NameTaken(r) ==
  /\ r \in pending /\ backup = Nobody /\ actions[r].do = "BackUpThenDeleteRealm"
  /\ file[r] # 0 /\ recovery[actions[r].new_name] # NoFile
  /\ pending' = pending \ {r}
  /\ UNCHANGED <<disk, process, backup, completed, history>>

(* Mutant of copy_realm_file: an existing recovery file is overwritten.    *)
copy_realm_fileOver(r) ==
  /\ r \in pending /\ backup = Nobody /\ actions[r].do = "BackUpThenDeleteRealm"
  /\ file[r] # 0
  /\ recovery' = [recovery EXCEPT ![actions[r].new_name] = Copy(r, FALSE)]
  /\ backup' = [step |-> "copying", realm |-> r, new_name |-> actions[r].new_name]
  /\ UNCHANGED <<file, actions, users, process, pending, completed, history>>

(* The copy fails before there is anything of it, ... *)
CopyRefused(r) ==
  /\ r \in pending /\ backup = Nobody /\ actions[r].do = "BackUpThenDeleteRealm"
  /\ file[r] # 0 /\ recovery[actions[r].new_name] = NoFile
  /\ pending' = pending \ {r} /\ refused' = refused \cup {r}
  /\ UNCHANGED <<disk, process, backup, completed, written, diverged, born, excused>>

(* ... or is under way, ... *)
copy_realm_file(r) ==
  /\ r \in pending /\ backup = Nobody /\ actions[r].do = "BackUpThenDeleteRealm"
  /\ file[r] # 0 /\ recovery[actions[r].new_name] = NoFile
  /\ recovery' = [recovery EXCEPT ![actions[r].new_name] = Copy(r, FALSE)]
  /\ backup' = [step |-> "copying", realm |-> r, new_name |-> actions[r].new_name]
  /\ UNCHANGED <<file, actions, users, process, pending, completed, history>>

(* ... is complete, ... *)
CopyEnds ==
  /\ backup.step = "copying"
  /\ recovery' = [recovery EXCEPT ![backup.new_name] = Copy(backup.realm, TRUE)]
  /\ backup' = [backup EXCEPT !.step = "copied"]
  /\ UNCHANGED <<file, actions, users, process, pending, completed, history>>

(* Mutant of CopyFails: the result is not looked at.                       *)
CopyFailsUnnoticed ==
  /\ backup.step = "copying"
  /\ backup' = [backup EXCEPT !.step = "copied"]
  /\ UNCHANGED <<disk, process, pending, completed, history>>

(* ... or fails, and what there is of it stays. *)
CopyFails ==
  /\ backup.step = "copying"
  /\ pending' = pending \ {backup.realm} /\ backup' = Nobody
  /\ UNCHANGED <<disk, process, completed, history>>

remove_realm ==
  /\ backup.step = "copied"
  /\ file' = [file EXCEPT ![backup.realm] = 0]
  /\ pending' = pending \ {backup.realm} /\ completed' = completed \cup {backup.realm}
  /\ backup' = Nobody
  /\ UNCHANGED <<recovery, actions, users, process, history>>

(* SyncFileActionMetadata::remove, once all the actions have been run. *)
removeAction(r) ==
  /\ r \in completed /\ pending = {}
  /\ actions' = [actions EXCEPT ![r] = NoAction]
  /\ completed' = completed \ {r}
  /\ UNCHANGED <<file, recovery, users, process, pending, backup, history>>

-----------------------------------------------------------------------------
(* Launching: SyncManager::configure. *)

configure ==
  /\ process = "off" /\ process' = "actions"
  /\ pending' = {r \in Realms : actions[r] # NoAction}
  /\ refused' = {}
  /\ UNCHANGED <<disk, backup, completed, written, diverged, born, excused>>

ActionsDone ==
  /\ process = "actions" /\ pending = {} /\ completed = {}
  /\ process' = "users"
  /\ UNCHANGED <<disk, pending, backup, completed, history>>

(* A directory that cannot be removed is left for another launch.          *)
remove_user_directory(u) ==
  /\ process = "users" /\ users[u] = "marked"
  /\ completed' = completed \cup {u}
  /\ file' = [r \in Realms |-> IF Owner[r] = u THEN 0 ELSE file[r]]
  /\ excused' = excused \cup {r \in Realms : Owner[r] = u}
  /\ UNCHANGED <<recovery, actions, users, process, pending, backup, written, diverged,
                 born, refused>>

removeUser(u) ==
  /\ process = "users" /\ u \in completed
  /\ completed' = completed \ {u}
  /\ users' = [users EXCEPT ![u] = "removed"]
  /\ UNCHANGED <<file, recovery, actions, process, pending, backup, history>>

Running ==
  /\ process = "users" /\ completed = {}
  /\ process' = "running"
  /\ UNCHANGED <<disk, pending, backup, completed, history>>

(* The process ends, before, within or after the launch. *)
Crash ==
  /\ process # "off"
  /\ process' = "off" /\ pending' = {} /\ backup' = Nobody /\ completed' = {}
  /\ UNCHANGED <<disk, history>>

-----------------------------------------------------------------------------
(* The running application. *)

Uses(r) == process = "running" /\ users[Owner[r]] = "active" /\ r \notin pending \cup completed

(* A Realm is opened or written to. *)
Write(r) ==
  /\ Uses(r) /\ written[r] < MaxContent
  /\ written' = [written EXCEPT ![r] = @ + 1]
  /\ file' = [file EXCEPT ![r] = written'[r]]
  /\ born' = IF file[r] = 0 THEN [born EXCEPT ![r] = written'[r]] ELSE born
  /\ UNCHANGED <<recovery, actions, users, memory, diverged, excused, refused>>

(* permission_denied replaces whatever action the Realm has.               *)
markForDeletion(r) ==
  /\ Uses(r) /\ file[r] # 0
  /\ actions' = [actions EXCEPT ![r] = Delete]
  /\ excused' = excused \cup {r}
  /\ UNCHANGED <<file, recovery, users, memory, written, diverged, born, refused>>

(* diverging_histories and the like. The name reserved is one that no file *)
(* has, though another action may have it.                                 *)
markForBackup(r) ==
  /\ Uses(r) /\ file[r] # 0
  /\ \E n \in Names :
       /\ recovery[n] = NoFile
       /\ actions' = [actions EXCEPT ![r] = BackUp(n)]
  /\ diverged' = [diverged EXCEPT ![r] = file[r]]
  /\ excused' = excused \ {r}
  /\ UNCHANGED <<file, recovery, users, memory, written, born, refused>>

(* The application has closed the Realm and does not wait for a launch. *)
immediately_run_file_actions(r) ==
  /\ process = "running" /\ pending \cup completed = {} /\ actions[r] # NoAction
  /\ pending' = {r}
  /\ UNCHANGED <<disk, process, backup, completed, history>>

(* A user who is logging in has a row first and a token then. *)
get_or_make_user_metadata(u) ==
  /\ process = "running" /\ users[u] \in {"none", "marked"}
  /\ users' = [users EXCEPT ![u] = IF @ = "none" THEN "no token" ELSE "active"]
  /\ UNCHANGED <<file, recovery, actions, memory, history>>

set_user_token(u) ==
  /\ process = "running" /\ users[u] = "no token"
  /\ users' = [users EXCEPT ![u] = "active"]
  /\ UNCHANGED <<file, recovery, actions, memory, history>>

mark_for_removal(u) ==
  /\ process = "running" /\ users[u] = "active"
  /\ users' = [users EXCEPT ![u] = "marked"]
  /\ UNCHANGED <<file, recovery, actions, memory, history>>

Next ==
  \/ \E r \in Realms :
       \/ RunDelete(r) \/ NothingThere(r) \/ NameTaken(r) \/ copy_realm_file(r)
       \/ CopyRefused(r) \/ removeAction(r)
       \/ Write(r) \/ markForDeletion(r) \/ markForBackup(r)
       \/ immediately_run_file_actions(r)
  \/ CopyEnds \/ CopyFails \/ remove_realm
  \/ configure \/ ActionsDone \/ Running \/ Crash
  \/ \E u \in Users :
       \/ remove_user_directory(u) \/ removeUser(u)
       \/ get_or_make_user_metadata(u) \/ set_user_token(u) \/ mark_for_removal(u)

Spec == Init /\ [][Next]_vars

-----------------------------------------------------------------------------
(* Properties. *)

Backed(r) ==
  \E n \in Names :
     /\ recovery[n] # NoFile /\ recovery[n].realm = r /\ recovery[n].whole
     /\ diverged[r] \in recovery[n].from .. recovery[n].content

(* After an error that promised a backup, what the Realm held at the time  *)
(* is never lost: it is in the Realm file or in a complete recovery file,  *)
(* at whatever point the process ends (run_file_action), unless a later    *)
(* error or the user's log-out has the Realm deleted.                      *)
NothingUnsavedLost ==
  \A r \in Realms :
     diverged[r] > 0 /\ r \notin excused =>
       diverged[r] \in born[r] .. file[r] \/ Backed(r)

(* Why nothing is lost, with TypeOK: the Realm that is being backed up is  *)
(* the one whose action is run; the actions have been run when the users'  *)
(* directories are removed; a Realm is deleted without a backup only when  *)
(* none is promised; and the contents of a file are consecutive.           *)
BackupIsPending ==
  /\ backup # Nobody => backup.realm \in pending
  /\ process \in {"off", "users"} => backup = Nobody /\ pending = {}

DeleteIsExcused == \A r \in Realms : actions[r] = Delete => r \in excused

BornBefore == \A r \in Realms : born[r] <= written[r] /\ diverged[r] <= written[r]

IInv ==
  /\ TypeOK /\ BackupIsPending /\ DeleteIsExcused /\ BornBefore
  /\ NothingUnsavedLost

(* An action that a launch leaves undone is one whose Realm could not be   *)
(* read, or that a copy, complete or not, stands in the way of: everything *)
(* else that was pending is done before the application runs.              *)
LeftoverIsBlocked ==
  [][\A r \in Realms :
        process = "users" /\ process' = "running" /\ actions[r] # NoAction =>
          /\ actions[r].do = "BackUpThenDeleteRealm"
          /\ r \in refused \/ recovery[actions[r].new_name] # NoFile]_vars
=============================================================================
