--------------------------- MODULE SyncFilesProofs --------------------------
(***************************************************************************)
(* No backup that has been promised is lost, for every set of Realms,      *)
(* users and recovery names, and wherever the process ends.                *)
(***************************************************************************)
EXTENDS SyncFiles, TLAPS

(* The values that the records are told apart by. *)
LEMMA Kinds ==
  /\ NoAction.do = "none" /\ Delete.do = "DeleteRealm"
  /\ \A n \in Names : BackUp(n).do = "BackUpThenDeleteRealm" /\ BackUp(n).new_name = n
  /\ NoFile \notin Copies /\ Nobody \notin BackUps /\ Nobody.step = "none"
BY DEF NoAction, Delete, BackUp, NoFile, Copies, Nobody, BackUps

(* Of the backup under way. *)
LEMMA BackupTypes ==
  ASSUME TypeOK, backup # Nobody
  PROVE  /\ backup \in BackUps /\ backup.realm \in Realms /\ backup.new_name \in Names
         /\ backup.step \in {"copying", "copied"}
         /\ recovery[backup.new_name] = Copy(backup.realm, backup.step = "copied")
BY DEF TypeOK, BackUps

(* The contents of the files and of the histories. *)
LEMMA ContentRange ==
  /\ 0 \in Contents /\ Contents \subseteq Nat
  /\ \A c \in Contents : c < MaxContent => c + 1 \in Contents
BY BoundAssumption DEF Contents

LEMMA ContentTypes ==
  ASSUME TypeOK, NEW q \in Realms
  PROVE  /\ written[q] \in Contents /\ born[q] \in Contents /\ diverged[q] \in Contents
         /\ file[q] \in {0, written[q]}
         /\ written[q] \in Nat /\ born[q] \in Nat /\ diverged[q] \in Nat /\ file[q] \in Nat
BY ContentRange DEF TypeOK

(* A copy has the contents of its Realm. *)
LEMMA CopyTypes ==
  ASSUME TypeOK, NEW r \in Realms
  PROVE  /\ \A w \in BOOLEAN :
              /\ Copy(r, w) \in Copies /\ Copy(r, w).realm = r
              /\ Copy(r, w).from = born[r] /\ Copy(r, w).content = file[r]
         /\ Copy(r, TRUE).whole /\ ~ Copy(r, FALSE).whole
BY DEF TypeOK, Copy, Copies

(* The initial states satisfy the invariant. *)
LEMMA InitIInv == Init => IInv
BY BoundAssumption
   DEF Init, IInv, TypeOK, BackupIsPending, DeleteIsExcused, BornBefore,
       NothingUnsavedLost, Contents, NoAction, Delete

(* An action whose Realm is to be backed up has a name in the recovery     *)
(* directory for it.                                                       *)
LEMMA ActionTypes ==
  ASSUME TypeOK, NEW r \in Realms, actions[r].do = "BackUpThenDeleteRealm"
  PROVE  actions[r].new_name \in Names /\ actions[r] # Delete
<1>1. actions[r] \in {NoAction, Delete} \cup {BackUp(n) : n \in Names}
  BY DEF TypeOK
<1>2. actions[r] # NoAction /\ actions[r] # Delete
  BY Kinds, "BackUpThenDeleteRealm" # "none", "BackUpThenDeleteRealm" # "DeleteRealm"
<1> QED
  BY <1>1, <1>2, Kinds

(* What CopyEnds does. *)
LEMMA CopyEndsEffect ==
  ASSUME IInv, CopyEnds
  PROVE  /\ backup.realm \in Realms /\ backup.new_name \in Names
         /\ backup' \in BackUps /\ backup' # Nobody
         /\ backup'.realm = backup.realm /\ backup'.new_name = backup.new_name
         /\ backup'.step = "copied"
         /\ recovery[backup.new_name] = Copy(backup.realm, FALSE)
         /\ recovery' = [recovery EXCEPT ![backup.new_name] = Copy(backup.realm, TRUE)]
<1>1. backup # Nobody
  BY Kinds DEF CopyEnds
<1>2. backup \in BackUps /\ backup.realm \in Realms /\ backup.new_name \in Names
      /\ recovery[backup.new_name] = Copy(backup.realm, FALSE)
  BY <1>1, BackupTypes DEF CopyEnds, IInv
<1>3. backup' \in BackUps /\ backup'.realm = backup.realm
      /\ backup'.new_name = backup.new_name /\ backup'.step = "copied"
  BY <1>2 DEF CopyEnds, BackUps
<1> QED
  BY <1>2, <1>3, Kinds DEF CopyEnds

(* A complete backup stays one. *)
LEMMA BackedKept ==
  ASSUME NEW q \in Realms, Backed(q), diverged'[q] = diverged[q],
         \A n \in Names : recovery[n] # NoFile /\ recovery[n].whole => recovery'[n] = recovery[n]
  PROVE  Backed(q)'
BY DEF Backed

(* No step disturbs which Realm is backed up, and when. *)
LEMMA NextBackupIsPending ==
  ASSUME IInv, Next PROVE BackupIsPending'
<1> USE DEF disk, memory, history, IInv, BackupIsPending
<1>1. ASSUME NEW r \in Realms, RunDelete(r) PROVE BackupIsPending'
  BY <1>1, Kinds DEF RunDelete
<1>2. ASSUME NEW r \in Realms, NothingThere(r) PROVE BackupIsPending'
  BY <1>2, Kinds DEF NothingThere
<1>3. ASSUME NEW r \in Realms, NameTaken(r) PROVE BackupIsPending'
  BY <1>3, Kinds DEF NameTaken
<1>4. ASSUME NEW r \in Realms, CopyRefused(r) PROVE BackupIsPending'
  BY <1>4, Kinds DEF CopyRefused
<1>5. ASSUME NEW r \in Realms, copy_realm_file(r) PROVE BackupIsPending'
  BY <1>5, Kinds DEF copy_realm_file
<1>6. ASSUME NEW r \in Realms, removeAction(r) PROVE BackupIsPending'
  BY <1>6, Kinds DEF removeAction
<1>7. ASSUME NEW r \in Realms, Write(r) PROVE BackupIsPending'
  BY <1>7, Kinds DEF Write, Uses
<1>8. ASSUME NEW r \in Realms, markForDeletion(r) PROVE BackupIsPending'
  BY <1>8, Kinds DEF markForDeletion, Uses
<1>9. ASSUME NEW r \in Realms, markForBackup(r) PROVE BackupIsPending'
  BY <1>9, Kinds DEF markForBackup, Uses
<1>10. ASSUME NEW r \in Realms, immediately_run_file_actions(r) PROVE BackupIsPending'
  BY <1>10, Kinds DEF immediately_run_file_actions
<1>11. CASE CopyEnds
  BY <1>11, CopyEndsEffect, Kinds DEF CopyEnds
<1>12. CASE CopyFails
  BY <1>12, Kinds DEF CopyFails
<1>13. CASE remove_realm
  BY <1>13, Kinds DEF remove_realm
<1>14. CASE configure
  BY <1>14, Kinds DEF configure
<1>15. CASE ActionsDone
  BY <1>15, Kinds DEF ActionsDone
<1>16. CASE Running
  BY <1>16, Kinds DEF Running
<1>17. CASE Crash
  BY <1>17, Kinds DEF Crash
<1>18. ASSUME NEW u \in Users, remove_user_directory(u) PROVE BackupIsPending'
  BY <1>18, Kinds DEF remove_user_directory
<1>19. ASSUME NEW u \in Users, removeUser(u) PROVE BackupIsPending'
  BY <1>19, Kinds DEF removeUser
<1>20. ASSUME NEW u \in Users, get_or_make_user_metadata(u) PROVE BackupIsPending'
  BY <1>20, Kinds DEF get_or_make_user_metadata
<1>21. ASSUME NEW u \in Users, set_user_token(u) PROVE BackupIsPending'
  BY <1>21, Kinds DEF set_user_token
<1>22. ASSUME NEW u \in Users, mark_for_removal(u) PROVE BackupIsPending'
  BY <1>22, Kinds DEF mark_for_removal
<1> QED
  BY <1>1, <1>2, <1>3, <1>4, <1>5, <1>6, <1>7, <1>8, <1>9, <1>10, <1>11,
     <1>12, <1>13, <1>14, <1>15, <1>16, <1>17, <1>18, <1>19, <1>20, <1>21, <1>22
  DEF Next

(* No step adds an action that deletes a Realm whose backup is promised. *)
LEMMA NextDeleteIsExcused ==
  ASSUME IInv, Next PROVE DeleteIsExcused'
<1> USE DEF disk, memory, history, IInv, TypeOK, DeleteIsExcused
<1>1. ASSUME NEW r \in Realms, RunDelete(r) PROVE DeleteIsExcused'
  BY <1>1, Kinds DEF RunDelete
<1>2. ASSUME NEW r \in Realms, NothingThere(r) PROVE DeleteIsExcused'
  BY <1>2, Kinds DEF NothingThere
<1>3. ASSUME NEW r \in Realms, NameTaken(r) PROVE DeleteIsExcused'
  BY <1>3, Kinds DEF NameTaken
<1>4. ASSUME NEW r \in Realms, CopyRefused(r) PROVE DeleteIsExcused'
  BY <1>4, Kinds DEF CopyRefused
<1>5. ASSUME NEW r \in Realms, copy_realm_file(r) PROVE DeleteIsExcused'
  BY <1>5, Kinds DEF copy_realm_file
<1>6. ASSUME NEW r \in Realms, removeAction(r) PROVE DeleteIsExcused'
  BY <1>6, Kinds DEF removeAction
<1>7. ASSUME NEW r \in Realms, Write(r) PROVE DeleteIsExcused'
  BY <1>7, Kinds DEF Write, Uses
<1>8. ASSUME NEW r \in Realms, markForDeletion(r) PROVE DeleteIsExcused'
  BY <1>8, Kinds DEF markForDeletion, Uses
<1>9. ASSUME NEW r \in Realms, markForBackup(r) PROVE DeleteIsExcused'
  <2>1. PICK n \in Names : actions' = [actions EXCEPT ![r] = BackUp(n)]
    BY <1>9 DEF markForBackup
  <2>2. BackUp(n) # Delete
    BY Kinds
  <2> QED
    BY <1>9, <2>1, <2>2 DEF markForBackup
<1>10. ASSUME NEW r \in Realms, immediately_run_file_actions(r) PROVE DeleteIsExcused'
  BY <1>10, Kinds DEF immediately_run_file_actions
<1>11. CASE CopyEnds
  BY <1>11, Kinds DEF CopyEnds
<1>12. CASE CopyFails
  BY <1>12, Kinds DEF CopyFails
<1>13. CASE remove_realm
  BY <1>13, Kinds DEF remove_realm
<1>14. CASE configure
  BY <1>14, Kinds DEF configure
<1>15. CASE ActionsDone
  BY <1>15, Kinds DEF ActionsDone
<1>16. CASE Running
  BY <1>16, Kinds DEF Running
<1>17. CASE Crash
  BY <1>17, Kinds DEF Crash
<1>18. ASSUME NEW u \in Users, remove_user_directory(u) PROVE DeleteIsExcused'
  BY <1>18, Kinds DEF remove_user_directory
<1>19. ASSUME NEW u \in Users, removeUser(u) PROVE DeleteIsExcused'
  BY <1>19, Kinds DEF removeUser
<1>20. ASSUME NEW u \in Users, get_or_make_user_metadata(u) PROVE DeleteIsExcused'
  BY <1>20, Kinds DEF get_or_make_user_metadata
<1>21. ASSUME NEW u \in Users, set_user_token(u) PROVE DeleteIsExcused'
  BY <1>21, Kinds DEF set_user_token
<1>22. ASSUME NEW u \in Users, mark_for_removal(u) PROVE DeleteIsExcused'
  BY <1>22, Kinds DEF mark_for_removal
<1> QED
  BY <1>1, <1>2, <1>3, <1>4, <1>5, <1>6, <1>7, <1>8, <1>9, <1>10, <1>11,
     <1>12, <1>13, <1>14, <1>15, <1>16, <1>17, <1>18, <1>19, <1>20, <1>21, <1>22
  DEF Next

(* No step gives a file contents that were not written, or in another order. *)
LEMMA NextBornBefore ==
  ASSUME IInv, Next PROVE BornBefore'
<1> USE DEF disk, memory, history, IInv, TypeOK, BornBefore
<1>1. ASSUME NEW r \in Realms, RunDelete(r) PROVE BornBefore'
  BY <1>1 DEF RunDelete
<1>2. ASSUME NEW r \in Realms, NothingThere(r) PROVE BornBefore'
  BY <1>2 DEF NothingThere
<1>3. ASSUME NEW r \in Realms, NameTaken(r) PROVE BornBefore'
  BY <1>3 DEF NameTaken
<1>4. ASSUME NEW r \in Realms, CopyRefused(r) PROVE BornBefore'
  BY <1>4 DEF CopyRefused
<1>5. ASSUME NEW r \in Realms, copy_realm_file(r) PROVE BornBefore'
  BY <1>5 DEF copy_realm_file
<1>6. ASSUME NEW r \in Realms, removeAction(r) PROVE BornBefore'
  BY <1>6 DEF removeAction
<1>7. ASSUME NEW r \in Realms, Write(r) PROVE BornBefore'
  <2> SUFFICES ASSUME NEW q \in Realms
               PROVE  born'[q] <= written'[q] /\ diverged'[q] <= written'[q]
    OBVIOUS
  <2>1. written[q] \in Nat /\ born[q] \in Nat /\ diverged[q] \in Nat
        /\ born[q] <= written[q] /\ diverged[q] <= written[q] /\ diverged' = diverged
    BY <1>7, ContentTypes DEF Write
  <2>2. CASE q = r
    <3>1. written'[q] = written[q] + 1 /\ born'[q] \in {born[q], written[q] + 1}
      BY <1>7, <2>2 DEF Write
    <3> HIDE DEF IInv
    <3> QED
      BY <2>1, <3>1
  <2>3. CASE q # r
    BY <1>7, <2>1, <2>3 DEF Write
  <2> QED
    BY <2>2, <2>3
<1>8. ASSUME NEW r \in Realms, markForDeletion(r) PROVE BornBefore'
  BY <1>8 DEF markForDeletion, Uses
<1>9. ASSUME NEW r \in Realms, markForBackup(r) PROVE BornBefore'
  <2> SUFFICES ASSUME NEW q \in Realms
               PROVE  born'[q] <= written'[q] /\ diverged'[q] <= written'[q]
    OBVIOUS
  <2>1. written[q] \in Nat /\ written' = written /\ born' = born
        /\ diverged[q] \in Nat /\ born[q] <= written[q] /\ diverged[q] <= written[q]
        /\ diverged'[q] \in {diverged[q], file[q]} /\ file[q] \in {0, written[q]}
    BY <1>9, ContentTypes DEF markForBackup
  <2> HIDE DEF IInv
  <2> QED
    BY <2>1
<1>10. ASSUME NEW r \in Realms, immediately_run_file_actions(r) PROVE BornBefore'
  BY <1>10 DEF immediately_run_file_actions
<1>11. CASE CopyEnds
  BY <1>11 DEF CopyEnds
<1>12. CASE CopyFails
  BY <1>12 DEF CopyFails
<1>13. CASE remove_realm
  BY <1>13 DEF remove_realm
<1>14. CASE configure
  BY <1>14 DEF configure
<1>15. CASE ActionsDone
  BY <1>15 DEF ActionsDone
<1>16. CASE Running
  BY <1>16 DEF Running
<1>17. CASE Crash
  BY <1>17 DEF Crash
<1>18. ASSUME NEW u \in Users, remove_user_directory(u) PROVE BornBefore'
  BY <1>18 DEF remove_user_directory
<1>19. ASSUME NEW u \in Users, removeUser(u) PROVE BornBefore'
  BY <1>19 DEF removeUser
<1>20. ASSUME NEW u \in Users, get_or_make_user_metadata(u) PROVE BornBefore'
  BY <1>20 DEF get_or_make_user_metadata
<1>21. ASSUME NEW u \in Users, set_user_token(u) PROVE BornBefore'
  BY <1>21 DEF set_user_token
<1>22. ASSUME NEW u \in Users, mark_for_removal(u) PROVE BornBefore'
  BY <1>22 DEF mark_for_removal
<1> QED
  BY <1>1, <1>2, <1>3, <1>4, <1>5, <1>6, <1>7, <1>8, <1>9, <1>10, <1>11,
     <1>12, <1>13, <1>14, <1>15, <1>16, <1>17, <1>18, <1>19, <1>20, <1>21, <1>22
  DEF Next

(* No step leaves the types. *)
LEMMA NextTypeOK ==
  ASSUME IInv, Next PROVE TypeOK'
<1> USE DEF disk, memory, history, IInv, TypeOK, BackupIsPending, Copy
<1>1. ASSUME NEW r \in Realms, RunDelete(r) PROVE TypeOK'
  <2>1. file' \in [Realms -> Contents] /\ \A q \in Realms : file'[q] \in {0, written'[q]}
    BY <1>1, ContentRange DEF RunDelete
  <2> QED
    BY <1>1, <2>1 DEF RunDelete
<1>2. ASSUME NEW r \in Realms, NothingThere(r) PROVE TypeOK'
  BY <1>2, Kinds DEF NothingThere
<1>3. ASSUME NEW r \in Realms, NameTaken(r) PROVE TypeOK'
  BY <1>3, Kinds DEF NameTaken
<1>4. ASSUME NEW r \in Realms, CopyRefused(r) PROVE TypeOK'
  BY <1>4, Kinds DEF CopyRefused
<1>5. ASSUME NEW r \in Realms, copy_realm_file(r) PROVE TypeOK'
  <2> DEFINE n == actions[r].new_name
  <2>1. n \in Names
    BY <1>5, ActionTypes DEF copy_realm_file
  <2>2. recovery' = [recovery EXCEPT ![n] = Copy(r, FALSE)] /\ Copy(r, FALSE) \in Copies
    BY <1>5, CopyTypes DEF copy_realm_file
  <2>3. /\ backup' \in BackUps /\ backup'.realm = r /\ backup'.new_name = n
        /\ (backup'.step = "copied") = FALSE
    BY <1>5, <2>1 DEF copy_realm_file, BackUps
  <2>4. recovery'[backup'.new_name] = Copy(backup'.realm, backup'.step = "copied")
    BY <2>1, <2>2, <2>3
  <2> QED
    BY <1>5, <2>1, <2>2, <2>3, <2>4 DEF copy_realm_file, Copy
<1>6. ASSUME NEW r \in Realms, removeAction(r) PROVE TypeOK'
  BY <1>6, Kinds DEF removeAction
<1>7. ASSUME NEW r \in Realms, Write(r) PROVE TypeOK'
  <2>1. written' \in [Realms -> Contents]
    <3>1. written[r] + 1 \in Contents
      BY <1>7, ContentTypes, ContentRange DEF Write
    <3> QED
      BY <1>7, <3>1 DEF Write
  <2>2. file' \in [Realms -> Contents] /\ born' \in [Realms -> Contents]
    BY <1>7, <2>1 DEF Write
  <2>3. \A q \in Realms : file'[q] \in {0, written'[q]}
    BY <1>7 DEF Write
  <2>4. backup # Nobody => backup.realm # r /\ Copy(backup.realm, backup.step = "copied")'
                                             = Copy(backup.realm, backup.step = "copied")
    BY <1>7, BackupTypes DEF Write, Uses, BackupIsPending, Copy
  <2> QED
    BY <1>7, <2>1, <2>2, <2>3, <2>4 DEF Write, Copy
<1>8. ASSUME NEW r \in Realms, markForDeletion(r) PROVE TypeOK'
  BY <1>8, Kinds DEF markForDeletion, Copy
<1>9. ASSUME NEW r \in Realms, markForBackup(r) PROVE TypeOK'
  <2>1. actions' \in [Realms -> {NoAction, Delete} \cup {BackUp(n) : n \in Names}]
    <3>1. PICK n \in Names : actions' = [actions EXCEPT ![r] = BackUp(n)]
      BY <1>9 DEF markForBackup
    <3>2. actions \in [Realms -> {NoAction, Delete} \cup {BackUp(m) : m \in Names}]
      OBVIOUS
    <3> HIDE DEF IInv
    <3> QED
      BY <3>1, <3>2
  <2>2. diverged' \in [Realms -> Contents]
    BY <1>9 DEF markForBackup
  <2> QED
    BY <1>9, <2>1, <2>2 DEF markForBackup
<1>10. ASSUME NEW r \in Realms, immediately_run_file_actions(r) PROVE TypeOK'
  BY <1>10, Kinds DEF immediately_run_file_actions
<1>11. CASE CopyEnds
  <2>1. recovery' \in [Names -> {NoFile} \cup Copies]
    BY CopyEndsEffect, CopyTypes, <1>11
  <2>2. recovery'[backup'.new_name] = Copy(backup'.realm, TRUE)
    BY CopyEndsEffect, <1>11
  <2>3. Copy(backup'.realm, TRUE) = Copy(backup.realm, TRUE)'
    BY CopyEndsEffect, <1>11 DEF Copy, CopyEnds
  <2> QED
    BY <1>11, <2>1, <2>2, <2>3, CopyEndsEffect DEF CopyEnds, Copy
<1>12. CASE CopyFails
  BY <1>12, Kinds DEF CopyFails
<1>13. CASE remove_realm
  <2>1. backup.realm \in Realms
    BY <1>13, Kinds, BackupTypes DEF remove_realm
  <2>2. file' \in [Realms -> Contents] /\ \A q \in Realms : file'[q] \in {0, written'[q]}
    BY <1>13, <2>1, ContentRange DEF remove_realm
  <2> QED
    BY <1>13, <2>1, <2>2 DEF remove_realm
<1>14. CASE configure
  BY <1>14, Kinds DEF configure
<1>15. CASE ActionsDone
  BY <1>15, Kinds DEF ActionsDone
<1>16. CASE Running
  BY <1>16, Kinds DEF Running
<1>17. CASE Crash
  BY <1>17, Kinds DEF Crash
<1>18. ASSUME NEW u \in Users, remove_user_directory(u) PROVE TypeOK'
  <2>1. backup = Nobody
    BY <1>18 DEF remove_user_directory, BackupIsPending
  <2>2. file' \in [Realms -> Contents] /\ \A q \in Realms : file'[q] \in {0, written'[q]}
    BY <1>18, ContentRange DEF remove_user_directory
  <2> QED
    BY <1>18, <2>1, <2>2 DEF remove_user_directory
<1>19. ASSUME NEW u \in Users, removeUser(u) PROVE TypeOK'
  BY <1>19, Kinds DEF removeUser
<1>20. ASSUME NEW u \in Users, get_or_make_user_metadata(u) PROVE TypeOK'
  BY <1>20, Kinds DEF get_or_make_user_metadata
<1>21. ASSUME NEW u \in Users, set_user_token(u) PROVE TypeOK'
  BY <1>21, Kinds DEF set_user_token
<1>22. ASSUME NEW u \in Users, mark_for_removal(u) PROVE TypeOK'
  BY <1>22, Kinds DEF mark_for_removal
<1> QED
  BY <1>1, <1>2, <1>3, <1>4, <1>5, <1>6, <1>7, <1>8, <1>9, <1>10, <1>11,
     <1>12, <1>13, <1>14, <1>15, <1>16, <1>17, <1>18, <1>19, <1>20, <1>21, <1>22
  DEF Next

(* No step loses what is promised: the recovery files stay, and a Realm file *)
(* goes when there is a copy of it or none is promised.                      *)
LEMMA NextNothingUnsavedLost ==
  ASSUME IInv, Next PROVE NothingUnsavedLost'
<1> USE DEF disk, memory, history, IInv, NothingUnsavedLost, Backed
<1>1. ASSUME NEW r \in Realms, RunDelete(r) PROVE NothingUnsavedLost'
  <2>1. r \in excused /\ excused' = excused
    BY <1>1 DEF RunDelete, DeleteIsExcused
  <2>2. \A q \in Realms : q # r => file'[q] = file[q]
    BY <1>1 DEF RunDelete, TypeOK
  <2> QED
    BY <1>1, <2>1, <2>2 DEF RunDelete
<1>2. ASSUME NEW r \in Realms, NothingThere(r) PROVE NothingUnsavedLost'
  BY <1>2, Kinds DEF NothingThere
<1>3. ASSUME NEW r \in Realms, NameTaken(r) PROVE NothingUnsavedLost'
  BY <1>3, Kinds DEF NameTaken
<1>4. ASSUME NEW r \in Realms, CopyRefused(r) PROVE NothingUnsavedLost'
  BY <1>4, Kinds DEF CopyRefused
<1>5. ASSUME NEW r \in Realms, copy_realm_file(r) PROVE NothingUnsavedLost'
  <2>1. \A n \in Names : recovery[n] # NoFile /\ recovery[n].whole => recovery'[n] = recovery[n]
    BY <1>5, ActionTypes DEF copy_realm_file, TypeOK
  <2>2. \A q \in Realms : Backed(q) => Backed(q)'
    BY <1>5, <2>1, BackedKept DEF copy_realm_file
  <2> HIDE DEF Backed
  <2> QED
    BY <1>5, <2>2 DEF copy_realm_file
<1>6. ASSUME NEW r \in Realms, removeAction(r) PROVE NothingUnsavedLost'
  BY <1>6, Kinds DEF removeAction
<1>7. ASSUME NEW r \in Realms, Write(r) PROVE NothingUnsavedLost'
  <2>1. ASSUME NEW q \in Realms, diverged[q] > 0, diverged[q] \in born[q] .. file[q]
        PROVE  diverged[q] \in born'[q] .. file'[q]
    <3>1. /\ file[q] = written[q] /\ file[q] # 0
          /\ file[q] \in Nat /\ born[q] \in Nat /\ diverged[q] \in Nat
      BY <2>1, ContentTypes
    <3>2. born'[q] = born[q] /\ file'[q] \in {file[q], file[q] + 1}
      BY <1>7, <3>1 DEF Write, TypeOK
    <3> HIDE DEF IInv
    <3> QED
      BY <2>1, <3>1, <3>2
  <2> QED
    BY <1>7, <2>1 DEF Write
<1>8. ASSUME NEW r \in Realms, markForDeletion(r) PROVE NothingUnsavedLost'
  BY <1>8, Kinds DEF markForDeletion, Uses
<1>9. ASSUME NEW r \in Realms, markForBackup(r) PROVE NothingUnsavedLost'
  <2>1. \A q \in Realms : q # r => diverged'[q] = diverged[q]
    BY <1>9 DEF markForBackup, TypeOK
  <2>2. diverged'[r] = file[r] /\ file[r] \in born[r] .. file[r]
    <3>1. diverged'[r] = file[r] /\ file[r] # 0
      BY <1>9 DEF markForBackup, TypeOK
    <3>2. file[r] = written[r] /\ born[r] <= written[r] /\ born[r] \in Nat /\ written[r] \in Nat
      BY <3>1, ContentTypes DEF BornBefore
    <3> HIDE DEF IInv
    <3> QED
      BY <3>1, <3>2
  <2> QED
    BY <1>9, <2>1, <2>2 DEF markForBackup
<1>10. ASSUME NEW r \in Realms, immediately_run_file_actions(r) PROVE NothingUnsavedLost'
  BY <1>10, Kinds DEF immediately_run_file_actions
<1>11. CASE CopyEnds
  <2>1. \A n \in Names : recovery[n] # NoFile /\ recovery[n].whole => recovery'[n] = recovery[n]
    <3>1. ~ recovery[backup.new_name].whole
      BY <1>11, CopyEndsEffect, CopyTypes
    <3> QED
      BY <1>11, <3>1, CopyEndsEffect DEF TypeOK
  <2>2. \A q \in Realms : Backed(q) => Backed(q)'
    BY <1>11, <2>1, BackedKept DEF CopyEnds
  <2> HIDE DEF Backed
  <2> QED
    BY <1>11, <2>2 DEF CopyEnds
<1>12. CASE CopyFails
  BY <1>12, Kinds DEF CopyFails
<1>13. CASE remove_realm
  <2>0. PICK b \in Realms : b = backup.realm
    BY <1>13, Kinds, BackupTypes DEF remove_realm
  <2>1. /\ backup.new_name \in Names
        /\ recovery[backup.new_name] = Copy(b, TRUE)
    BY <1>13, <2>0, Kinds, BackupTypes DEF remove_realm
  <2>2. \A q \in Realms : q # b => file'[q] = file[q]
    BY <1>13, <2>0 DEF remove_realm, TypeOK
  <2>3. diverged[b] \in born[b] .. file[b] => Backed(b)'
    <3> DEFINE c == Copy(b, TRUE)
    <3>1. c \in Copies /\ c.realm = b /\ c.whole /\ c.from = born[b] /\ c.content = file[b]
      BY CopyTypes
    <3>2. c # NoFile /\ recovery' = recovery /\ diverged' = diverged
      BY <1>13, <3>1, Kinds DEF remove_realm
    <3> HIDE DEF IInv
    <3> QED
      BY <2>1, <3>1, <3>2
  <2>4. \A q \in Realms : Backed(q) => Backed(q)'
    BY <1>13 DEF remove_realm
  <2>5. diverged' = diverged /\ excused' = excused /\ born' = born
    BY <1>13 DEF remove_realm
  <2> HIDE DEF Backed
  <2> QED
    BY <2>1, <2>2, <2>3, <2>4, <2>5
<1>14. CASE configure
  BY <1>14, Kinds DEF configure
<1>15. CASE ActionsDone
  BY <1>15, Kinds DEF ActionsDone
<1>16. CASE Running
  BY <1>16, Kinds DEF Running
<1>17. CASE Crash
  BY <1>17, Kinds DEF Crash
<1>18. ASSUME NEW u \in Users, remove_user_directory(u) PROVE NothingUnsavedLost'
  <2>1. \A q \in Realms : q \notin excused' => q \notin excused /\ file'[q] = file[q]
    BY <1>18 DEF remove_user_directory
  <2> QED
    BY <1>18, <2>1 DEF remove_user_directory
<1>19. ASSUME NEW u \in Users, removeUser(u) PROVE NothingUnsavedLost'
  BY <1>19, Kinds DEF removeUser
<1>20. ASSUME NEW u \in Users, get_or_make_user_metadata(u) PROVE NothingUnsavedLost'
  BY <1>20, Kinds DEF get_or_make_user_metadata
<1>21. ASSUME NEW u \in Users, set_user_token(u) PROVE NothingUnsavedLost'
  BY <1>21, Kinds DEF set_user_token
<1>22. ASSUME NEW u \in Users, mark_for_removal(u) PROVE NothingUnsavedLost'
  BY <1>22, Kinds DEF mark_for_removal
<1> QED
  BY <1>1, <1>2, <1>3, <1>4, <1>5, <1>6, <1>7, <1>8, <1>9, <1>10, <1>11,
     <1>12, <1>13, <1>14, <1>15, <1>16, <1>17, <1>18, <1>19, <1>20, <1>21, <1>22
  DEF Next

(* The invariant is inductive. *)
LEMMA NextIInv == IInv /\ [Next]_vars => IInv'
<1> SUFFICES ASSUME IInv, [Next]_vars PROVE IInv'
  OBVIOUS
<1>1. CASE Next
  BY <1>1, NextTypeOK, NextBackupIsPending, NextDeleteIsExcused, NextBornBefore,
     NextNothingUnsavedLost DEF IInv
<1>2. CASE UNCHANGED vars
  BY <1>2 DEF vars, disk, memory, history, IInv, TypeOK, BackupIsPending, DeleteIsExcused,
              BornBefore, NothingUnsavedLost, Backed, Copy
<1> QED
  BY <1>1, <1>2

(* The invariant holds of every behaviour. *)
THEOREM Invariance == Spec => []IInv
BY InitIInv, NextIInv, PTL DEF Spec

(* What the code keeps on disk and in memory has its types, and the backup *)
(* under way is a copy, as far as it goes, of the Realm that it is made    *)
(* from (run_file_action).                                                 *)
THEOREM TypeCorrect == Spec => []TypeOK
<1>1. IInv => TypeOK
  BY DEF IInv
<1> QED
  BY <1>1, Invariance, PTL

(* After an error that promised a backup, what the Realm held then is in   *)
(* the Realm file or in a complete recovery file wherever the process ends *)
(* (run_file_action), unless a deletion is asked for later.                *)
THEOREM NothingUnsavedLostHolds == Spec => []NothingUnsavedLost
<1>1. IInv => NothingUnsavedLost
  BY DEF IInv
<1> QED
  BY <1>1, Invariance, PTL

-----------------------------------------------------------------------------
(* What a launch leaves undone. *)

Blocked(r) ==
  /\ actions[r].do = "BackUpThenDeleteRealm"
  /\ r \in refused \/ recovery[actions[r].new_name] # NoFile

(* Every action that a launch has found is still to be run, has been run,  *)
(* or is blocked; the Realm being backed up goes to the name its action    *)
(* has reserved.                                                           *)
ActionsAccounted ==
  /\ backup # Nobody => actions[backup.realm] = BackUp(backup.new_name)
  /\ process = "actions" =>
       \A r \in Realms : actions[r] = NoAction \/ r \in pending \cup completed \/ Blocked(r)
  /\ process = "users" =>
       \A r \in Realms : actions[r] = NoAction \/ Blocked(r)

(* What blocks an action stays: no step removes a recovery file. *)
LEMMA BlockedKept ==
  ASSUME TypeOK, NEW q \in Realms, Blocked(q), actions'[q] = actions[q],
         refused \subseteq refused',
         \A n \in Names : recovery[n] # NoFile => recovery'[n] # NoFile
  PROVE  Blocked(q)'
BY ActionTypes DEF Blocked

(* A step that leaves the disk and what a launch has refused alone, and    *)
(* drops no Realm but one that has been dealt with.                        *)
LEMMA AccountedKept ==
  ASSUME ActionsAccounted, NEW r \in Realms,
         process' = process, actions' = actions, recovery' = recovery,
         backup' \in {backup, Nobody}, refused \subseteq refused',
         pending \ {r} \subseteq pending', completed \subseteq completed',
         r \in pending' \cup completed' \/ Blocked(r)'
  PROVE  ActionsAccounted'
<1>1. \A q \in Realms : Blocked(q) => Blocked(q)'
  BY DEF Blocked
<1>2. \A q \in Realms \ {r} : q \in pending \cup completed => q \in pending' \cup completed'
  OBVIOUS
<1> HIDE DEF Blocked
<1> QED
  BY <1>1, <1>2 DEF ActionsAccounted

(* Every step of a launch accounts for the actions. *)
LEMMA NextAccounted ==
  ASSUME IInv, ActionsAccounted, Next PROVE ActionsAccounted'
<1> USE DEF disk, memory, history
<1>0. TypeOK
  BY DEF IInv
<1>1. ASSUME NEW r \in Realms, RunDelete(r) PROVE ActionsAccounted'
  BY <1>1, AccountedKept DEF RunDelete
<1>2. ASSUME NEW r \in Realms, NothingThere(r) PROVE ActionsAccounted'
  BY <1>2, AccountedKept DEF NothingThere
<1>3. ASSUME NEW r \in Realms, NameTaken(r) PROVE ActionsAccounted'
  <2>1. Blocked(r)'
    BY <1>3 DEF NameTaken, Blocked
  <2> QED
    BY <1>3, <2>1, AccountedKept DEF NameTaken
<1>4. ASSUME NEW r \in Realms, CopyRefused(r) PROVE ActionsAccounted'
  <2>1. Blocked(r)'
    BY <1>4 DEF CopyRefused, Blocked
  <2> QED
    BY <1>4, <2>1, AccountedKept DEF CopyRefused
<1>5. ASSUME NEW r \in Realms, copy_realm_file(r) PROVE ActionsAccounted'
  <2> DEFINE n == actions[r].new_name
  <2>1. /\ n \in Names /\ actions[r] = BackUp(n)
        /\ recovery' = [recovery EXCEPT ![n] = Copy(r, FALSE)]
        /\ backup'.realm = r /\ backup'.new_name = n
    <3>1. actions[r] \in {NoAction, Delete} \cup {BackUp(m) : m \in Names}
      BY <1>0 DEF TypeOK
    <3>2. actions[r] # NoAction /\ actions[r] # Delete
      BY <1>5, Kinds DEF copy_realm_file
    <3> QED
      BY <1>5, <3>1, <3>2, Kinds DEF copy_realm_file
  <2>2. Copy(r, FALSE) # NoFile
    BY <1>0, CopyTypes, Kinds
  <2>3. \A m \in Names : recovery[m] # NoFile => recovery'[m] # NoFile
    BY <1>0, <2>1, <2>2 DEF TypeOK
  <2>4. \A q \in Realms : Blocked(q) => Blocked(q)'
    BY <1>0, <1>5, <2>3, BlockedKept DEF copy_realm_file
  <2>5. /\ actions' = actions /\ process' = process
        /\ pending' = pending /\ completed' = completed
    BY <1>5 DEF copy_realm_file
  <2> HIDE DEF n
  <2> QED
    BY <2>1, <2>4, <2>5 DEF ActionsAccounted
<1>6. ASSUME NEW r \in Realms, removeAction(r) PROVE ActionsAccounted'
  <2>1. /\ \A q \in Realms : q # r => actions'[q] = actions[q]
        /\ actions'[r] = NoAction
        /\ process' = process /\ pending' = pending /\ completed' = completed \ {r}
        /\ refused' = refused /\ recovery' = recovery /\ backup' = backup
    BY <1>0, <1>6 DEF removeAction, TypeOK
  <2>2. \A q \in Realms : q # r /\ Blocked(q) => Blocked(q)'
    BY <1>0, <2>1, BlockedKept
  <2>3. backup = Nobody
    BY <1>6 DEF removeAction, IInv, BackupIsPending
  <2> QED
    BY <2>1, <2>2, <2>3 DEF ActionsAccounted
<1>7. ASSUME NEW r \in Realms,
             Write(r) \/ markForDeletion(r) \/ markForBackup(r)
      PROVE  ActionsAccounted'
  <2>1. process' = "running" /\ backup' = backup /\ r \notin pending
    BY <1>7 DEF Write, markForDeletion, markForBackup, Uses
  <2>2. \A q \in Realms : q # r => actions'[q] = actions[q]
    BY <1>0, <1>7 DEF Write, markForDeletion, markForBackup, TypeOK
  <2>3. backup # Nobody => backup.realm \in Realms /\ backup.realm # r
    BY <1>0, <2>1, BackupTypes DEF IInv, BackupIsPending
  <2> QED
    BY <2>1, <2>2, <2>3 DEF ActionsAccounted
<1>8. ASSUME \/ \E r \in Realms : immediately_run_file_actions(r)
             \/ \E u \in Users : \/ get_or_make_user_metadata(u) \/ set_user_token(u)
                                 \/ mark_for_removal(u)
      PROVE  ActionsAccounted'
  <2>1. process' = "running" /\ backup' = backup /\ actions' = actions
    BY <1>8 DEF immediately_run_file_actions, get_or_make_user_metadata,
                set_user_token, mark_for_removal
  <2> QED
    BY <2>1 DEF ActionsAccounted
<1>9. CASE CopyEnds
  <2> DEFINE n == backup.new_name
  <2>1. /\ backup # Nobody /\ backup.realm \in Realms /\ n \in Names
        /\ backup'.realm = backup.realm /\ backup'.new_name = n
        /\ recovery' = [recovery EXCEPT ![n] = Copy(backup.realm, TRUE)]
    BY <1>9, CopyEndsEffect, Kinds DEF CopyEnds
  <2>2. Copy(backup.realm, TRUE) # NoFile
    BY <1>0, <2>1, CopyTypes, Kinds
  <2>3. \A m \in Names : recovery[m] # NoFile => recovery'[m] # NoFile
    BY <1>0, <2>1, <2>2 DEF TypeOK
  <2>4. \A q \in Realms : Blocked(q) => Blocked(q)'
    BY <1>0, <1>9, <2>3, BlockedKept DEF CopyEnds
  <2>5. /\ actions' = actions /\ process' = process
        /\ pending' = pending /\ completed' = completed
    BY <1>9 DEF CopyEnds
  <2> HIDE DEF n
  <2> QED
    BY <2>1, <2>4, <2>5 DEF ActionsAccounted, n
<1>10. CASE CopyFails
  <2>1. backup # Nobody
    BY <1>10, Kinds DEF CopyFails
  <2>2. PICK b \in Realms : b = backup.realm
    BY <1>0, <2>1, BackupTypes
  <2>3. recovery[backup.new_name] = Copy(b, FALSE) /\ backup.new_name \in Names
    BY <1>0, <1>10, <2>1, <2>2, BackupTypes DEF CopyFails
  <2>4. recovery[backup.new_name] # NoFile
    <3>1. Copy(b, FALSE) # NoFile
      BY <1>0, CopyTypes, Kinds
    <3> QED
      BY <2>3, <3>1
  <2>5. /\ actions[b].do = "BackUpThenDeleteRealm"
        /\ actions[b].new_name = backup.new_name
    BY <2>1, <2>2, <2>3, Kinds DEF ActionsAccounted
  <2>6. /\ Blocked(b)'
        /\ UNCHANGED <<process, actions, recovery, refused, completed>>
        /\ pending' = pending \ {b} /\ backup' = Nobody
    BY <1>10, <2>2, <2>4, <2>5 DEF CopyFails, Blocked
  <2> QED
    BY <2>6, AccountedKept
<1>11. CASE remove_realm
  <2>1. backup # Nobody
    BY <1>11, Kinds DEF remove_realm
  <2>2. PICK b \in Realms : b = backup.realm
    BY <1>0, <2>1, BackupTypes
  <2>3. /\ UNCHANGED <<process, actions, recovery, refused>>
        /\ pending' = pending \ {b} /\ completed' = completed \cup {b} /\ backup' = Nobody
    BY <1>11, <2>2 DEF remove_realm
  <2> QED
    BY <2>3, AccountedKept
<1>12. CASE configure
  <2>1. backup = Nobody /\ process' = "actions" /\ backup' = backup /\ actions' = actions
        /\ pending' = {r \in Realms : actions[r] # NoAction}
    BY <1>12 DEF configure, IInv, BackupIsPending
  <2> QED
    BY <2>1 DEF ActionsAccounted
<1>13. CASE ActionsDone
  <2>1. /\ process = "actions" /\ process' = "users" /\ pending = {} /\ completed = {}
        /\ UNCHANGED <<actions, recovery, refused, backup>>
    BY <1>13 DEF ActionsDone
  <2>2. \A q \in Realms : Blocked(q) => Blocked(q)'
    BY <2>1 DEF Blocked
  <2> QED
    BY <2>1, <2>2 DEF ActionsAccounted
<1>14. CASE Running \/ Crash
  <2>1. process' \in {"running", "off"} /\ backup' \in {backup, Nobody} /\ actions' = actions
    BY <1>14 DEF Running, Crash
  <2> QED
    BY <2>1 DEF ActionsAccounted
<1>15. ASSUME NEW u \in Users, remove_user_directory(u) \/ removeUser(u)
       PROVE  ActionsAccounted'
  <2>1. /\ process = "users" /\ process' = "users"
        /\ UNCHANGED <<actions, recovery, refused, backup>>
    BY <1>15 DEF remove_user_directory, removeUser
  <2>2. \A q \in Realms : Blocked(q) => Blocked(q)'
    BY <2>1 DEF Blocked
  <2> QED
    BY <2>1, <2>2 DEF ActionsAccounted
<1> QED
  BY <1>1, <1>2, <1>3, <1>4, <1>5, <1>6, <1>7, <1>8, <1>9, <1>10, <1>11,
     <1>12, <1>13, <1>14, <1>15 DEF Next

(* Of every behaviour. *)
THEOREM AccountedHolds == Spec => []ActionsAccounted
<1>1. Init => ActionsAccounted
  BY DEF Init, ActionsAccounted
<1>2. IInv /\ ActionsAccounted /\ [Next]_vars => ActionsAccounted'
  <2> SUFFICES ASSUME IInv, ActionsAccounted, [Next]_vars PROVE ActionsAccounted'
    OBVIOUS
  <2>1. CASE UNCHANGED vars
    BY <2>1 DEF vars, disk, memory, history, ActionsAccounted, Blocked
  <2> QED
    BY <2>1, NextAccounted
<1> QED
  BY <1>1, <1>2, Invariance, PTL DEF Spec

(* An action that a launch leaves undone is one whose Realm could not be   *)
(* read, or that a copy, complete or not, stands in the way of: configure  *)
(* lets the application run only when everything else is done.             *)
THEOREM LeftoverIsBlockedHolds == Spec => LeftoverIsBlocked
<1> DEFINE LeftIsBlocked ==
      \A r \in Realms :
        process = "users" /\ process' = "running" /\ actions[r] # NoAction =>
          /\ actions[r].do = "BackUpThenDeleteRealm"
          /\ r \in refused \/ recovery[actions[r].new_name] # NoFile
<1>1. ActionsAccounted => [LeftIsBlocked]_vars
  BY DEF ActionsAccounted, Blocked
<1> QED
  BY <1>1, AccountedHolds, PTL DEF LeftoverIsBlocked
=============================================================================
