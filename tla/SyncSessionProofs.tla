-------------------------- MODULE SyncSessionProofs -------------------------
(***************************************************************************)
(* The safety properties of a session, for every set of completion         *)
(* handlers and without bounds on commits and deaths.                      *)
(***************************************************************************)
EXTENDS SyncSession, TLAPS

(* The initial states satisfy the invariant. *)
LEMMA InitIInv == Init => IInv
<1> SUFFICES ASSUME Init PROVE IInv
  OBVIOUS
<1>1. TypeOK
  <2>1. 0 \in 0 .. latest /\ 0 \in Nat
    BY DEF Init
  <2> QED BY <2>1, Zenon DEF Init, TypeOK
<1>2. ClientSessionMatches /\ CommitsKept /\ CommitsAnnounced
  BY DEF Init, ClientSessionMatches, CommitsKept, CommitsAnnounced
<1>3. DeathsNumbered /\ HandlersKept
  BY DEF Init, DeathsNumbered, HandlersKept
<1> QED BY <1>1, <1>2, <1>3 DEF IInv

(* A session that becomes inactive cancels what it has queued, and the     *)
(* uploads its deaths await are those of a sync session that is gone.      *)
LEMMA EnterInactiveIInv ==
  ASSUME IInv, EnterInactive, policy' = policy,
         error' \in {"none", "reported", "token", "cancel", "inactive"}
  PROVE  IInv'
<1>1. /\ state' = "inactive" /\ session' = FALSE
      /\ cancelled' = cancelled \cup packages /\ packages' = {}
      /\ aborted' = aborted \cup waits /\ waits' = {}
      /\ uploadWaits' = {[u EXCEPT !.gone = TRUE] : u \in uploadWaits}
      /\ UNCHANGED <<policy, bound, deferredClose, deferredCommit, deaths, called,
                     latest, toRead, toTell, announced, uploaded, missed>>
  BY DEF EnterInactive, commits
<1>2. /\ uploadWaits' \subseteq UploadWait
      /\ \A u \in uploadWaits' : u.death <= deaths
  BY <1>1 DEF IInv, TypeOK, DeathsNumbered, UploadWait
<1>3. TypeOK'
  BY <1>1, <1>2 DEF IInv, TypeOK
<1>4. ClientSessionMatches' /\ CommitsKept' /\ DeathsNumbered' /\ CommitsAnnounced'
  BY <1>1, <1>2
     DEF ClientSessionMatches, CommitsKept, DeathsNumbered, CommitsAnnounced
<1>5. HandlersKept'
  BY <1>1 DEF IInv, HandlersKept
<1> QED BY <1>3, <1>4, <1>5 DEF IInv

(* The upload that a death awaits is one more of the same kind. *)
LEMMA AwaitUploadTypes ==
  ASSUME TypeOK, NEW version \in Nat, AwaitUpload(version)
  PROVE  deaths' \in Nat /\ uploadWaits' \subseteq UploadWait
<1> DEFINE u == [death |-> deaths', upto |-> version, gone |-> FALSE]
<1>1. deaths' \in Nat
  BY DEF AwaitUpload, TypeOK
<1>2. u \in UploadWait
  BY <1>1 DEF UploadWait
<1>3. uploadWaits' = uploadWaits \cup {u}
  BY DEF AwaitUpload
<1> HIDE DEF u
<1> QED BY <1>1, <1>2, <1>3 DEF TypeOK

(* Every step preserves the invariant. *)
LEMMA NextIInv == IInv /\ [Next]_vars => IInv'
<1> SUFFICES ASSUME IInv, [Next]_vars PROVE IInv'
  OBVIOUS
<1> USE DEF machine, queue, commits, uploads
<1>1. CASE refresh_access_token
  <2>1. TypeOK'
    <3>1. /\ announced' \in 0 .. latest' /\ deferredCommit' \in 0 .. latest'
          /\ missed' \in 0 .. latest'
      BY <1>1 DEF refresh_access_token, Bind, Later, IInv, TypeOK
    <3>2. deaths' \in Nat /\ uploadWaits' \subseteq UploadWait
      <4>1. CASE AwaitUpload(announced')
        <5>1. announced' \in Nat
          BY <3>1, <1>1 DEF refresh_access_token, IInv, TypeOK
        <5> QED BY <4>1, <5>1, AwaitUploadTypes DEF IInv
      <4>2. CASE UNCHANGED <<deaths, uploadWaits>>
        BY <4>2 DEF IInv, TypeOK
      <4> QED BY <1>1, <4>1, <4>2 DEF refresh_access_token
    <3>3. session' \in BOOLEAN /\ bound' \in BOOLEAN
      BY <1>1, Zenon DEF refresh_access_token, Bind
    <3>4. state' \in {"waiting", "active", "dying", "inactive"}
      BY <1>1, Zenon DEF refresh_access_token
    <3> QED
      BY <1>1, <3>1, <3>2, <3>3, <3>4 DEF refresh_access_token, IInv, TypeOK
  <2>2. ClientSessionMatches'
    BY <1>1 DEF refresh_access_token, Bind, ClientSessionMatches
  <2>3. latest' \in {announced', missed'} \/ OnItsWay'
    BY <1>1 DEF refresh_access_token, Bind, Later, IInv, TypeOK, ClientSessionMatches,
                CommitsKept, OnItsWay
  <2>4. CommitsKept' /\ CommitsAnnounced'
    BY <1>1, <2>3 DEF refresh_access_token, Bind, CommitsKept, CommitsAnnounced
  <2>5. DeathsNumbered'
    BY <1>1 DEF refresh_access_token, Bind, AwaitUpload, IInv, TypeOK, UploadWait,
                DeathsNumbered
  <2>6. HandlersKept'
    <3>1. session' = TRUE
      BY <1>1 DEF refresh_access_token, Bind
    <3> QED BY <1>1, <3>1 DEF refresh_access_token, IInv, HandlersKept
  <2> QED BY <2>1, <2>2, <2>4, <2>5, <2>6 DEF IInv
<1>2. CASE log_out
  BY <1>2, EnterInactiveIInv DEF log_out, IInv, TypeOK
<1>3. CASE close
  <2>1. CASE EnterInactive /\ UNCHANGED <<policy, error>>
    BY <2>1, EnterInactiveIInv DEF IInv, TypeOK
  <2>2. CASE /\ policy # "Immediately" /\ state = "waiting"
             /\ deferredClose' = TRUE
             /\ UNCHANGED <<state, session, bound, deferredCommit, deaths, queue,
                            uploads, policy, error>>
    BY <2>2 DEF IInv, TypeOK, ClientSessionMatches, CommitsKept, OnItsWay,
                DeathsNumbered, HandlersKept, CommitsAnnounced
  <2>3. CASE /\ policy = "AfterChangesUploaded" /\ state = "active"
             /\ state' = "dying" /\ AwaitUpload(announced)
             /\ UNCHANGED <<session, bound, deferredClose, deferredCommit, queue,
                            commits, announced, uploaded, missed, policy, error>>
    <3>1. TypeOK'
      <4>1. announced \in Nat
        BY DEF IInv, TypeOK
      <4>2. deaths' \in Nat /\ uploadWaits' \subseteq UploadWait
        BY <2>3, <4>1, AwaitUploadTypes DEF IInv
      <4> QED BY <2>3, <4>2 DEF IInv, TypeOK
    <3>2. DeathsNumbered'
      BY <2>3 DEF AwaitUpload, IInv, TypeOK, UploadWait, DeathsNumbered
    <3>3. ClientSessionMatches' /\ CommitsKept' /\ CommitsAnnounced' /\ HandlersKept'
      BY <2>3 DEF IInv, ClientSessionMatches, CommitsKept, OnItsWay, CommitsAnnounced,
                  HandlersKept
    <3> QED BY <3>1, <3>2, <3>3 DEF IInv
  <2> QED BY <1>3, <2>1, <2>2, <2>3 DEF close
<1>4. CASE revive_if_needed
  <2>1. TypeOK'
    <3>1. deferredClose' \in BOOLEAN /\ state' \in {"waiting", "active"}
      BY <1>4, Zenon DEF revive_if_needed, EnterWaiting, IInv, TypeOK
    <3> QED BY <1>4, <3>1 DEF revive_if_needed, EnterWaiting, IInv, TypeOK
  <2>2. ClientSessionMatches' /\ CommitsKept' /\ CommitsAnnounced'
    BY <1>4 DEF revive_if_needed, EnterWaiting, IInv, ClientSessionMatches, CommitsKept,
                OnItsWay, CommitsAnnounced
  <2>3. DeathsNumbered' /\ HandlersKept'
    BY <1>4 DEF revive_if_needed, EnterWaiting, IInv, DeathsNumbered, HandlersKept
  <2> QED BY <2>1, <2>2, <2>3 DEF IInv
<1>5. ASSUME NEW w \in Writers, commit(w) PROVE IInv'
  <2>1. TypeOK'
    <3>1. 0 .. latest \subseteq 0 .. latest'
      BY <1>5 DEF commit, IInv, TypeOK
    <3>2. toTell' \subseteq [by : Writers, version : 0 .. latest']
      BY <1>5, <3>1 DEF commit, IInv, TypeOK
    <3> QED BY <1>5, <3>1, <3>2 DEF commit, IInv, TypeOK
  <2>2. OnItsWay'
    BY <1>5 DEF commit, OnItsWay
  <2>3. ClientSessionMatches' /\ CommitsKept' /\ CommitsAnnounced'
    BY <1>5, <2>2 DEF commit, IInv, ClientSessionMatches, CommitsKept, CommitsAnnounced
  <2>4. DeathsNumbered' /\ HandlersKept'
    BY <1>5 DEF commit, IInv, DeathsNumbered, HandlersKept
  <2> QED BY <2>1, <2>3, <2>4 DEF IInv
<1>6. ASSUME NEW w \in Writers, readVersion(w) PROVE IInv'
  <2> DEFINE e == [by |-> w, version |-> latest]
  <2>1. e \in toTell' /\ e.version = latest'
    BY <1>6 DEF readVersion
  <2>2. OnItsWay'
    BY <2>1, Zenon DEF OnItsWay
  <2>3. TypeOK'
    <3>1. e \in [by : Writers, version : 0 .. latest]
      BY DEF IInv, TypeOK
    <3> HIDE DEF e
    <3>2. toTell' = toTell \cup {e}
      BY <1>6 DEF readVersion, e
    <3> QED BY <1>6, <3>1, <3>2 DEF readVersion, IInv, TypeOK
  <2>4. ClientSessionMatches' /\ CommitsKept' /\ CommitsAnnounced'
    BY <1>6, <2>2
       DEF readVersion, IInv, ClientSessionMatches, CommitsKept, CommitsAnnounced
  <2>5. DeathsNumbered' /\ HandlersKept'
    BY <1>6 DEF readVersion, IInv, DeathsNumbered, HandlersKept
  <2> QED BY <2>3, <2>4, <2>5 DEF IInv
<1>7. ASSUME NEW e \in toTell, nonsync_transact_notify(e) PROVE IInv'
  <2>1. e.version \in 0 .. latest
    BY DEF IInv, TypeOK
  <2>2. /\ deferredCommit' \in 0 .. latest' /\ announced' \in 0 .. latest'
        /\ missed' \in 0 .. latest'
    BY <1>7, <2>1 DEF nonsync_transact_notify, Announce, Later, IInv, TypeOK
  <2>3. TypeOK'
    BY <1>7, <2>2 DEF nonsync_transact_notify, IInv, TypeOK
  <2>4. OnItsWay => OnItsWay' \/ e.version = latest
    BY <1>7 DEF nonsync_transact_notify, OnItsWay
  <2>5. session =>
          latest \in {announced', deferredCommit', missed'} \/ OnItsWay'
    <3>1. CASE e.version = latest
      BY <1>7, <2>1, <3>1 DEF nonsync_transact_notify, Announce, Later, IInv, TypeOK,
                              ClientSessionMatches
    <3>2. CASE e.version # latest
      BY <1>7, <2>1, <2>4, <3>2
         DEF nonsync_transact_notify, Announce, Later, IInv, TypeOK, CommitsKept
    <3> QED BY <3>1, <3>2
  <2>6. ClientSessionMatches'
    BY <1>7 DEF nonsync_transact_notify, IInv, ClientSessionMatches
  <2>7. CommitsKept'
    BY <1>7, <2>5 DEF nonsync_transact_notify, Announce, IInv, CommitsKept
  <2>8. CommitsAnnounced'
    BY <1>7, <2>1, <2>4
       DEF nonsync_transact_notify, Announce, Later, IInv, TypeOK, CommitsAnnounced
  <2>9. DeathsNumbered' /\ HandlersKept'
    BY <1>7, <2>1
       DEF nonsync_transact_notify, Announce, IInv, DeathsNumbered, HandlersKept
  <2> QED BY <2>3, <2>6, <2>7, <2>8, <2>9 DEF IInv
<1>8. ASSUME NEW h \in Handlers, wait_for_completion(h) PROVE IInv'
  <2>1. TypeOK' /\ ClientSessionMatches' /\ CommitsKept' /\ CommitsAnnounced'
    BY <1>8 DEF wait_for_completion, IInv, TypeOK, ClientSessionMatches, CommitsKept,
                OnItsWay, CommitsAnnounced
  <2>2. DeathsNumbered'
    BY <1>8 DEF wait_for_completion, IInv, DeathsNumbered
  <2>3. HandlersKept'
    BY <1>8 DEF wait_for_completion, IInv, TypeOK, ClientSessionMatches, HandlersKept
  <2> QED BY <2>1, <2>2, <2>3 DEF IInv
<1>9. CASE Upload
  BY <1>9 DEF Upload, IInv, TypeOK, ClientSessionMatches, CommitsKept, OnItsWay,
              DeathsNumbered, HandlersKept, CommitsAnnounced
<1>10. ASSUME NEW u \in uploadWaits, uploadCompletes(u) PROVE IInv'
  <2>1. /\ UNCHANGED <<policy, bound, deferredClose, deferredCommit, deaths, error,
                       called, commits, announced, uploaded, missed>>
        /\ \/ /\ state' = "inactive" /\ session' = FALSE
              /\ cancelled' = cancelled \cup packages /\ packages' = {}
              /\ aborted' = aborted \cup waits /\ waits' = {}
           \/ UNCHANGED <<state, session, cancelled, packages, aborted, waits>>
    BY <1>10 DEF uploadCompletes
  <2>2. \/ /\ state' = "inactive"
           /\ uploadWaits' = {[v EXCEPT !.gone = TRUE] : v \in uploadWaits \ {u}}
        \/ uploadWaits' = uploadWaits \ {u} /\ state' = state
    BY <1>10 DEF uploadCompletes
  <2>3. uploadWaits' \subseteq UploadWait
    <3>1. uploadWaits \subseteq UploadWait
      BY DEF IInv, TypeOK
    <3>2. \A v \in UploadWait : [v EXCEPT !.gone = TRUE] \in UploadWait
      BY DEF UploadWait
    <3> QED BY <2>2, <3>1, <3>2
  <2>4. DeathsNumbered'
    BY <2>1, <2>2 DEF IInv, TypeOK, DeathsNumbered, UploadWait
  <2>5. TypeOK'
    BY <2>1, <2>3 DEF IInv, TypeOK
  <2>6. ClientSessionMatches' /\ CommitsKept' /\ CommitsAnnounced' /\ HandlersKept'
    BY <2>1 DEF IInv, ClientSessionMatches, CommitsKept, OnItsWay, CommitsAnnounced,
                HandlersKept
  <2> QED BY <2>4, <2>5, <2>6 DEF IInv
<1>11. ASSUME NEW h \in waits, waitCompletes(h) PROVE IInv'
  BY <1>11 DEF waitCompletes, IInv, TypeOK, ClientSessionMatches, CommitsKept, OnItsWay,
              DeathsNumbered, HandlersKept, CommitsAnnounced
<1>12. ASSUME NEW h \in aborted, waitAborted(h) PROVE IInv'
  BY <1>12 DEF waitAborted, IInv, TypeOK, ClientSessionMatches, CommitsKept, OnItsWay,
               DeathsNumbered, HandlersKept, CommitsAnnounced
<1>13. CASE report_error
  BY <1>13 DEF report_error, IInv, TypeOK, ClientSessionMatches, CommitsKept, OnItsWay,
               DeathsNumbered, HandlersKept, CommitsAnnounced
<1>14. ASSUME NEW next \in {"none", "token", "cancel", "inactive"}, handle_error(next)
       PROVE  IInv'
  <2>1. CASE EnterInactive
    BY <1>14, <2>1, EnterInactiveIInv DEF handle_error
  <2>2. CASE UNCHANGED <<machine, queue, uploads>>
    BY <1>14, <2>2 DEF handle_error, IInv, TypeOK, ClientSessionMatches, CommitsKept,
                       OnItsWay, DeathsNumbered, HandlersKept, CommitsAnnounced
  <2> QED BY <1>14, <2>1, <2>2 DEF handle_error
<1>15. CASE access_token_expired
  BY <1>15 DEF access_token_expired, EnterWaiting, IInv, TypeOK, ClientSessionMatches,
               CommitsKept, OnItsWay, DeathsNumbered, HandlersKept, CommitsAnnounced
<1>16. CASE cancel_pending_waits
  BY <1>16 DEF cancel_pending_waits, IInv, TypeOK, ClientSessionMatches, CommitsKept,
               OnItsWay, DeathsNumbered, HandlersKept, CommitsAnnounced
<1>17. CASE fatalError
  BY <1>17, EnterInactiveIInv DEF fatalError
<1>18. ASSUME NEW h \in cancelled, callCancelled(h) PROVE IInv'
  BY <1>18 DEF callCancelled, IInv, TypeOK, ClientSessionMatches, CommitsKept, OnItsWay,
               DeathsNumbered, HandlersKept, CommitsAnnounced
<1>19. CASE UNCHANGED vars
  BY <1>19 DEF vars, IInv, TypeOK, ClientSessionMatches, CommitsKept, OnItsWay, DeathsNumbered,
               HandlersKept, CommitsAnnounced
<1> QED
  BY <1>1, <1>2, <1>3, <1>4, <1>5, <1>6, <1>7, <1>8, <1>9, <1>10, <1>11, <1>12, <1>13,
     <1>14, <1>15, <1>16, <1>17, <1>18, <1>19 DEF Next, Calls, ClientCalls

(* What has been proved of a step holds of every behaviour. *)
THEOREM Invariance == Spec => []IInv
  BY InitIInv, NextIInv, PTL DEF Spec

(* The state of a session stays within its types: it is never told of, nor *)
(* waits for, a version that is not there.                                 *)
THEOREM TypeCorrect == Spec => []TypeOK
<1>1. IInv => TypeOK
  BY DEF IInv
<1> QED BY <1>1, Invariance, PTL

(* A completion handler is in one place, and queued only in a session that *)
(* waits for a token or is inactive.                                       *)
THEOREM HandlersKeptHolds == Spec => []HandlersKept
<1>1. IInv => HandlersKept
  BY DEF IInv
<1> QED BY <1>1, Invariance, PTL

(* The sync session of a session that is up knows of every commit, unless  *)
(* the announcement of the last one is still on its way, came while the    *)
(* session was dying, or was overtaken by a later one while it waited for  *)
(* a token.                                                                *)
THEOREM CommitsAnnouncedHolds == Spec => []CommitsAnnounced
<1>1. IInv => CommitsAnnounced
  BY DEF IInv
<1> QED BY <1>1, Invariance, PTL

(* A dying session ends by itself only when the server has what has been   *)
(* announced, which is all that has been committed with the exceptions of  *)
(* CommitsAnnouncedHolds: the completion that ends it carries the number   *)
(* of this death, and DeathsNumbered says whose that is.                   *)
THEOREM UploadedBeforeGoneHolds == Spec => UploadedBeforeGone
<1> DEFINE Ended ==
      \A u \in uploadWaits :
        uploadCompletes(u) /\ state = "dying" /\ state' = "inactive"
          => /\ uploaded >= announced
             /\ uploaded >= latest \/ missed = latest \/ OnItsWay
<1>1. ASSUME IInv, [Next]_vars PROVE [Ended]_vars
  <2> SUFFICES ASSUME NEW u \in uploadWaits,
                      uploadCompletes(u), state = "dying", state' = "inactive"
               PROVE  /\ uploaded >= announced
                      /\ uploaded >= latest \/ missed = latest \/ OnItsWay
    OBVIOUS
  <2>1. u.death = deaths
    <3> SUFFICES ASSUME u.death # deaths PROVE FALSE
      OBVIOUS
    <3> QED BY DEF uploadCompletes, machine
  <2>2. ~u.gone /\ u.upto = announced
    BY <1>1, <2>1 DEF IInv, DeathsNumbered
  <2>3. uploaded >= announced
    BY <1>1, <2>2 DEF uploadCompletes, IInv, TypeOK
  <2>4. latest \in {announced, missed} \/ OnItsWay
    BY <1>1 DEF IInv, CommitsAnnounced
  <2> QED BY <2>3, <2>4
<1> QED BY <1>1, Invariance, PTL DEF Spec, UploadedBeforeGone
=============================================================================
