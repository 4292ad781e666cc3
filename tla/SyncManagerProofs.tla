-------------------------- MODULE SyncManagerProofs -------------------------
(***************************************************************************)
(* What SyncManager does to its sessions, for every set of threads and     *)
(* every number of calls: each step is a step of SyncSession, a file has   *)
(* one session, and a session is up as long as it is referenced and its    *)
(* user is logged in, up to the situations that the model names.           *)
(***************************************************************************)
EXTENDS SyncManager, TLAPS

-----------------------------------------------------------------------------
(* The steps of the session. *)

SessionStep ==
  \/ UNCHANGED sessionVars
  \/ Session!refresh_access_token \/ Session!log_out \/ Session!close
  \/ Session!revive_if_needed \/ Session!report_error
  \/ \E next \in {"none", "token", "cancel", "inactive"} : Session!handle_error(next)
  \/ Session!access_token_expired \/ Session!cancel_pending_waits
  \/ Session!fatalError
  \/ \E u \in uploadWaits : Session!uploadCompletes(u)

(* Whatever the threads do, the session makes a step of its own or none.   *)
LEMMA NextIsSessionStep == Next => SessionStep
<1> SUFFICES ASSUME Next PROVE SessionStep
  OBVIOUS
<1> QED
  BY Zenon
     DEF Next, Continue, get_session, DropReference, suspend, resume, userLogOut,
         update_refresh_token, register_session, register_sessionRevives,
         external_reference, did_drop_external_reference, unregister_session,
         probeEnds, update_refresh_tokenRevives, refresh_access_token,
         report_error, handle_error, access_token_expired, cancel_pending_waits,
         invalidate, fatalError, uploadCompletes, Revives, ClientStep, SessionStep,
         revive_if_needed, log_out, close

(* A session is used as SyncSession has it (SyncManager and SyncUser call  *)
(* its operations, and change none of its fields): every behaviour is one  *)
(* of SyncSession, so that what is proved there holds here.                *)
THEOREM ImplementsSession ==
  Spec => Session!Init /\ [][Session!Next]_sessionVars
<1>1. Init => Session!Init
  BY DEF Init
<1>2. [Next]_vars => [Session!Next]_sessionVars
  <2>1. SessionStep => [Session!Next]_sessionVars
    BY Zenon DEF SessionStep, Session!Next, Session!Calls, Session!ClientCalls
  <2> QED BY <2>1, NextIsSessionStep DEF vars
<1> QED BY <1>1, <1>2, PTL DEF Spec

(* The upload that a death awaits is one more of the same kind. *)
LEMMA AwaitUploadTypes ==
  ASSUME Session!TypeOK, NEW version \in Nat, Session!AwaitUpload(version)
  PROVE  deaths' \in Nat /\ uploadWaits' \subseteq Session!UploadWait
<1> DEFINE u == [death |-> deaths', upto |-> version, gone |-> FALSE]
<1>1. deaths' \in Nat
  BY DEF Session!AwaitUpload, Session!TypeOK
<1>2. u \in Session!UploadWait
  BY <1>1 DEF Session!UploadWait
<1>3. uploadWaits' = uploadWaits \cup {u}
  BY DEF Session!AwaitUpload
<1> HIDE DEF u
<1> QED BY <1>1, <1>2, <1>3 DEF Session!TypeOK

(* A session that becomes inactive keeps its types. *)
LEMMA EnterInactiveTypes ==
  ASSUME Session!TypeOK, Session!EnterInactive, policy' = policy,
         error' \in {"none", "reported", "token", "cancel", "inactive"}
  PROVE  Session!TypeOK'
<1>1. uploadWaits' \subseteq Session!UploadWait
  BY DEF Session!EnterInactive, Session!TypeOK, Session!UploadWait
<1> QED BY <1>1 DEF Session!EnterInactive, Session!TypeOK, Session!commits

(* So does one that gets a token. *)
LEMMA RefreshTypes ==
  ASSUME Session!TypeOK, Session!refresh_access_token
  PROVE  Session!TypeOK'
<1> USE DEF Session!commits
<1>1. /\ announced' \in 0 .. latest' /\ deferredCommit' \in 0 .. latest'
      /\ missed' \in 0 .. latest'
  BY DEF Session!TypeOK, Session!refresh_access_token, Session!Bind, Session!Later
<1>2. deaths' \in Nat /\ uploadWaits' \subseteq Session!UploadWait
  <2>1. CASE UNCHANGED <<deaths, uploadWaits>>
    BY <2>1 DEF Session!TypeOK
  <2>2. CASE Session!AwaitUpload(announced')
    <3>1. announced' \in Nat
      BY <1>1 DEF Session!TypeOK, Session!refresh_access_token
    <3> QED BY <2>2, <3>1, AwaitUploadTypes
  <2> QED BY <2>1, <2>2 DEF Session!refresh_access_token
<1>3. session' \in BOOLEAN /\ bound' \in BOOLEAN
  BY Zenon DEF Session!refresh_access_token, Session!Bind
<1>4. state' \in {"waiting", "active", "dying", "inactive"}
  BY Zenon DEF Session!refresh_access_token
<1> QED
  BY <1>1, <1>2, <1>3, <1>4 DEF Session!TypeOK, Session!refresh_access_token

(* And one that is closed. *)
LEMMA CloseTypes ==
  ASSUME Session!TypeOK, Session!close
  PROVE  Session!TypeOK'
<1> USE DEF Session!queue, Session!uploads, Session!commits
<1>1. CASE Session!EnterInactive
  BY <1>1, EnterInactiveTypes DEF Session!TypeOK, Session!close
<1>2. CASE /\ deferredClose' = TRUE
           /\ UNCHANGED <<state, session, bound, deferredCommit, deaths,
                          Session!queue, Session!uploads>>
  BY <1>2 DEF Session!TypeOK, Session!close
<1>3. CASE /\ state' = "dying" /\ Session!AwaitUpload(announced)
           /\ UNCHANGED <<session, bound, deferredClose, deferredCommit,
                          Session!queue, Session!commits, announced, uploaded, missed>>
  <2>1. announced \in Nat
    BY DEF Session!TypeOK
  <2>2. deaths' \in Nat /\ uploadWaits' \subseteq Session!UploadWait
    BY <1>3, <2>1, AwaitUploadTypes
  <2> QED BY <1>3, <2>2 DEF Session!TypeOK, Session!close
<1> QED BY <1>1, <1>2, <1>3 DEF Session!close

(* Every step of the session keeps its types. *)
LEMMA SessionTypes ==
  ASSUME Session!TypeOK, SessionStep
  PROVE  Session!TypeOK'
<1> USE DEF Session!machine, Session!queue, Session!uploads, Session!commits
<1>1. CASE UNCHANGED sessionVars
  BY <1>1 DEF Session!TypeOK, sessionVars
<1>2. CASE Session!refresh_access_token
  BY <1>2, RefreshTypes
<1>3. CASE Session!log_out
  BY <1>3, EnterInactiveTypes DEF Session!log_out, Session!TypeOK
<1>4. CASE Session!close
  BY <1>4, CloseTypes
<1>5. CASE Session!revive_if_needed
  <2>1. deferredClose' \in BOOLEAN /\ state' \in {"waiting", "active"}
    BY <1>5, Zenon
       DEF Session!revive_if_needed, Session!EnterWaiting, Session!TypeOK
  <2> QED
    BY <1>5, <2>1 DEF Session!revive_if_needed, Session!EnterWaiting, Session!TypeOK
<1>6. CASE Session!report_error
  BY <1>6 DEF Session!report_error, Session!TypeOK
<1>7. ASSUME NEW next \in {"none", "token", "cancel", "inactive"},
             Session!handle_error(next)
      PROVE  Session!TypeOK'
  <2>1. CASE Session!EnterInactive
    BY <1>7, <2>1, EnterInactiveTypes DEF Session!handle_error, Session!TypeOK
  <2>2. CASE UNCHANGED <<Session!machine, Session!queue, Session!uploads>>
    BY <1>7, <2>2 DEF Session!handle_error, Session!TypeOK
  <2> QED BY <1>7, <2>1, <2>2 DEF Session!handle_error
<1>8. CASE Session!access_token_expired
  <2>1. /\ deferredClose' \in BOOLEAN
        /\ state' \in {"waiting", "active", "dying", "inactive"}
    BY <1>8, Zenon
       DEF Session!access_token_expired, Session!EnterWaiting, Session!TypeOK
  <2> QED
    BY <1>8, <2>1
       DEF Session!access_token_expired, Session!EnterWaiting, Session!TypeOK
<1>9. CASE Session!cancel_pending_waits
  BY <1>9 DEF Session!cancel_pending_waits, Session!TypeOK
<1>10. CASE Session!fatalError
  BY <1>10, EnterInactiveTypes DEF Session!fatalError, Session!TypeOK
<1>11. ASSUME NEW u \in uploadWaits, Session!uploadCompletes(u)
       PROVE  Session!TypeOK'
  <2>1. uploadWaits' \subseteq Session!UploadWait
    <3>1. CASE state = "dying" /\ deaths = u.death
      <4>1. uploadWaits' = {[v EXCEPT !.gone = TRUE] : v \in uploadWaits \ {u}}
        BY <1>11, <3>1 DEF Session!uploadCompletes
      <4> QED BY <4>1 DEF Session!TypeOK, Session!UploadWait
    <3>2. CASE ~(state = "dying" /\ deaths = u.death)
      BY <1>11, <3>2 DEF Session!uploadCompletes, Session!TypeOK
    <3> QED BY <3>1, <3>2
  <2> QED
    BY <1>11, <2>1 DEF Session!uploadCompletes, Session!TypeOK
<1> QED
  BY <1>1, <1>2, <1>3, <1>4, <1>5, <1>6, <1>7, <1>8, <1>9, <1>10, <1>11
     DEF SessionStep

-----------------------------------------------------------------------------
(* The parts of the invariant, one after the other. *)

(* The bound on the calls is kept. *)
LEMMA CallsKept ==
  ASSUME calls \in 0 .. MaxCalls, Next
  PROVE  calls' \in 0 .. MaxCalls
<1>1. UNCHANGED calls \/ \E t \in Threads : Call(t)
  BY Zenon
     DEF Next, Continue, get_session, DropReference, suspend, resume, userLogOut,
         update_refresh_token, register_session, register_sessionRevives,
         external_reference, did_drop_external_reference, unregister_session,
         probeEnds, update_refresh_tokenRevives, refresh_access_token,
         report_error, handle_error, access_token_expired, cancel_pending_waits,
         invalidate, fatalError, uploadCompletes, Revives, ClientStep, history
<1> QED BY <1>1, BoundAssumption DEF Call

(* The application's side of the type invariant.                            *)
LEMMA TypesKept ==
  ASSUME TypeOK, Next
  PROVE  Types'
<1> USE ThreadsAssumption DEF references, userVars, control, history, Everyone,
      Goto, Call, When, Returns, UnregistersOrReturns, Becomes, ClientStep,
      Revives, TypeOK, Types, Situations, Steps
<1>1. ASSUME NEW t \in Threads, get_session(t) PROVE Types'
  BY <1>1 DEF get_session
<1>2. ASSUME NEW t \in Threads, DropReference(t) PROVE Types'
  BY <1>2 DEF DropReference
<1>3. ASSUME NEW t \in Threads, suspend(t) PROVE Types'
  BY <1>3 DEF suspend
<1>4. ASSUME NEW t \in Threads, resume(t) PROVE Types'
  BY <1>4 DEF resume
<1>5. ASSUME NEW t \in Threads, userLogOut(t) PROVE Types'
  BY <1>5 DEF userLogOut
<1>6. ASSUME NEW t \in Threads, update_refresh_token(t) PROVE Types'
  BY <1>6 DEF update_refresh_token
<1>7. ASSUME NEW t \in Everyone, register_session(t) PROVE Types'
  BY <1>7 DEF register_session
<1>8. ASSUME NEW t \in Everyone, register_sessionRevives(t) PROVE Types'
  BY <1>8 DEF register_sessionRevives
<1>9. ASSUME NEW t \in Everyone, external_reference(t) PROVE Types'
  BY <1>9 DEF external_reference
<1>10. ASSUME NEW t \in Everyone, did_drop_external_reference(t) PROVE Types'
  BY <1>10 DEF did_drop_external_reference
<1>11. ASSUME NEW t \in Everyone, unregister_session(t) PROVE Types'
  <2>1. CASE Referenced
    BY <1>11, <2>1 DEF unregister_session
  <2>2. CASE ~Referenced
    BY <1>11, <2>2 DEF unregister_session
  <2> QED BY <2>1, <2>2
<1>12. ASSUME NEW t \in Everyone, probeEnds(t) PROVE Types'
  BY <1>12 DEF probeEnds
<1>13. ASSUME NEW t \in Everyone, update_refresh_tokenRevives(t) PROVE Types'
  BY <1>13 DEF update_refresh_tokenRevives
<1>14. CASE refresh_access_token
  BY <1>14 DEF refresh_access_token
<1>15. CASE report_error
  BY <1>15 DEF report_error
<1>16. CASE handle_error
  BY <1>16 DEF handle_error
<1>17. CASE access_token_expired
  BY <1>17 DEF access_token_expired
<1>18. CASE cancel_pending_waits
  BY <1>18 DEF cancel_pending_waits
<1>19. CASE invalidate
  BY <1>19 DEF invalidate
<1>20. CASE fatalError
  BY <1>20 DEF fatalError
<1>21. CASE uploadCompletes
  BY <1>21 DEF uploadCompletes
<1> QED BY <1>1, <1>2, <1>3, <1>4, <1>5, <1>6, <1>7, <1>8, <1>9, <1>10, <1>11,
      <1>12, <1>13, <1>14, <1>15, <1>16, <1>17, <1>18, <1>19, <1>20, <1>21
     DEF Next, Continue

(* A mutex is held by the thread that is at a step that needs it, and by no *)
(* other.                                                                   *)
LEMMA MutexesHeldKept ==
  ASSUME TypeOK, Next
  PROVE  MutexesHeld'
<1> USE ThreadsAssumption DEF references, userVars, control, history, Everyone,
      Goto, Call, When, Returns, UnregistersOrReturns, Becomes, ClientStep,
      Revives, TypeOK, Types, MutexesHeld, HoldingMap, Steps
<1>1. ASSUME NEW t \in Threads, get_session(t) PROVE MutexesHeld'
  BY <1>1 DEF get_session
<1>2. ASSUME NEW t \in Threads, DropReference(t) PROVE MutexesHeld'
  BY <1>2 DEF DropReference
<1>3. ASSUME NEW t \in Threads, suspend(t) PROVE MutexesHeld'
  BY <1>3 DEF suspend
<1>4. ASSUME NEW t \in Threads, resume(t) PROVE MutexesHeld'
  BY <1>4 DEF resume
<1>5. ASSUME NEW t \in Threads, userLogOut(t) PROVE MutexesHeld'
  BY <1>5 DEF userLogOut
<1>6. ASSUME NEW t \in Threads, update_refresh_token(t) PROVE MutexesHeld'
  BY <1>6 DEF update_refresh_token
<1>7. ASSUME NEW t \in Everyone, register_session(t) PROVE MutexesHeld'
  BY <1>7 DEF register_session
<1>8. ASSUME NEW t \in Everyone, register_sessionRevives(t) PROVE MutexesHeld'
  BY <1>8 DEF register_sessionRevives
<1>9. ASSUME NEW t \in Everyone, external_reference(t) PROVE MutexesHeld'
  BY <1>9 DEF external_reference
<1>10. ASSUME NEW t \in Everyone, did_drop_external_reference(t) PROVE MutexesHeld'
  BY <1>10 DEF did_drop_external_reference
<1>11. ASSUME NEW t \in Everyone, unregister_session(t) PROVE MutexesHeld'
  <2>1. at[t] = "unregister" /\ mapMutex = None
    BY <1>11 DEF unregister_session
  <2>2. ASSUME NEW u \in Everyone PROVE at[u] \notin HoldingMap
    BY <2>1, <2>2
  <2>3. CASE Referenced
    <3>1. /\ mapMutex' = t /\ at' = [at EXCEPT ![t] = "probe"]
          /\ userMutex' = userMutex
      BY <1>11, <2>3 DEF unregister_session
    <3> QED BY <2>1, <2>2, <3>1
  <2>4. CASE ~Referenced
    <3>1. /\ mapMutex' = mapMutex /\ at' = [at EXCEPT ![t] = "idle"]
          /\ userMutex' = IF userMutex = t THEN None ELSE userMutex
      BY <1>11, <2>4 DEF unregister_session
    <3> QED BY <2>1, <2>2, <3>1
  <2> QED BY <2>3, <2>4
<1>12. ASSUME NEW t \in Everyone, probeEnds(t) PROVE MutexesHeld'
  BY <1>12 DEF probeEnds
<1>13. ASSUME NEW t \in Everyone, update_refresh_tokenRevives(t) PROVE MutexesHeld'
  BY <1>13 DEF update_refresh_tokenRevives
<1>14. CASE refresh_access_token
  BY <1>14 DEF refresh_access_token
<1>15. CASE report_error
  BY <1>15 DEF report_error
<1>16. CASE handle_error
  BY <1>16 DEF handle_error
<1>17. CASE access_token_expired
  BY <1>17 DEF access_token_expired
<1>18. CASE cancel_pending_waits
  BY <1>18 DEF cancel_pending_waits
<1>19. CASE invalidate
  BY <1>19 DEF invalidate
<1>20. CASE fatalError
  BY <1>20 DEF fatalError
<1>21. CASE uploadCompletes
  BY <1>21 DEF uploadCompletes
<1> QED BY <1>1, <1>2, <1>3, <1>4, <1>5, <1>6, <1>7, <1>8, <1>9, <1>10, <1>11,
      <1>12, <1>13, <1>14, <1>15, <1>16, <1>17, <1>18, <1>19, <1>20, <1>21
     DEF Next, Continue

(* The session is not erased while it is being opened: m_session_mutex is   *)
(* held.                                                                    *)
LEMMA RegisteredWhileOpenedKept ==
  ASSUME TypeOK, RegisteredWhileOpened, Next
  PROVE  RegisteredWhileOpened'
<1> USE ThreadsAssumption DEF references, userVars, control, history, Everyone,
      Goto, Call, When, Returns, UnregistersOrReturns, Becomes, ClientStep,
      Revives, TypeOK, Types, MutexesHeld, HoldingMap, Steps,
      RegisteredWhileOpened
<1>1. ASSUME NEW t \in Threads, get_session(t) PROVE RegisteredWhileOpened'
  BY <1>1 DEF get_session
<1>2. ASSUME NEW t \in Threads, DropReference(t) PROVE RegisteredWhileOpened'
  BY <1>2 DEF DropReference
<1>3. ASSUME NEW t \in Threads, suspend(t) PROVE RegisteredWhileOpened'
  BY <1>3 DEF suspend
<1>4. ASSUME NEW t \in Threads, resume(t) PROVE RegisteredWhileOpened'
  BY <1>4 DEF resume
<1>5. ASSUME NEW t \in Threads, userLogOut(t) PROVE RegisteredWhileOpened'
  BY <1>5 DEF userLogOut
<1>6. ASSUME NEW t \in Threads, update_refresh_token(t) PROVE RegisteredWhileOpened'
  BY <1>6 DEF update_refresh_token
<1>7. ASSUME NEW t \in Everyone, register_session(t) PROVE RegisteredWhileOpened'
  BY <1>7 DEF register_session
<1>8. ASSUME NEW t \in Everyone, register_sessionRevives(t) PROVE RegisteredWhileOpened'
  BY <1>8 DEF register_sessionRevives
<1>9. ASSUME NEW t \in Everyone, external_reference(t) PROVE RegisteredWhileOpened'
  BY <1>9 DEF external_reference
<1>10. ASSUME NEW t \in Everyone, did_drop_external_reference(t) PROVE RegisteredWhileOpened'
  BY <1>10 DEF did_drop_external_reference
<1>11. ASSUME NEW t \in Everyone, unregister_session(t) PROVE RegisteredWhileOpened'
  BY <1>11 DEF unregister_session
<1>12. ASSUME NEW t \in Everyone, probeEnds(t) PROVE RegisteredWhileOpened'
  BY <1>12 DEF probeEnds
<1>13. ASSUME NEW t \in Everyone, update_refresh_tokenRevives(t) PROVE RegisteredWhileOpened'
  BY <1>13 DEF update_refresh_tokenRevives
<1>14. CASE refresh_access_token
  BY <1>14 DEF refresh_access_token
<1>15. CASE report_error
  BY <1>15 DEF report_error
<1>16. CASE handle_error
  BY <1>16 DEF handle_error
<1>17. CASE access_token_expired
  BY <1>17 DEF access_token_expired
<1>18. CASE cancel_pending_waits
  BY <1>18 DEF cancel_pending_waits
<1>19. CASE invalidate
  BY <1>19 DEF invalidate
<1>20. CASE fatalError
  BY <1>20 DEF fatalError
<1>21. CASE uploadCompletes
  BY <1>21 DEF uploadCompletes
<1> QED BY <1>1, <1>2, <1>3, <1>4, <1>5, <1>6, <1>7, <1>8, <1>9, <1>10, <1>11,
      <1>12, <1>13, <1>14, <1>15, <1>16, <1>17, <1>18, <1>19, <1>20, <1>21
     DEF Next, Continue

(* Nothing happens to a session that has not been created.                  *)
LEMMA NothingBeforeCreatedKept ==
  ASSUME TypeOK, NothingBeforeCreated, Next
  PROVE  NothingBeforeCreated'
<1> USE ThreadsAssumption DEF references, userVars, control, history, Everyone,
      Goto, Call, When, Returns, UnregistersOrReturns, Becomes, ClientStep,
      Revives, TypeOK, Types, NothingBeforeCreated, Alive, Referenced,
      sessionVars, Session!machine, Session!queue, Session!uploads, Session!commits
<1>1. ASSUME NEW t \in Threads, get_session(t) PROVE NothingBeforeCreated'
  BY <1>1 DEF get_session
<1>2. ASSUME NEW t \in Threads, DropReference(t) PROVE NothingBeforeCreated'
  BY <1>2 DEF DropReference
<1>3. ASSUME NEW t \in Threads, suspend(t) PROVE NothingBeforeCreated'
  BY <1>3 DEF suspend, log_out, Session!log_out, Session!EnterInactive
<1>4. ASSUME NEW t \in Threads, resume(t) PROVE NothingBeforeCreated'
  BY <1>4 DEF resume, revive_if_needed, Session!revive_if_needed,
      Session!EnterWaiting
<1>5. ASSUME NEW t \in Threads, userLogOut(t) PROVE NothingBeforeCreated'
  BY <1>5 DEF userLogOut, log_out, Session!log_out, Session!EnterInactive
<1>6. ASSUME NEW t \in Threads, update_refresh_token(t) PROVE NothingBeforeCreated'
  BY <1>6 DEF update_refresh_token
<1>7. ASSUME NEW t \in Everyone, register_session(t) PROVE NothingBeforeCreated'
  BY <1>7 DEF register_session
<1>8. ASSUME NEW t \in Everyone, register_sessionRevives(t) PROVE NothingBeforeCreated'
  BY <1>8 DEF register_sessionRevives, revive_if_needed,
      Session!revive_if_needed, Session!EnterWaiting
<1>9. ASSUME NEW t \in Everyone, external_reference(t) PROVE NothingBeforeCreated'
  BY <1>9 DEF external_reference
<1>10. ASSUME NEW t \in Everyone, did_drop_external_reference(t) PROVE NothingBeforeCreated'
  BY <1>10 DEF did_drop_external_reference, close, Session!close,
      Session!EnterInactive
<1>11. ASSUME NEW t \in Everyone, unregister_session(t) PROVE NothingBeforeCreated'
  BY <1>11 DEF unregister_session
<1>12. ASSUME NEW t \in Everyone, probeEnds(t) PROVE NothingBeforeCreated'
  BY <1>12 DEF probeEnds
<1>13. ASSUME NEW t \in Everyone, update_refresh_tokenRevives(t) PROVE NothingBeforeCreated'
  BY <1>13 DEF update_refresh_tokenRevives, revive_if_needed,
      Session!revive_if_needed, Session!EnterWaiting
<1>14. CASE refresh_access_token
  BY <1>14 DEF refresh_access_token, Session!refresh_access_token
<1>15. CASE report_error
  BY <1>15 DEF report_error, Session!report_error
<1>16. CASE handle_error
  BY <1>16 DEF handle_error, Session!handle_error, Session!EnterInactive
<1>17. CASE access_token_expired
  BY <1>17 DEF access_token_expired, Session!access_token_expired,
      Session!EnterWaiting
<1>18. CASE cancel_pending_waits
  BY <1>18 DEF cancel_pending_waits, Session!cancel_pending_waits
<1>19. CASE invalidate
  BY <1>19 DEF invalidate
<1>20. CASE fatalError
  BY <1>20 DEF fatalError, Session!fatalError, Session!EnterInactive
<1>21. CASE uploadCompletes
  BY <1>21 DEF uploadCompletes, Session!uploadCompletes
<1> QED BY <1>1, <1>2, <1>3, <1>4, <1>5, <1>6, <1>7, <1>8, <1>9, <1>10, <1>11,
      <1>12, <1>13, <1>14, <1>15, <1>16, <1>17, <1>18, <1>19, <1>20, <1>21
     DEF Next, Continue

(* What the user's state says of the map the session is in.                 *)
LEMMA UserFollowedKept ==
  ASSUME TypeOK, NothingBeforeCreated, UserFollowed, Next
  PROVE  UserFollowed'
<1> USE ThreadsAssumption DEF references, userVars, control, history, Everyone,
      Goto, Call, When, Returns, UnregistersOrReturns, Becomes, ClientStep,
      Revives, TypeOK, Types, Alive, Referenced, UserFollowed
<1>1. ASSUME NEW t \in Threads, get_session(t) PROVE UserFollowed'
  BY <1>1 DEF get_session
<1>2. ASSUME NEW t \in Threads, DropReference(t) PROVE UserFollowed'
  BY <1>2 DEF DropReference
<1>3. ASSUME NEW t \in Threads, suspend(t) PROVE UserFollowed'
  BY <1>3 DEF suspend
<1>4. ASSUME NEW t \in Threads, resume(t) PROVE UserFollowed'
  BY <1>4 DEF resume
<1>5. ASSUME NEW t \in Threads, userLogOut(t) PROVE UserFollowed'
  BY <1>5 DEF userLogOut
<1>6. ASSUME NEW t \in Threads, update_refresh_token(t) PROVE UserFollowed'
  BY <1>6 DEF update_refresh_token
<1>7. ASSUME NEW t \in Everyone, register_session(t) PROVE UserFollowed'
  BY <1>7 DEF register_session
<1>8. ASSUME NEW t \in Everyone, register_sessionRevives(t) PROVE UserFollowed'
  BY <1>8 DEF register_sessionRevives
<1>9. ASSUME NEW t \in Everyone, external_reference(t) PROVE UserFollowed'
  BY <1>9 DEF external_reference
<1>10. ASSUME NEW t \in Everyone, did_drop_external_reference(t) PROVE UserFollowed'
  BY <1>10 DEF did_drop_external_reference
<1>11. ASSUME NEW t \in Everyone, unregister_session(t) PROVE UserFollowed'
  BY <1>11 DEF unregister_session
<1>12. ASSUME NEW t \in Everyone, probeEnds(t) PROVE UserFollowed'
  BY <1>12 DEF probeEnds
<1>13. ASSUME NEW t \in Everyone, update_refresh_tokenRevives(t) PROVE UserFollowed'
  BY <1>13 DEF update_refresh_tokenRevives
<1>14. CASE refresh_access_token
  BY <1>14 DEF refresh_access_token
<1>15. CASE report_error
  BY <1>15 DEF report_error
<1>16. CASE handle_error
  BY <1>16 DEF handle_error
<1>17. CASE access_token_expired
  BY <1>17 DEF access_token_expired
<1>18. CASE cancel_pending_waits
  BY <1>18 DEF cancel_pending_waits
<1>19. CASE invalidate
  BY <1>19 DEF invalidate
<1>20. CASE fatalError
  BY <1>20 DEF fatalError
<1>21. CASE uploadCompletes
  BY <1>21 DEF uploadCompletes
<1> QED BY <1>1, <1>2, <1>3, <1>4, <1>5, <1>6, <1>7, <1>8, <1>9, <1>10, <1>11,
      <1>12, <1>13, <1>14, <1>15, <1>16, <1>17, <1>18, <1>19, <1>20, <1>21
     DEF Next, Continue

(* An erased session has no reference, and only the application still       *)
(* reaches it.                                                              *)
LEMMA OneSessionPerFileKept ==
  ASSUME TypeOK, RegisteredWhileOpened, NothingBeforeCreated, OneSessionPerFile, Next
  PROVE  OneSessionPerFile'
<1> USE ThreadsAssumption DEF references, userVars, control, history, Everyone,
      Goto, Call, When, Returns, UnregistersOrReturns, Becomes, ClientStep,
      Revives, TypeOK, Types, RegisteredWhileOpened, NothingBeforeCreated,
      OneSessionPerFile, Alive, Referenced, sessionVars, Session!machine,
      Session!queue, Session!uploads, Session!commits
<1>1. ASSUME NEW t \in Threads, get_session(t) PROVE OneSessionPerFile'
  BY <1>1 DEF get_session
<1>2. ASSUME NEW t \in Threads, DropReference(t) PROVE OneSessionPerFile'
  BY <1>2 DEF DropReference
<1>3. ASSUME NEW t \in Threads, suspend(t) PROVE OneSessionPerFile'
  BY <1>3 DEF suspend, log_out, Session!log_out, Session!EnterInactive
<1>4. ASSUME NEW t \in Threads, resume(t) PROVE OneSessionPerFile'
  BY <1>4 DEF resume, revive_if_needed, Session!revive_if_needed,
      Session!EnterWaiting
<1>5. ASSUME NEW t \in Threads, userLogOut(t) PROVE OneSessionPerFile'
  BY <1>5 DEF userLogOut, log_out, Session!log_out, Session!EnterInactive
<1>6. ASSUME NEW t \in Threads, update_refresh_token(t) PROVE OneSessionPerFile'
  BY <1>6 DEF update_refresh_token
<1>7. ASSUME NEW t \in Everyone, register_session(t) PROVE OneSessionPerFile'
  BY <1>7 DEF register_session
<1>8. ASSUME NEW t \in Everyone, register_sessionRevives(t) PROVE OneSessionPerFile'
  BY <1>8 DEF register_sessionRevives, revive_if_needed,
      Session!revive_if_needed, Session!EnterWaiting
<1>9. ASSUME NEW t \in Everyone, external_reference(t) PROVE OneSessionPerFile'
  BY <1>9 DEF external_reference
<1>10. ASSUME NEW t \in Everyone, did_drop_external_reference(t) PROVE OneSessionPerFile'
  BY <1>10 DEF did_drop_external_reference, close, Session!close,
      Session!EnterInactive
<1>11. ASSUME NEW t \in Everyone, unregister_session(t) PROVE OneSessionPerFile'
  BY <1>11 DEF unregister_session
<1>12. ASSUME NEW t \in Everyone, probeEnds(t) PROVE OneSessionPerFile'
  BY <1>12 DEF probeEnds
<1>13. ASSUME NEW t \in Everyone, update_refresh_tokenRevives(t) PROVE OneSessionPerFile'
  BY <1>13 DEF update_refresh_tokenRevives, revive_if_needed,
      Session!revive_if_needed, Session!EnterWaiting
<1>14. CASE refresh_access_token
  BY <1>14 DEF refresh_access_token, Session!refresh_access_token
<1>15. CASE report_error
  BY <1>15 DEF report_error, Session!report_error
<1>16. CASE handle_error
  BY <1>16 DEF handle_error, Session!handle_error, Session!EnterInactive
<1>17. CASE access_token_expired
  BY <1>17 DEF access_token_expired, Session!access_token_expired,
      Session!EnterWaiting
<1>18. CASE cancel_pending_waits
  BY <1>18 DEF cancel_pending_waits, Session!cancel_pending_waits
<1>19. CASE invalidate
  BY <1>19 DEF invalidate
<1>20. CASE fatalError
  BY <1>20 DEF fatalError, Session!fatalError, Session!EnterInactive
<1>21. CASE uploadCompletes
  BY <1>21 DEF uploadCompletes, Session!uploadCompletes
<1> QED BY <1>1, <1>2, <1>3, <1>4, <1>5, <1>6, <1>7, <1>8, <1>9, <1>10, <1>11,
      <1>12, <1>13, <1>14, <1>15, <1>16, <1>17, <1>18, <1>19, <1>20, <1>21
     DEF Next, Continue

(* A session is brought up only by a call that has found its user logged in,*)
(* and is taken down when he logs out.                                      *)
LEMMA UpOnlyIfLoggedInKept ==
  ASSUME TypeOK, NothingBeforeCreated, UserFollowed, OneSessionPerFile, UpOnlyIfLoggedIn, Next
  PROVE  UpOnlyIfLoggedIn'
<1> USE ThreadsAssumption DEF references, userVars, control, history, Everyone,
      Goto, Call, When, Returns, UnregistersOrReturns, Becomes, ClientStep,
      Revives, TypeOK, Types, NothingBeforeCreated, UserFollowed,
      OneSessionPerFile, UpOnlyIfLoggedIn, Alive, Referenced, sessionVars,
      Session!machine, Session!queue, Session!uploads, Session!commits
<1>1. ASSUME NEW t \in Threads, get_session(t) PROVE UpOnlyIfLoggedIn'
  BY <1>1 DEF get_session
<1>2. ASSUME NEW t \in Threads, DropReference(t) PROVE UpOnlyIfLoggedIn'
  BY <1>2 DEF DropReference
<1>3. ASSUME NEW t \in Threads, suspend(t) PROVE UpOnlyIfLoggedIn'
  BY <1>3 DEF suspend, log_out, Session!log_out, Session!EnterInactive
<1>4. ASSUME NEW t \in Threads, resume(t) PROVE UpOnlyIfLoggedIn'
  BY <1>4 DEF resume, revive_if_needed, Session!revive_if_needed,
      Session!EnterWaiting
<1>5. ASSUME NEW t \in Threads, userLogOut(t) PROVE UpOnlyIfLoggedIn'
  BY <1>5 DEF userLogOut, log_out, Session!log_out, Session!EnterInactive
<1>6. ASSUME NEW t \in Threads, update_refresh_token(t) PROVE UpOnlyIfLoggedIn'
  BY <1>6 DEF update_refresh_token
<1>7. ASSUME NEW t \in Everyone, register_session(t) PROVE UpOnlyIfLoggedIn'
  BY <1>7 DEF register_session
<1>8. ASSUME NEW t \in Everyone, register_sessionRevives(t) PROVE UpOnlyIfLoggedIn'
  BY <1>8 DEF register_sessionRevives, revive_if_needed,
      Session!revive_if_needed, Session!EnterWaiting
<1>9. ASSUME NEW t \in Everyone, external_reference(t) PROVE UpOnlyIfLoggedIn'
  BY <1>9 DEF external_reference
<1>10. ASSUME NEW t \in Everyone, did_drop_external_reference(t) PROVE UpOnlyIfLoggedIn'
  BY <1>10 DEF did_drop_external_reference, close, Session!close,
      Session!EnterInactive
<1>11. ASSUME NEW t \in Everyone, unregister_session(t) PROVE UpOnlyIfLoggedIn'
  BY <1>11 DEF unregister_session
<1>12. ASSUME NEW t \in Everyone, probeEnds(t) PROVE UpOnlyIfLoggedIn'
  BY <1>12 DEF probeEnds
<1>13. ASSUME NEW t \in Everyone, update_refresh_tokenRevives(t) PROVE UpOnlyIfLoggedIn'
  BY <1>13 DEF update_refresh_tokenRevives, revive_if_needed,
      Session!revive_if_needed, Session!EnterWaiting
<1>14. CASE refresh_access_token
  BY <1>14 DEF refresh_access_token, Session!refresh_access_token
<1>15. CASE report_error
  BY <1>15 DEF report_error, Session!report_error
<1>16. CASE handle_error
  BY <1>16 DEF handle_error, Session!handle_error, Session!EnterInactive
<1>17. CASE access_token_expired
  BY <1>17 DEF access_token_expired, Session!access_token_expired,
      Session!EnterWaiting
<1>18. CASE cancel_pending_waits
  BY <1>18 DEF cancel_pending_waits, Session!cancel_pending_waits
<1>19. CASE invalidate
  BY <1>19 DEF invalidate
<1>20. CASE fatalError
  BY <1>20 DEF fatalError, Session!fatalError, Session!EnterInactive
<1>21. CASE uploadCompletes
  BY <1>21 DEF uploadCompletes, Session!uploadCompletes
<1> QED BY <1>1, <1>2, <1>3, <1>4, <1>5, <1>6, <1>7, <1>8, <1>9, <1>10, <1>11,
      <1>12, <1>13, <1>14, <1>15, <1>16, <1>17, <1>18, <1>19, <1>20, <1>21
     DEF Next, Continue

(* A session with a reference does not close.                               *)
LEMMA UpIfReferencedKept ==
  ASSUME TypeOK, NothingBeforeCreated, UserFollowed, RegisteredWhileOpened, UpIfReferenced, Next
  PROVE  UpIfReferenced'
<1> USE ThreadsAssumption DEF references, userVars, control, history, Everyone,
      Goto, Call, When, Returns, UnregistersOrReturns, Becomes, ClientStep,
      Revives, TypeOK, Types, RegisteredWhileOpened, NothingBeforeCreated,
      UserFollowed, UpIfReferenced, Lapsed, ShouldBeUp, Up, Alive, Referenced,
      sessionVars, Session!machine, Session!queue, Session!uploads, Session!commits
<1>1. ASSUME NEW t \in Threads, get_session(t) PROVE UpIfReferenced'
  BY <1>1 DEF get_session
<1>2. ASSUME NEW t \in Threads, DropReference(t) PROVE UpIfReferenced'
  BY <1>2 DEF DropReference
<1>3. ASSUME NEW t \in Threads, suspend(t) PROVE UpIfReferenced'
  BY <1>3 DEF suspend, log_out, Session!log_out, Session!EnterInactive
<1>4. ASSUME NEW t \in Threads, resume(t) PROVE UpIfReferenced'
  BY <1>4 DEF resume, revive_if_needed, Session!revive_if_needed,
      Session!EnterWaiting
<1>5. ASSUME NEW t \in Threads, userLogOut(t) PROVE UpIfReferenced'
  BY <1>5 DEF userLogOut, log_out, Session!log_out, Session!EnterInactive
<1>6. ASSUME NEW t \in Threads, update_refresh_token(t) PROVE UpIfReferenced'
  BY <1>6 DEF update_refresh_token
<1>7. ASSUME NEW t \in Everyone, register_session(t) PROVE UpIfReferenced'
  BY <1>7 DEF register_session
<1>8. ASSUME NEW t \in Everyone, register_sessionRevives(t) PROVE UpIfReferenced'
  BY <1>8 DEF register_sessionRevives, revive_if_needed,
      Session!revive_if_needed, Session!EnterWaiting
<1>9. ASSUME NEW t \in Everyone, external_reference(t) PROVE UpIfReferenced'
  BY <1>9 DEF external_reference
<1>10. ASSUME NEW t \in Everyone, did_drop_external_reference(t) PROVE UpIfReferenced'
  BY <1>10 DEF did_drop_external_reference, close, Session!close,
      Session!EnterInactive
<1>11. ASSUME NEW t \in Everyone, unregister_session(t) PROVE UpIfReferenced'
  BY <1>11 DEF unregister_session
<1>12. ASSUME NEW t \in Everyone, probeEnds(t) PROVE UpIfReferenced'
  BY <1>12 DEF probeEnds
<1>13. ASSUME NEW t \in Everyone, update_refresh_tokenRevives(t) PROVE UpIfReferenced'
  BY <1>13 DEF update_refresh_tokenRevives, revive_if_needed,
      Session!revive_if_needed, Session!EnterWaiting
<1>14. CASE refresh_access_token
  BY <1>14 DEF refresh_access_token, Session!refresh_access_token
<1>15. CASE report_error
  BY <1>15 DEF report_error, Session!report_error
<1>16. CASE handle_error
  BY <1>16 DEF handle_error, Session!handle_error, Session!EnterInactive
<1>17. CASE access_token_expired
  BY <1>17 DEF access_token_expired, Session!access_token_expired,
      Session!EnterWaiting
<1>18. CASE cancel_pending_waits
  BY <1>18 DEF cancel_pending_waits, Session!cancel_pending_waits
<1>19. CASE invalidate
  BY <1>19 DEF invalidate
<1>20. CASE fatalError
  BY <1>20 DEF fatalError, Session!fatalError, Session!EnterInactive
<1>21. CASE uploadCompletes
  BY <1>21 DEF uploadCompletes, Session!uploadCompletes
<1> QED BY <1>1, <1>2, <1>3, <1>4, <1>5, <1>6, <1>7, <1>8, <1>9, <1>10, <1>11,
      <1>12, <1>13, <1>14, <1>15, <1>16, <1>17, <1>18, <1>19, <1>20, <1>21
     DEF Next, Continue

-----------------------------------------------------------------------------
(* The initial states satisfy the invariant. *)
LEMMA InitIInv == Init => IInv
<1> SUFFICES ASSUME Init PROVE IInv
  OBVIOUS
<1> USE ThreadsAssumption DEF Init, Everyone
<1>1. Session!TypeOK
  <2>1. 0 \in 0 .. latest /\ 0 \in Nat
    BY DEF Session!Init
  <2> QED BY <2>1, Zenon DEF Session!Init, Session!TypeOK
<1>2. calls \in 0 .. MaxCalls
  BY BoundAssumption
<1>3. Types /\ MutexesHeld
  BY DEF Types, MutexesHeld, HoldingMap, Steps, Situations
<1>4. /\ RegisteredWhileOpened /\ NothingBeforeCreated /\ UserFollowed
      /\ OneSessionPerFile /\ UpOnlyIfLoggedIn /\ UpIfReferenced
  BY DEF Session!Init, RegisteredWhileOpened, NothingBeforeCreated, UserFollowed,
         OneSessionPerFile, UpOnlyIfLoggedIn, UpIfReferenced, Alive, Referenced
<1> QED BY <1>1, <1>2, <1>3, <1>4 DEF IInv, TypeOK

(* Every step preserves it. *)
LEMMA NextIInv == IInv /\ [Next]_vars => IInv'
<1> SUFFICES ASSUME IInv, [Next]_vars PROVE IInv'
  OBVIOUS
<1>1. CASE Next
  <2>1. Session!TypeOK'
    BY <1>1, NextIsSessionStep, SessionTypes DEF IInv, TypeOK
  <2>2. (calls \in 0 .. MaxCalls)'
    BY <1>1, CallsKept DEF IInv, TypeOK
  <2>3. Types' /\ MutexesHeld'
    BY <1>1, TypesKept, MutexesHeldKept DEF IInv
  <2>4. RegisteredWhileOpened' /\ NothingBeforeCreated' /\ UserFollowed'
    BY <1>1, RegisteredWhileOpenedKept, NothingBeforeCreatedKept, UserFollowedKept
       DEF IInv
  <2>5. OneSessionPerFile' /\ UpOnlyIfLoggedIn' /\ UpIfReferenced'
    BY <1>1, OneSessionPerFileKept, UpOnlyIfLoggedInKept, UpIfReferencedKept DEF IInv
  <2> QED BY <2>1, <2>2, <2>3, <2>4, <2>5 DEF IInv, TypeOK
<1>2. CASE UNCHANGED vars
  <2>1. UNCHANGED <<sessionVars, references, userVars, control, history>>
    BY <1>2 DEF vars
  <2>2. Session!TypeOK'
    BY <2>1, SessionTypes DEF IInv, TypeOK, SessionStep
  <2>3. (calls \in 0 .. MaxCalls)' /\ Types' /\ MutexesHeld'
    BY <2>1 DEF IInv, TypeOK, Types, MutexesHeld, references, userVars, control, history
  <2>4. /\ RegisteredWhileOpened' /\ NothingBeforeCreated' /\ UserFollowed'
        /\ OneSessionPerFile' /\ UpOnlyIfLoggedIn' /\ UpIfReferenced'
    BY <2>1
       DEF IInv, RegisteredWhileOpened, NothingBeforeCreated, UserFollowed,
           OneSessionPerFile, UpOnlyIfLoggedIn, UpIfReferenced, Alive, Referenced,
           Lapsed, ShouldBeUp, Up, sessionVars, references, userVars, control, history
  <2> QED BY <2>2, <2>3, <2>4 DEF IInv, TypeOK
<1> QED BY <1>1, <1>2

-----------------------------------------------------------------------------
(* The invariant holds of every behaviour. *)
THEOREM Invariance == Spec => []IInv
<1> QED BY InitIInv, NextIInv, PTL DEF Spec

(* m_session_mutex and the user's mutex are held by one thread each, at    *)
(* the steps that need them (get_session, SyncUser::log_out).              *)
THEOREM TypeCorrect == Spec => []TypeOK
<1>1. IInv => TypeOK
  BY DEF IInv
<1> QED BY <1>1, Invariance, PTL

(* unregister_session never takes a session from an open Realm, and a file *)
(* has one session at a time.                                              *)
THEOREM OneSessionPerFileHolds == Spec => []OneSessionPerFile
<1>1. IInv => OneSessionPerFile
  BY DEF IInv
<1> QED BY <1>1, Invariance, PTL

(* external_reference keeps the session up, unless the last one was being  *)
(* dropped meanwhile.                                                      *)
THEOREM ReferencedStaysUpHolds == Spec => []ReferencedStaysUp
<1>1. IInv => ReferencedStaysUp
  BY DEF IInv, UpIfReferenced, ReferencedStaysUp, Quiet, Lapsed
<1> QED BY <1>1, Invariance, PTL

(* SyncUser::log_out leaves no session up, unless one is revived by a call *)
(* that is not stopped by it.                                              *)
THEOREM LoggedOutIsDownHolds == Spec => []LoggedOutIsDown
<1>1. IInv => LoggedOutIsDown
  BY DEF IInv, UpOnlyIfLoggedIn, LoggedOutIsDown
<1> QED BY <1>1, Invariance, PTL
=============================================================================
