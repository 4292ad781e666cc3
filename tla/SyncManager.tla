---------------------------- MODULE SyncManager -----------------------------
(***************************************************************************)
(* SyncManager's map of sessions, SyncUser and the external references,    *)
(* around one SyncSession: opening and closing a Realm, suspending and     *)
(* resuming its session, logging its user out and in, tokens and errors,   *)
(* from several threads. A thread holds m_session_mutex or the user's      *)
(* mutex across other calls; m_state_mutex it never does, each use of it   *)
(* is a step of SyncSession.                                               *)
(*                                                                         *)
(* The map is followed as far as this one session is concerned: once it    *)
(* has been erased, a Realm that is opened gets another. Commits and       *)
(* completion handlers are SyncSession's business.                         *)
(***************************************************************************)
EXTENDS Naturals, FiniteSets

CONSTANTS
  Threads,   \* threads of the application
  client,    \* the thread of the sync client's event loop
  None,      \* no thread
  Policies,  \* the stop policies
  MaxCalls   \* bound: calls the threads make

ASSUME ThreadsAssumption == client \notin Threads /\ None \notin Threads \cup {client}
ASSUME PoliciesAssumption ==
  Policies \subseteq {"Immediately", "LiveIndefinitely", "AfterChangesUploaded"}
ASSUME BoundAssumption == MaxCalls \in Nat

VARIABLES
  \* see SyncSession
  policy, state, session, bound, deferredClose, deferredCommit, deaths,
  packages, cancelled, error, latest, toRead, toTell, announced, uploaded, waits,
  aborted, uploadWaits, called, missed,
  created,     \* has the session been created
  registered,  \* is it in SyncManager's m_sessions
  holds,       \* threads with an external reference: a Realm of theirs is open
  probes,      \* threads with the temporary one of unregister_session
  user,        \* the user's m_state
  among,       \* the user's map the session is in: "none", "sessions", "waiting"
  at,          \* what a thread is about to do within a call
  mapMutex,    \* who holds m_session_mutex
  userMutex,   \* who holds the user's m_mutex
  calls,       \* not in the code: calls made
  stopped,     \* not in the code: has the session been suspended, logged out or
               \* ended by an error since it was last revived
  strayed      \* not in the code: known situations that have come up

(* No commits and no completion handlers: an upload may end at any time.   *)
Session == INSTANCE SyncSession WITH
  Handlers <- {}, Writers <- {}, MaxVersion <- 0, MaxDeaths <- 2 * MaxCalls

sessionVars ==
  <<policy, state, session, bound, deferredClose, deferredCommit, deaths, packages,
    cancelled, error, latest, toRead, toTell, announced, uploaded, waits, aborted,
    uploadWaits, called, missed>>
references == <<created, registered, holds, probes>>
userVars == <<user, among>>
control == <<at, mapMutex, userMutex>>
history == <<calls, stopped, strayed>>
vars == <<sessionVars, references, userVars, control, history>>

Everyone == Threads \cup {client}

Situations ==
  { "closed before referenced",   \* by the last reference, while a new one is made
    "revived after log-out",      \* by a call that has found the user logged in
    "resumed",                    \* by the application, with its user logged out
    "erased alive" }              \* revived while it was unregistered, or after

Steps == {"idle", "register", "revive", "reference", "dropped", "unregister", "probe",
          "probeDropped", "login", "invalidate"}

(* The steps taken with m_session_mutex held. *)
HoldingMap == {"register", "revive", "reference", "probe", "probeDropped"}

(* Who holds the mutexes. *)
MutexesHeld ==
  \A t \in Everyone :
    /\ at[t] \in HoldingMap => mapMutex = t
    /\ mapMutex = t => at[t] \in HoldingMap \cup {"unregister"}
    /\ userMutex = t => at[t] \in {"unregister", "probe", "probeDropped"}

Types ==
  /\ created \in BOOLEAN /\ registered \in BOOLEAN /\ stopped \in BOOLEAN
  /\ holds \subseteq Threads /\ probes \subseteq Everyone
  /\ user \in {"Active", "LoggedOut", "Error"}
  /\ among \in {"none", "sessions", "waiting"}
  /\ at \in [Everyone -> Steps]
  /\ at[client] \notin {"register", "revive", "reference", "login"}
  /\ mapMutex \in Everyone \cup {None} /\ userMutex \in Everyone \cup {None}
  /\ strayed \subseteq Situations

(* Types, and who holds the mutexes. *)
TypeOK == Session!TypeOK /\ calls \in 0 .. MaxCalls /\ Types /\ MutexesHeld

Init ==
  /\ Session!Init
  /\ created = FALSE /\ registered = FALSE /\ holds = {} /\ probes = {}
  /\ user = "Active" /\ among = "none"
  /\ at = [t \in Everyone |-> "idle"] /\ mapMutex = None /\ userMutex = None
  /\ calls = 0 /\ stopped = FALSE /\ strayed = {}

Referenced == holds \cup probes # {}

(* Weak pointers to the session can still be locked: the map, a reference  *)
(* or a call under way keeps it.                                           *)
Alive ==
  registered \/ Referenced \/ error # "none" \/ \E t \in Everyone : at[t] # "idle"

Call(t) ==
  /\ at[t] = "idle" /\ calls < MaxCalls
  /\ calls' = calls + 1

Goto(t, step) == at' = [at EXCEPT ![t] = step]

When(condition, situation) == IF condition THEN {situation} ELSE {}

-----------------------------------------------------------------------------
(* SyncSession's operations, here also where they do nothing. *)

revive_if_needed ==
  IF state = "active" THEN UNCHANGED sessionVars ELSE Session!revive_if_needed

(* Mutant of log_out: only a session that is connected is logged out. *)
log_outActive ==
  IF state # "active" THEN UNCHANGED sessionVars ELSE Session!log_out

log_out ==
  IF state = "inactive" THEN UNCHANGED sessionVars ELSE Session!log_out

close ==
  IF \/ state \in {"dying", "inactive"}
     \/ state = "active" /\ policy = "LiveIndefinitely"
  THEN UNCHANGED sessionVars
  ELSE Session!close

(* A thread that has made the session inactive goes on to unregister it,   *)
(* without m_state_mutex, in the middle of what it is doing.               *)
Becomes(state1) == state # state1 /\ state' = state1

(* Mutant of Returns: SyncUser::log_out keeps the mutex.                   *)
ReturnsLocked(t) ==
  /\ Goto(t, "idle")
  /\ among' = (IF userMutex = t THEN "waiting" ELSE among)
  /\ UNCHANGED <<userMutex, user>>

(* The end of a call. Within SyncUser::log_out that is the end of its loop *)
(* over the sessions: the session waits for the user to log in again.      *)
Returns(t) ==
  /\ Goto(t, "idle")
  /\ IF userMutex = t
     THEN userMutex' = None /\ among' = "waiting"
     ELSE UNCHANGED <<userMutex, among>>
  /\ UNCHANGED user

UnregistersOrReturns(t) ==
  IF Becomes("inactive")
  THEN Goto(t, "unregister") /\ UNCHANGED <<userMutex, userVars>>
  ELSE Returns(t)

-----------------------------------------------------------------------------
(* Opening and closing a Realm. *)

(* A new session is referenced before it is registered with the user. *)
get_session(t) ==
  /\ t \in Threads \ holds
  /\ Call(t) /\ mapMutex = None
  /\ registered \/ ~created
  /\ mapMutex' = t /\ Goto(t, "register")
  /\ created' = TRUE /\ registered' = TRUE
  /\ holds' = IF created THEN holds ELSE holds \cup {t}
  /\ UNCHANGED <<sessionVars, probes, userVars, userMutex, stopped, strayed>>

register_session(t) ==
  /\ at[t] = "register" /\ userMutex = None
  /\ \/ user = "Active" /\ Goto(t, "revive") /\ among' = "sessions"
     \/ user = "LoggedOut" /\ Goto(t, "reference") /\ among' = "waiting"
     \/ user = "Error" /\ Goto(t, "reference") /\ UNCHANGED among
  /\ UNCHANGED <<sessionVars, references, user, mapMutex, userMutex, history>>

(* A call that revives the session has looked at the user before. *)
Revives(t) ==
  /\ revive_if_needed
  /\ stopped' = FALSE
  /\ strayed' = strayed \cup When(user # "Active", "revived after log-out")
                        \cup When(~registered, "erased alive")
  /\ UNCHANGED <<references, userVars, userMutex, calls>>

register_sessionRevives(t) ==
  /\ at[t] = "revive" /\ Goto(t, "reference")
  /\ Revives(t) /\ UNCHANGED mapMutex

(* Connected or about to be; a close may still be deferred. *)
Up == state = "active" \/ (state = "waiting" /\ ~deferredClose)

ShouldBeUp == user = "Active" /\ among = "sessions" /\ ~stopped

(* It should be up, is not and is not about to be revived either.          *)
Lapsed == ShouldBeUp /\ ~Up /\ \A t \in Everyone : at[t] \notin {"revive", "login"}

(* Mutant of external_reference: the mutex is kept.                        *)
external_referenceLocked(t) ==
  /\ at[t] = "reference"
  /\ holds' = holds \cup {t}
  /\ Goto(t, "idle")
  /\ strayed' = strayed \cup When(Lapsed, "closed before referenced")
  /\ UNCHANGED <<sessionVars, created, registered, probes, userVars, mapMutex,
                 userMutex, calls, stopped>>

external_reference(t) ==
  /\ at[t] = "reference"
  /\ holds' = holds \cup {t}
  /\ Goto(t, "idle") /\ mapMutex' = None
  /\ strayed' = strayed \cup When(Lapsed, "closed before referenced")
  /\ UNCHANGED <<sessionVars, created, registered, probes, userVars, userMutex,
                 calls, stopped>>

(* The Realm is closed, and with the last one the external reference goes. *)
DropReference(t) ==
  /\ Call(t) /\ t \in holds
  /\ holds' = holds \ {t}
  /\ Goto(t, IF holds' \cup probes = {} THEN "dropped" ELSE "idle")
  /\ UNCHANGED <<sessionVars, created, registered, probes, userVars, mapMutex,
                 userMutex, stopped, strayed>>

(* Mutant of did_drop_external_reference: whether there is a new reference *)
(* is not looked at.                                                       *)
did_drop_external_referenceAnyway(t) ==
  /\ at[t] \in {"dropped", "probeDropped"}
  /\ close
  /\ UnregistersOrReturns(t)
  /\ mapMutex' = IF at[t] = "probeDropped" /\ ~Becomes("inactive") THEN None ELSE mapMutex
  /\ UNCHANGED <<references, history>>

(* "dropped" at the end of a call; "probeDropped" in unregister_session,   *)
(* which holds m_session_mutex.                                            *)
did_drop_external_reference(t) ==
  /\ at[t] \in {"dropped", "probeDropped"}
  /\ IF Referenced THEN UNCHANGED sessionVars ELSE close
  /\ UnregistersOrReturns(t)
  /\ mapMutex' = IF at[t] = "probeDropped" /\ ~Becomes("inactive") THEN None ELSE mapMutex
  /\ UNCHANGED <<references, history>>

-----------------------------------------------------------------------------
(* Unregistering an inactive session. *)

(* Mutant of unregister_session: a session is erased with its references.  *)
unregister_sessionAnyway(t) ==
  /\ at[t] = "unregister" /\ mapMutex = None
  /\ registered' = FALSE /\ Returns(t)
  /\ UNCHANGED <<sessionVars, created, holds, probes, mapMutex, history>>

(* The session is erased unless there is a reference, which this thread    *)
(* then shares for a moment. A session that is no longer in the map is an  *)
(* iterator past the end, used all the same (REALM_ASSERT is compiled out).*)
unregister_session(t) ==
  /\ at[t] = "unregister" /\ mapMutex = None /\ registered
  /\ IF Referenced
     THEN /\ mapMutex' = t /\ probes' = probes \cup {t} /\ Goto(t, "probe")
          /\ UNCHANGED <<registered, userMutex, userVars, strayed>>
     ELSE /\ registered' = FALSE /\ Returns(t)
          /\ strayed' = strayed \cup When(state # "inactive", "erased alive")
          /\ UNCHANGED <<mapMutex, probes>>
  /\ UNCHANGED <<sessionVars, created, holds, calls, stopped>>

(* The temporary reference is gone before the mutex is released. *)
probeEnds(t) ==
  /\ at[t] = "probe"
  /\ probes' = probes \ {t}
  /\ IF holds = {}
     THEN Goto(t, "probeDropped") /\ UNCHANGED <<mapMutex, userMutex, userVars>>
     ELSE mapMutex' = None /\ Returns(t)
  /\ UNCHANGED <<sessionVars, created, registered, holds, history>>

-----------------------------------------------------------------------------
(* Suspending and resuming a session, logging its user out and in. *)

(* RLMSyncSession suspend, of a session the application has found among    *)
(* the user's; also a token request that fails for good.                   *)
suspend(t) ==
  /\ t \in Threads /\ Call(t) /\ among # "none" /\ Alive
  /\ log_out
  /\ UnregistersOrReturns(t)
  /\ stopped' = TRUE
  /\ UNCHANGED <<references, mapMutex, strayed>>

resume(t) ==
  /\ t \in Threads /\ Call(t) /\ among # "none" /\ Alive
  /\ Goto(t, "idle")
  /\ revive_if_needed
  /\ stopped' = FALSE
  /\ strayed' = strayed \cup When(user # "Active", "resumed")
                        \cup When(~registered, "erased alive")
  /\ UNCHANGED <<references, userVars, mapMutex, userMutex>>

(* The user's mutex is held until the last of his sessions has been logged *)
(* out and unregistered.                                                   *)
userLogOut(t) ==
  /\ t \in Threads /\ Call(t) /\ userMutex = None /\ user # "LoggedOut"
  /\ user' = "LoggedOut"
  /\ IF among = "sessions" /\ Alive
     THEN /\ log_out
          /\ stopped' = TRUE
          /\ IF Becomes("inactive")
             THEN Goto(t, "unregister") /\ userMutex' = t /\ UNCHANGED among
             ELSE Goto(t, "idle") /\ among' = "waiting" /\ UNCHANGED userMutex
     ELSE /\ Goto(t, "idle")
          /\ among' = IF among = "sessions" THEN "none" ELSE among
          /\ UNCHANGED <<sessionVars, userMutex, stopped>>
  /\ UNCHANGED <<references, mapMutex, strayed>>

(* SyncManager::get_user with a new token. The sessions are revived        *)
(* without the mutex.                                                      *)
update_refresh_token(t) ==
  /\ t \in Threads /\ Call(t) /\ userMutex = None /\ user = "LoggedOut"
  /\ user' = "Active"
  /\ IF among = "waiting" /\ Alive
     THEN among' = "sessions" /\ Goto(t, "login")
     ELSE among' = (IF among = "waiting" THEN "none" ELSE among) /\ Goto(t, "idle")
  /\ UNCHANGED <<sessionVars, references, mapMutex, userMutex, stopped, strayed>>

update_refresh_tokenRevives(t) ==
  /\ at[t] = "login" /\ Goto(t, "idle")
  /\ Revives(t) /\ UNCHANGED mapMutex

-----------------------------------------------------------------------------
(* Tokens, and what the sync client calls. *)

(* A token request has succeeded, on whatever thread. *)
refresh_access_token ==
  /\ Alive /\ Session!refresh_access_token
  /\ UNCHANGED <<references, userVars, control, history>>

ClientStep(A, B) ==
  /\ at[client] = "idle" /\ Alive /\ A /\ B
  /\ UNCHANGED <<references, mapMutex, calls, strayed>>

report_error ==
  ClientStep(Session!report_error,
             UNCHANGED <<at, userMutex, userVars, stopped>>)

handle_error ==
  ClientStep(
    \E next \in {"none", "token", "cancel", "inactive"} : Session!handle_error(next),
    UnregistersOrReturns(client) /\ stopped' = (stopped \/ Becomes("inactive")))

access_token_expired ==
  ClientStep(Session!access_token_expired,
             UNCHANGED <<at, userMutex, userVars, stopped>>)

(* Wrong credentials also invalidate the user. *)
cancel_pending_waits ==
  ClientStep(Session!cancel_pending_waits,
             /\ Goto(client, "invalidate") \/ UNCHANGED at
             /\ UNCHANGED <<userMutex, userVars, stopped>>)

invalidate ==
  /\ at[client] = "invalidate" /\ userMutex = None
  /\ user' = "Error" /\ Goto(client, "idle")
  /\ UNCHANGED <<sessionVars, references, among, mapMutex, userMutex, history>>

(* Entering `inactive' a second time unregisters a second time. *)
fatalError ==
  ClientStep(Session!fatalError,
             Goto(client, "unregister") /\ stopped' = TRUE
               /\ UNCHANGED <<userMutex, userVars>>)

uploadCompletes ==
  ClientStep(
    error = "none" /\ \E u \in uploadWaits : Session!uploadCompletes(u),
    UnregistersOrReturns(client) /\ UNCHANGED stopped)

-----------------------------------------------------------------------------
Continue(t) ==
  \/ register_session(t) \/ register_sessionRevives(t) \/ external_reference(t)
  \/ did_drop_external_reference(t)
  \/ unregister_session(t) \/ probeEnds(t)
  \/ update_refresh_tokenRevives(t)

(* Nothing is said of a process that has used the end of the map. *)
Undefined == \E t \in Everyone : at[t] = "unregister" /\ mapMutex = None /\ ~registered

Next ==
  /\ ~Undefined
  /\ \/ \E t \in Threads :
          \/ get_session(t) \/ DropReference(t) \/ suspend(t) \/ resume(t)
          \/ userLogOut(t) \/ update_refresh_token(t)
     \/ \E t \in Everyone : Continue(t)
     \/ refresh_access_token
     \/ report_error \/ handle_error \/ access_token_expired
     \/ cancel_pending_waits \/ invalidate \/ fatalError \/ uploadCompletes

(* A thread that is not waiting for a mutex goes on. *)
Fairness ==
  /\ \A t \in Everyone : WF_vars(Continue(t))
  /\ WF_vars(invalidate)

Spec == Init /\ [][Next]_vars /\ Fairness

-----------------------------------------------------------------------------
(* Properties. *)

Quiet == error = "none" /\ \A t \in Everyone : at[t] = "idle"

(* An external reference keeps the session up: whatever Realms are opened  *)
(* and closed on other threads, it is neither closed nor about to be, but  *)
(* for a suspension, a log-out or an error, or when a last reference was   *)
(* being dropped while the session was asked for (external_reference).     *)
ReferencedStaysUp ==
  (Quiet /\ holds # {} /\ ShouldBeUp) => Up \/ "closed before referenced" \in strayed

(* A session that SyncManager no longer knows is not that of an open Realm *)
(* and has ended: a file never has two (unregister_session leaves a        *)
(* referenced session be). It may not have ended when it was revived       *)
(* between leaving its mutex and being unregistered, or later still.       *)
OneSessionPerFile ==
  created /\ ~registered =>
    /\ holds = {}
    /\ state = "inactive" \/ "erased alive" \in strayed

(* A user who is logged out has no session that is up, but for those       *)
(* revived by a call that had found him logged in, or by the application.  *)
LoggedOutIsDown ==
  Quiet /\ Alive /\ user = "LoggedOut" =>
    \/ state = "inactive"
    \/ strayed \cap {"revived after log-out", "resumed"} # {}

(* Why the invariants above hold, with TypeOK, which says who holds the    *)
(* mutexes: a session is registered while it is being opened; nothing      *)
(* happens to it before it is created; the user's mutex is only held in    *)
(* log_out; a session that is about to be revived is known to the user;    *)
(* one that is up is among the sessions that log_out would end; and one    *)
(* that should be up but is not is about to be revived.                    *)
RegisteredWhileOpened ==
  \A t \in Everyone : at[t] \in {"register", "revive", "reference"} => registered

NothingBeforeCreated ==
  ~created =>
    /\ state = "inactive" /\ among = "none" /\ error = "none" /\ uploadWaits = {}
    /\ ~registered /\ ~Referenced /\ \A t \in Everyone : at[t] = "idle"

UserFollowed ==
  /\ userMutex # None => user = "LoggedOut"
  /\ user = "Active" => among # "waiting"
  /\ user = "LoggedOut" /\ userMutex = None => among # "sessions"
  /\ \A t \in Everyone : at[t] \in {"revive", "login"} => among # "none"

UpOnlyIfLoggedIn ==
  \/ strayed \cap {"revived after log-out", "resumed"} # {}
  \/ Alive =>
       /\ user = "LoggedOut" => state = "inactive"
       /\ state # "inactive" /\ user # "LoggedOut" => among = "sessions"

UpIfReferenced == holds # {} => ~Lapsed \/ "closed before referenced" \in strayed

IInv ==
  /\ TypeOK /\ RegisteredWhileOpened /\ NothingBeforeCreated /\ UserFollowed
  /\ OneSessionPerFile /\ UpOnlyIfLoggedIn /\ UpIfReferenced

(* The mutexes are taken in both orders: opening a Realm holds that of the *)
(* map and wants the user's, logging out has the user's and wants that of  *)
(* the map. And the probe of unregister_session may be the last reference. *)
Deadlocked ==
  \/ \E t, u \in Everyone :
        at[t] = "register" /\ userMutex = u /\ at[u] = "unregister" /\ mapMutex = t
  \/ \E t \in Everyone : at[t] = "unregister" /\ mapMutex = t

(* Every call returns, except for the two deadlocks.                       *)
CallsEnd ==
  \A t \in Everyone : (at[t] # "idle") ~> (at[t] = "idle" \/ Deadlocked \/ Undefined)
=============================================================================
