----------------------------- MODULE SyncSession ----------------------------
(***************************************************************************)
(* One SyncSession of the ObjectStore: the four states it moves between,   *)
(* the sync::Session of the sync client it drives, the completion handlers *)
(* it keeps, and its handling of errors. Any thread may call any of its    *)
(* operations; each is one critical section of m_state_mutex, and what a   *)
(* call does after it has released the mutex is a later step.              *)
(*                                                                         *)
(* The sync client is external. A local commit is a version, which the     *)
(* thread that has made it reads and announces afterwards, without a lock  *)
(* in common; a sync session uploads what has been announced to it.        *)
(***************************************************************************)
EXTENDS Naturals, FiniteSets

CONSTANTS
  Handlers,    \* completion handlers, each passed once to wait_for_..._completion
  Policies,    \* the stop policies a session may be configured with
  Writers,     \* threads that commit to the Realm file
  MaxVersion,  \* bound: versions of the Realm file
  MaxDeaths    \* bound: how often the session enters `dying'

ASSUME PoliciesAssumption ==
  Policies \subseteq {"Immediately", "LiveIndefinitely", "AfterChangesUploaded"}
ASSUME BoundsAssumption == MaxVersion \in Nat /\ MaxDeaths \in Nat

VARIABLES
  policy,          \* m_config.stop_policy
  state,           \* m_state
  session,         \* is there a sync::Session in m_session
  bound,           \* m_session_has_been_bound
  deferredClose,   \* m_deferred_close
  deferredCommit,  \* m_deferred_commit_notification, or 0
  deaths,          \* m_death_count
  packages,        \* m_completion_wait_packages
  cancelled,       \* handlers taken out of it, to be called without the mutex
  error,           \* an error of the sync session: "none", "reported", or what
                   \* handle_error is about to do after it
  \* the file and the sync client
  latest,          \* the version of the last local commit
  toRead,          \* writers that have committed and are to read the version
  toTell,          \* the versions read, which are to be announced
  announced,       \* the version the sync session has been told of
  uploaded,        \* the version the server has
  waits,           \* handlers registered with the sync session
  aborted,         \* handlers registered with one that is gone
  uploadWaits,     \* upload completions that dying sessions wait for
  \* not in the code
  called,          \* handlers that have been called
  missed           \* the last version whose announcement Dying has ignored, or
                   \* has been overwritten by that of an earlier version

machine == <<state, session, bound, deferredClose, deferredCommit, deaths>>
queue == <<packages, cancelled, waits, aborted, called>>
commits == <<latest, toRead, toTell>>
uploads == <<commits, announced, uploaded, uploadWaits, missed>>
vars == <<policy, machine, queue, error, uploads>>

(* gone: the sync session has been destroyed, the wait ends as aborted.    *)
UploadWait == [death : Nat, upto : Nat, gone : BOOLEAN]

TypeOK ==
  /\ policy \in Policies
  /\ state \in {"waiting", "active", "dying", "inactive"}
  /\ session \in BOOLEAN /\ bound \in BOOLEAN
  /\ deferredClose \in BOOLEAN
  /\ deaths \in Nat
  /\ latest \in Nat
  /\ announced \in 0 .. latest /\ uploaded \in 0 .. latest
  /\ deferredCommit \in 0 .. latest /\ missed \in 0 .. latest
  /\ toRead \subseteq Writers /\ toTell \subseteq [by : Writers, version : 0 .. latest]
  /\ packages \subseteq Handlers /\ cancelled \subseteq Handlers
  /\ waits \subseteq Handlers /\ aborted \subseteq Handlers /\ called \subseteq Handlers
  /\ uploadWaits \subseteq UploadWait
  /\ error \in {"none", "reported", "token", "cancel", "inactive"}

(* A new session; nothing initialises m_session_has_been_bound.            *)
Init ==
  /\ policy \in Policies
  /\ state = "inactive"
  /\ session = FALSE /\ bound \in BOOLEAN
  /\ deferredClose = FALSE /\ deferredCommit = 0 /\ deaths = 0
  /\ packages = {} /\ cancelled = {} /\ waits = {} /\ aborted = {} /\ called = {}
  /\ error = "none"
  /\ latest = 0 /\ toRead = {} /\ toTell = {}
  /\ announced = 0 /\ uploaded = 0 /\ uploadWaits = {} /\ missed = 0

-----------------------------------------------------------------------------
(* advance_state, once per state. *)

EnterWaiting ==
  /\ state' = "waiting" /\ deferredClose' = FALSE
  /\ UNCHANGED <<session, bound, deferredCommit, deaths, queue, uploads>>

(* Mutant of EnterInactive: the queue is dropped. *)
EnterInactiveForgetting ==
  /\ state' = "inactive" /\ session' = FALSE /\ packages' = {}
  /\ aborted' = aborted \cup waits /\ waits' = {}
  /\ uploadWaits' = {[u EXCEPT !.gone = TRUE] : u \in uploadWaits}
  /\ UNCHANGED <<bound, deferredClose, deferredCommit, deaths, cancelled, called,
                 commits, announced, uploaded, missed>>

(* The handlers queued are called once the mutex has been released, those  *)
(* registered once the event loop has terminated the sync session.         *)
EnterInactive ==
  /\ state' = "inactive" /\ session' = FALSE
  /\ cancelled' = cancelled \cup packages /\ packages' = {}
  /\ aborted' = aborted \cup waits /\ waits' = {}
  /\ uploadWaits' = {[u EXCEPT !.gone = TRUE] : u \in uploadWaits}
  /\ UNCHANGED <<bound, deferredClose, deferredCommit, deaths, called,
                 commits, announced, uploaded, missed>>

(* Entering `dying', at which there is always a sync session. *)
AwaitUpload(version) ==
  /\ deaths < MaxDeaths
  /\ deaths' = deaths + 1
  /\ uploadWaits' = uploadWaits \cup {[death |-> deaths', upto |-> version, gone |-> FALSE]}

-----------------------------------------------------------------------------
(* The operations. *)

Later(v, w) == IF v > w THEN v ELSE w

(* Mutant of Bind: the commits that came in meanwhile are dropped.         *)
BindDroppingCommit ==
  /\ session' = TRUE /\ bound' = TRUE
  /\ announced' = IF session THEN announced ELSE latest
  /\ missed' = IF session THEN missed ELSE 0
  /\ deferredCommit' = 0

(* create_sync_session, then bind() for a new session, which implicitly    *)
(* announces all that is in the file, or refresh(), then the commits that  *)
(* came in meanwhile.                                                      *)
Bind ==
  LET hasBeenBound == session /\ bound
  IN  /\ session' = TRUE /\ bound' = TRUE
      /\ announced' = Later(deferredCommit, IF hasBeenBound THEN announced ELSE latest)
      /\ missed' = IF hasBeenBound THEN missed ELSE 0
      /\ deferredCommit' = 0

(* Mutant of refresh_access_token: the queued handlers are registered but  *)
(* not taken out of the queue.                                             *)
refreshKeepingQueue ==
  /\ state = "waiting" /\ Bind
  /\ waits' = waits \cup packages
  /\ state' = "active" /\ UNCHANGED <<deaths, uploadWaits>>
  /\ UNCHANGED <<policy, deferredClose, packages, cancelled, aborted, called, error,
                 commits, uploaded>>

(* The token is ignored unless the session waits for it or is active, and  *)
(* then the sync session goes on with it. A deferred close follows.        *)
refresh_access_token ==
  /\ state = "waiting"
  /\ Bind
  /\ waits' = waits \cup packages /\ packages' = {}
  /\ IF deferredClose /\ policy = "AfterChangesUploaded"
     THEN state' = "dying" /\ AwaitUpload(announced')
     ELSE state' = "active" /\ UNCHANGED <<deaths, uploadWaits>>
  /\ UNCHANGED <<policy, deferredClose, cancelled, aborted, called, error, commits, uploaded>>

log_out ==
  /\ state # "inactive"
  /\ EnterInactive
  /\ UNCHANGED <<policy, error>>

close ==
  /\ \/ /\ policy = "Immediately" /\ state \in {"waiting", "active"}
        /\ EnterInactive
     \/ /\ policy # "Immediately" /\ state = "waiting"
        /\ deferredClose' = TRUE
        /\ UNCHANGED <<state, session, bound, deferredCommit, deaths, queue, uploads>>
     \/ /\ policy = "AfterChangesUploaded" /\ state = "active"
        /\ state' = "dying" /\ AwaitUpload(announced)
        /\ UNCHANGED <<session, bound, deferredClose, deferredCommit, queue, commits,
                       announced, uploaded, missed>>
  /\ UNCHANGED <<policy, error>>

revive_if_needed ==
  /\ \/ state = "inactive" /\ EnterWaiting
     \/ /\ state = "waiting" /\ deferredClose' = FALSE
        /\ UNCHANGED <<state, session, bound, deferredCommit, deaths, queue, uploads>>
     \/ /\ state = "dying" /\ state' = "active"
        /\ UNCHANGED <<session, bound, deferredClose, deferredCommit, deaths, queue, uploads>>
  /\ UNCHANGED <<policy, error>>

(* wait_for_upload_completion and wait_for_download_completion. *)
wait_for_completion(h) ==
  /\ h \notin packages \cup cancelled \cup waits \cup aborted \cup called
  /\ IF state \in {"active", "dying"}
     THEN waits' = waits \cup {h} /\ UNCHANGED packages
     ELSE packages' = packages \cup {h} /\ UNCHANGED waits
  /\ UNCHANGED <<policy, machine, cancelled, aborted, called, error, uploads>>

(* RealmCoordinator::commit_write: another thread can commit as soon as    *)
(* this one has, ...                                                       *)
commit(w) ==
  /\ w \notin toRead /\ \A e \in toTell : e.by # w
  /\ latest < MaxVersion
  /\ latest' = latest + 1 /\ toRead' = toRead \cup {w}
  /\ UNCHANGED <<policy, machine, queue, error, toTell, announced, uploaded, uploadWaits,
                 missed>>

(* ... before it reads which version is the latest, ...                    *)
readVersion(w) ==
  /\ w \in toRead
  /\ toRead' = toRead \ {w}
  /\ toTell' = toTell \cup {[by |-> w, version |-> latest]}
  /\ UNCHANGED <<policy, machine, queue, error, latest, announced, uploaded, uploadWaits,
                 missed>>

(* What each state does with it. Whoever is told of a version knows of all *)
(* before it, but only one is kept for a session that waits for a token,   *)
(* be it the earlier one. Inactive and Dying do nothing.                   *)
Announce(v) ==
  /\ deferredCommit' = IF state = "waiting" THEN v ELSE deferredCommit
  /\ announced' = IF state = "active" THEN Later(v, announced) ELSE announced
  /\ missed' = CASE state = "dying" -> Later(v, missed)
                 [] state = "waiting" /\ deferredCommit > v -> Later(deferredCommit, missed)
                 [] OTHER -> missed

(* Mutant of nonsync_transact_notify: the version after the one read.      *)
nonsync_transact_notifyNext(e) ==
  /\ e \in toTell /\ toTell' = toTell \ {e}
  /\ Announce(e.version + 1)
  /\ UNCHANGED <<policy, state, session, bound, deferredClose, deaths, queue, error,
                 latest, toRead, uploaded, uploadWaits>>

(* ... and before it tells the session.                                    *)
nonsync_transact_notify(e) ==
  /\ e \in toTell /\ toTell' = toTell \ {e}
  /\ Announce(e.version)
  /\ UNCHANGED <<policy, state, session, bound, deferredClose, deaths, queue, error,
                 latest, toRead, uploaded, uploadWaits>>

-----------------------------------------------------------------------------
(* What the sync client calls, on its event loop, in any order.            *)

Upload ==
  /\ session /\ uploaded < announced
  /\ uploaded' \in uploaded + 1 .. announced
  /\ UNCHANGED <<policy, machine, queue, error, commits, announced, uploadWaits, missed>>

(* Mutant of uploadCompletes: any completion ends the death in progress.   *)
uploadCompletesAny(u) ==
  /\ u \in uploadWaits /\ (u.gone \/ u.upto <= uploaded)
  /\ IF state = "dying"
     THEN /\ state' = "inactive" /\ session' = FALSE
          /\ cancelled' = cancelled \cup packages /\ packages' = {}
          /\ aborted' = aborted \cup waits /\ waits' = {}
          /\ uploadWaits' = {[v EXCEPT !.gone = TRUE] : v \in uploadWaits \ {u}}
          /\ UNCHANGED <<bound, deferredClose, deferredCommit, deaths, called,
                         commits, announced, uploaded, missed>>
     ELSE /\ uploadWaits' = uploadWaits \ {u}
          /\ UNCHANGED <<machine, queue, commits, announced, uploaded, missed>>
  /\ UNCHANGED <<policy, error>>

(* The completion passed to async_wait_for_upload_completion by the death  *)
(* that it has captured. It ignores whether the upload was aborted.        *)
uploadCompletes(u) ==
  /\ u \in uploadWaits /\ (u.gone \/ u.upto <= uploaded)
  /\ IF state = "dying" /\ deaths = u.death
     THEN /\ state' = "inactive" /\ session' = FALSE
          /\ cancelled' = cancelled \cup packages /\ packages' = {}
          /\ aborted' = aborted \cup waits /\ waits' = {}
          /\ uploadWaits' = {[v EXCEPT !.gone = TRUE] : v \in uploadWaits \ {u}}
          /\ UNCHANGED <<bound, deferredClose, deferredCommit, deaths, called,
                         commits, announced, uploaded, missed>>
     ELSE /\ uploadWaits' = uploadWaits \ {u}
          /\ UNCHANGED <<machine, queue, commits, announced, uploaded, missed>>
  /\ UNCHANGED <<policy, error>>

(* The server has acknowledged what the handler waits for.                 *)
waitCompletes(h) ==
  /\ h \in waits
  /\ waits' = waits \ {h} /\ called' = called \cup {h}
  /\ UNCHANGED <<policy, machine, packages, cancelled, aborted, error, uploads>>

(* The sync session it was registered with has been terminated.            *)
waitAborted(h) ==
  /\ h \in aborted
  /\ aborted' = aborted \ {h} /\ called' = called \cup {h}
  /\ UNCHANGED <<policy, machine, packages, cancelled, waits, error, uploads>>

(* The connection listener is called with an error. *)
report_error ==
  /\ session /\ error = "none"
  /\ error' = "reported"
  /\ UNCHANGED <<policy, machine, queue, uploads>>

(* handle_error takes the mutex: a dying session takes the error upon      *)
(* itself and ends if it is fatal. Of the others some are ignored, some    *)
(* lead to another critical section: the token has expired; fatal or wrong *)
(* credentials; or one after which the file is to be deleted.              *)
handle_error(next) ==
  /\ error = "reported"
  /\ IF state = "dying"
     THEN /\ error' = "none"
          /\ EnterInactive \/ UNCHANGED <<machine, queue, uploads>>
     ELSE error' = next /\ UNCHANGED <<machine, queue, uploads>>
  /\ UNCHANGED policy

access_token_expired ==
  /\ error = "token" /\ error' = "none"
  /\ IF state = "active" THEN EnterWaiting ELSE UNCHANGED <<machine, queue, uploads>>
  /\ UNCHANGED policy

cancel_pending_waits ==
  /\ error = "cancel" /\ error' = "none"
  /\ cancelled' = cancelled \cup packages /\ packages' = {}
  /\ UNCHANGED <<policy, machine, waits, aborted, called, uploads>>

(* Whatever the state has become meanwhile. *)
fatalError ==
  /\ error = "inactive" /\ error' = "none"
  /\ EnterInactive
  /\ UNCHANGED policy

(* The loops that call the cancelled handlers without the mutex.           *)
callCancelled(h) ==
  /\ h \in cancelled
  /\ cancelled' = cancelled \ {h} /\ called' = called \cup {h}
  /\ UNCHANGED <<policy, machine, packages, waits, aborted, error, uploads>>

Calls ==
  \/ refresh_access_token \/ log_out \/ close \/ revive_if_needed
  \/ \E w \in Writers : commit(w) \/ readVersion(w)
  \/ \E e \in toTell : nonsync_transact_notify(e)
  \/ \E h \in Handlers : wait_for_completion(h)

ClientCalls ==
  \/ Upload
  \/ \E u \in uploadWaits : uploadCompletes(u)
  \/ \E h \in waits : waitCompletes(h)
  \/ \E h \in aborted : waitAborted(h)
  \/ report_error
  \/ \E next \in {"none", "token", "cancel", "inactive"} : handle_error(next)
  \/ access_token_expired \/ cancel_pending_waits \/ fatalError

Next == Calls \/ ClientCalls \/ \E h \in cancelled : callCancelled(h)

(* As long as its event loop runs, the sync client calls the handlers of a *)
(* sync session that has been terminated (client.hpp); a thread that has   *)
(* released the mutex goes on. Nothing is assumed of the server and the    *)
(* network: a handler of a sync session that lives may wait for ever.      *)
Fairness ==
  \A h \in Handlers : WF_vars(waitAborted(h)) /\ WF_vars(callCancelled(h))

Spec == Init /\ [][Next]_vars /\ Fairness

-----------------------------------------------------------------------------
(* Properties. *)

(* The states that use the sync session without looking have one, which    *)
(* has been bound; an inactive session has none (Active and Dying use      *)
(* m_session as it is, Inactive destroys it).                              *)
ClientSessionMatches ==
  /\ state \in {"active", "dying"} => session
  /\ state = "inactive" => ~session
  /\ session => bound

(* The announcement of the last commit is still to come: it has not been   *)
(* made, or the thread does not yet know which version it is to announce.  *)
OnItsWay == toRead # {} \/ \E e \in toTell : e.version = latest

(* Why no commit is missed: a sync session has been told of the last one,  *)
(* or is to be when its token has come, unless its announcement has been   *)
(* missed or is on its way. One that is in use keeps none back.            *)
CommitsKept ==
  /\ state \in {"active", "dying"} => deferredCommit = 0
  /\ session => latest \in {announced, deferredCommit, missed} \/ OnItsWay

(* Why a death awaits its own upload: the completion that carries the      *)
(* number of the death in progress is that of a sync session that is still *)
(* there, and was asked for when all that has been announced had been.     *)
DeathsNumbered ==
  \A u \in uploadWaits :
    /\ u.death <= deaths
    /\ state = "dying" /\ u.death = deaths => ~u.gone /\ u.upto = announced

(* A completion handler is in one place and so is called once, however     *)
(* tokens, log-outs, errors and closes fall between its registration and   *)
(* its call; only a session that waits for a token, or one that has none   *)
(* and may be revived, keeps any in its queue.                             *)
HandlersKept ==
  /\ packages \cap (waits \cup aborted \cup cancelled) = {}
  /\ waits \cap (aborted \cup cancelled) = {} /\ aborted \cap cancelled = {}
  /\ called \cap (packages \cup waits \cup aborted \cup cancelled) = {}
  /\ packages # {} => state \in {"waiting", "inactive"}
  /\ waits # {} => session

(* Every local commit is announced to the sync session of a session that   *)
(* is up, also those made while it was inactive or waited for a token,     *)
(* first or new, and in whatever order threads announce theirs (who is     *)
(* told of a version is told of all before it). There are three ways not   *)
(* to be: the announcement is still on its way; it came while the session  *)
(* was dying; or, while it waited for a token, that of an earlier version  *)
(* came after it. The last two are made good by the next commit.           *)
CommitsAnnounced ==
  state \in {"active", "dying"} => latest \in {announced, missed} \/ OnItsWay

(* What is preserved by every step, and why the invariants above are.      *)
IInv ==
  /\ TypeOK /\ ClientSessionMatches /\ CommitsKept /\ DeathsNumbered
  /\ HandlersKept /\ CommitsAnnounced

(* AfterChangesUploaded keeps its word: a dying session ends by itself     *)
(* only when the server has all that has been announced, whatever revivals *)
(* and earlier deaths are still awaiting their uploads; and that is all    *)
(* that has been committed, except when the announcement of the last       *)
(* commit is on its way, or was missed as CommitsAnnounced says.           *)
UploadedBeforeGone ==
  [][\A u \in uploadWaits :
        uploadCompletes(u) /\ state = "dying" /\ state' = "inactive"
          => /\ uploaded >= announced
             /\ uploaded >= latest \/ missed = latest \/ OnItsWay]_vars

Kept == packages \cup waits \cup aborted \cup cancelled

(* A completion handler is called, if only because it is cancelled, when   *)
(* the session keeps being ended and revived; and while it keeps getting   *)
(* tokens, it is at least registered with the sync client, which calls it  *)
(* when the server answers. One that is queued is called only then: the    *)
(* session may wait for a token, or stay logged out, for ever.             *)
HandlersAnswered ==
  /\ []<>(state = "inactive") /\ []<>(state # "inactive") =>
       \A h \in Handlers : h \in Kept ~> h \in called
  /\ []<>(state = "active") =>
       \A h \in Handlers : h \in Kept ~> h \in waits \cup called
=============================================================================
