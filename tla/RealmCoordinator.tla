-------------------------- MODULE RealmCoordinator --------------------------
(***************************************************************************)
(* Change notifications of the ObjectStore, for one Results with one       *)
(* notifier: commits by its Realm and by others, the worker thread that    *)
(* finds out what has changed, and the delivery to the callbacks on the    *)
(* thread of the Realm.                                                    *)
(*                                                                         *)
(* A step is one critical section of m_notifier_mutex or of                *)
(* m_callback_mutex, or what a thread does between two. Every commit       *)
(* changes what the Results holds, and the Realm always reads and          *)
(* refreshes by itself.                                                    *)
(***************************************************************************)
EXTENDS NotifierCallbacks, FiniteSets

CONSTANTS
  MaxVersion,  \* bound: versions of the file
  MaxToken     \* bound: callbacks ever added

ASSUME BoundsAssumption == MaxVersion \in Nat \ {0} /\ MaxToken \in Nat

VARIABLES
  latest,      \* the last committed version
  others,      \* whose commits are still to be followed by notify_others
  woken,       \* data in the pipe the worker listens to
  signaled,    \* the run loop source of the Realm
  \* the Realm, on its thread
  read,        \* the version it reads
  stage,       \* "reading" or "writing"
  at,          \* "idle", "waiting", "undefined"; "after" or "inCallback" in
               \* after_advance or, when the worker has failed, deliver_error
  target,      \* the version it waits for, or delivers
  \* the notifier
  place,       \* "none", "new" (m_new_notifiers) or "main" (m_notifiers)
  version,     \* m_sg_version
  has_run,
  callbacks,   \* see NotifierCallbacks
  next_token,
  \* the worker
  skip,        \* m_notifier_skip_version, or 0
  worker,      \* where it is in run_async_notifiers
  rows,        \* the version of m_previous_rows
  \* not in the code
  strayed      \* what has happened that the contract does not provide for

file == <<latest, others>>
realm == <<read, stage, at, target>>
notifier == <<place, version, has_run, callbacks, next_token>>
vars == <<file, woken, signaled, realm, notifier, skip, worker, rows, strayed>>

Asleep == [pc |-> "asleep", skip |-> 0, to |-> 0, informed |-> FALSE, changes |-> {}]

(* m_async_error: a SharedGroup of the coordinator could not be opened,    *)
(* which is tried only once.                                               *)
Broken == [Asleep EXCEPT !.pc = "failed"]

Failed == worker.pc = "failed"

Versions == 1 .. MaxVersion

WorkerStates ==
  [ pc : {"asleep", "info", "need", "compare", "handover", "failed"},
    skip : {0} \cup Versions,
    to : {0} \cup Versions,
    informed : BOOLEAN,       \* the changes of the transactions are collected
    changes : SUBSET Versions ]

AllTokens == 0 .. MaxToken - 1

Strays == { "added unheard", "added to a lapsed notifier", "added during a run",
            "uncounted removed", "nested write", "skipped too early", "left waiting" }

TypeOK ==
  /\ latest \in Versions /\ read \in Versions
  /\ {woken, signaled, has_run} \subseteq BOOLEAN
  /\ others \subseteq {"elsewhere", "here"}
  /\ stage \in {"reading", "writing"}
  /\ at \in {"idle", "waiting", "after", "inCallback", "undefined"}
  /\ place \in {"none", "new", "main"}
  /\ {target, version, skip, rows} \subseteq {0} \cup Versions
  /\ next_token \in 0 .. MaxToken
  /\ callbacks \in CallbacksOf(AllTokens, Versions)
  /\ callbacks.index \in npos .. MaxToken
  /\ strayed \subseteq Strays
  /\ worker \in WorkerStates

Init ==
  /\ latest = 1 /\ others = {}
  /\ woken = FALSE /\ signaled = FALSE
  /\ read = 1 /\ stage = "reading" /\ at = "idle" /\ target = 0
  /\ place = "none" /\ version = 0 /\ has_run = FALSE
  /\ callbacks = NoCallbacks /\ next_token = 0
  /\ skip = 0 /\ worker = Asleep /\ rows = 0
  /\ strayed = {}

-----------------------------------------------------------------------------
(* Waking the worker. *)

(* A commit by another Realm, on another thread or in another process. *)
CommitElsewhere ==
  /\ stage = "reading"
  /\ latest < MaxVersion
  /\ latest' = latest + 1
  /\ others' = others \cup {"elsewhere"}
  /\ UNCHANGED <<woken, signaled, realm, notifier, skip, worker, rows, strayed>>

notify_others ==
  /\ \E who \in others : others' = others \ {who}
  /\ woken' = TRUE
  /\ UNCHANGED <<latest, signaled, realm, notifier, skip, worker, rows, strayed>>

-----------------------------------------------------------------------------
(* Callbacks. *)

(* The Realm's thread is in the run loop; in it or in a callback. A commit  *)
(* keeps it until notify_others.                                           *)
Idle == at = "idle" /\ "here" \notin others

OnItsThread == at \in {"idle", "inCallback"} /\ "here" \notin others

(* Results::prepare_async. *)
register_notifier ==
  /\ place = "none"
  /\ Idle /\ stage = "reading"
  /\ place' = "new"
  /\ version' = read
  /\ UNCHANGED <<file, woken, signaled, realm, has_run, callbacks, next_token,
                 skip, worker, rows, strayed>>

(* pin_version cannot open the SharedGroup for new notifiers.              *)
pin_versionFails ==
  /\ place = "none"
  /\ Idle /\ stage = "reading"
  /\ place' = "new"
  /\ version' = read
  /\ worker' = Broken
  /\ UNCHANGED <<file, woken, signaled, realm, has_run, callbacks, next_token,
                 skip, rows, strayed>>

(* The next of the versions the worker takes the notifier to.              *)
Goal == IF worker.skip # 0 THEN worker.skip ELSE worker.to

(* A notifier that has gone on without callbacks: the rows it compares     *)
(* with are not those of the version it has handed over.                   *)
Lapsed == ~callbacks.have /\ has_run /\ rows # version

(* A notifier that is on its way to another version, and has found nobody  *)
(* to tell when it could ask for the changes, or to compare for.           *)
HalfWay ==
  /\ ~callbacks.have /\ has_run /\ Goal # version
  /\ \/ worker.pc \in {"need", "compare"} /\ ~worker.informed
     \/ worker.pc = "handover"

(* What adding a callback now does not survive. *)
AddedAmiss ==
  (IF Delivering(callbacks) THEN {"added unheard"} ELSE {})
    \cup (IF Lapsed THEN {"added to a lapsed notifier"} ELSE {})
    \cup (IF HalfWay THEN {"added during a run"} ELSE {})

(* Mutant of AddCallback: the worker is not woken. *)
AddCallbackUnheard ==
  /\ place # "none"
  /\ OnItsThread /\ stage = "reading"
  /\ next_token < MaxToken
  /\ callbacks' = add_callback(callbacks, next_token)
  /\ next_token' = next_token + 1
  /\ strayed' = strayed \cup AddedAmiss
  /\ UNCHANGED <<file, woken, signaled, realm, place, version, has_run, skip, worker, rows>>

AddCallback ==
  /\ place # "none"
  /\ OnItsThread /\ stage = "reading"
  /\ next_token < MaxToken
  /\ callbacks' = add_callback(callbacks, next_token)
  /\ next_token' = next_token + 1
  /\ woken' = (Delivering(callbacks) => woken)
  /\ strayed' = strayed \cup AddedAmiss
  /\ UNCHANGED <<file, signaled, realm, place, version, has_run, skip, worker, rows>>

(* From any thread; during a delivery also of a callback it does not       *)
(* count.                                                                  *)
RemoveCallback(t) ==
  /\ t \in Tokens(callbacks)
  /\ callbacks' = remove_callback(callbacks, t)
  /\ strayed' = strayed \cup
       (IF at \in {"after", "inCallback"} /\ Position(callbacks, t) > callbacks.count
        THEN {"uncounted removed"} ELSE {})
  /\ UNCHANGED <<file, woken, signaled, realm, place, version, has_run, next_token,
                 skip, worker, rows>>

(* commitWriteTransactionWithoutNotifying, before it commits. *)
SuppressNext(t) ==
  /\ stage = "writing" /\ OnItsThread
  /\ latest < MaxVersion
  /\ t \in Tokens(callbacks)
  /\ callbacks' = suppress_next_notification(callbacks, t)
  /\ UNCHANGED <<file, woken, signaled, realm, place, version, has_run, next_token,
                 skip, worker, rows, strayed>>

-----------------------------------------------------------------------------
(* Transactions of the Realm. *)

(* Mutants of Ready: it does not wait; it waits for more than there is.    *)
ReadyAtOnce(v) == TRUE

ReadyBeyond(v) == callbacks.have => has_run /\ version > v

(* package_and_wait: what it waits for. *)
Ready(v) == callbacks.have => has_run /\ version >= v

WaitFor(v) ==
  IF place = "none"
  THEN read' = v /\ UNCHANGED <<at, target, woken>>
  ELSE /\ at' = "waiting"
       /\ target' = v
       /\ woken' = (Ready(v) => woken)   \* wait_for_notifiers
       /\ UNCHANGED read

begin_transaction ==
  /\ Idle /\ stage = "reading" /\ ~Failed
  /\ stage' = "writing"
  /\ WaitFor(latest)
  /\ UNCHANGED <<file, signaled, notifier, skip, worker, rows, strayed>>

(* In a callback: no notifications are sent, and the version read may      *)
(* change under the delivery.                                              *)
begin_transactionInCallback ==
  /\ at = "inCallback" /\ OnItsThread /\ stage = "reading"
  /\ stage' = "writing"
  /\ read' = latest
  /\ strayed' = strayed \cup {"nested write"}
  /\ UNCHANGED <<file, woken, signaled, at, target, notifier, skip, worker, rows>>

refresh ==
  /\ Idle /\ stage = "reading" /\ ~Failed
  /\ WaitFor(latest)
  /\ UNCHANGED <<file, signaled, stage, notifier, skip, worker, rows, strayed>>

(* The rest of package_and_wait, and the advance. An error that has        *)
(* occurred since the package was made is not in it.                       *)
Waited ==
  /\ at = "waiting"
  /\ Ready(target)
  /\ IF has_run /\ version >= target
     THEN /\ callbacks' = package_for_delivery(callbacks)
          /\ target' = version
          /\ at' = "after"
          /\ read' = IF stage = "writing" THEN latest ELSE version
     ELSE /\ callbacks' = IF has_run THEN package_for_delivery(callbacks) ELSE callbacks
          /\ at' = "idle"
          /\ read' = latest
          /\ UNCHANGED target
  /\ UNCHANGED <<file, woken, signaled, stage, place, version, has_run, next_token,
                 skip, worker, rows, strayed>>

Recorded(v) ==
  LET recorded(c) == [c EXCEPT !.quiet = FALSE,
                               !.mute  = IF c.quiet THEN @ \cup {v} ELSE @]
  IN  [callbacks EXCEPT !.list =
         [i \in DOMAIN callbacks.list |-> recorded(callbacks.list[i])]]

(* Mutant of commit_write: the version after the committed one is marked.  *)
commit_writeMarksNext ==
  /\ stage = "writing" /\ OnItsThread
  /\ latest < MaxVersion
  /\ latest' = latest + 1 /\ read' = latest + 1
  /\ stage' = "reading"
  /\ others' = others \cup {"here"}
  /\ skip' = IF place = "main" THEN latest + 2 ELSE skip
  /\ callbacks' = Recorded(latest + 1)
  /\ UNCHANGED <<woken, signaled, at, target, place, version, has_run, next_token,
                 worker, rows, strayed>>

commit_write ==
  /\ stage = "writing" /\ OnItsThread
  /\ latest < MaxVersion
  /\ latest' = latest + 1 /\ read' = latest + 1
  /\ stage' = "reading"
  /\ others' = others \cup {"here"}
  /\ skip' = IF place = "main" THEN latest + 1 ELSE skip
  /\ callbacks' = Recorded(latest + 1)
  /\ UNCHANGED <<woken, signaled, at, target, place, version, has_run, next_token,
                 worker, rows, strayed>>

cancel_transaction ==
  /\ stage = "writing" /\ OnItsThread
  /\ \A i \in DOMAIN callbacks.list : ~callbacks.list[i].quiet
  /\ stage' = "reading"
  /\ UNCHANGED <<file, woken, signaled, read, at, target, notifier, skip, worker,
                 rows, strayed>>

-----------------------------------------------------------------------------
(* Realm::notify, when the run loop gets to it. *)

Take ==
  /\ signaled /\ Idle
  /\ signaled' = FALSE
  /\ UNCHANGED <<file, woken, stage, place, version, has_run, next_token, skip,
                 worker, rows, strayed>>

Deliver ==
  /\ callbacks' = package_for_delivery(callbacks)
  /\ target' = version
  /\ at' = "after"

notifyInWrite ==
  /\ Take /\ stage = "writing"
  /\ UNCHANGED <<read, at, target, callbacks>>

process_available_async ==
  /\ Take /\ stage = "reading" /\ read = latest /\ ~Failed
  /\ UNCHANGED read
  /\ IF has_run /\ version = read THEN Deliver
                                  ELSE UNCHANGED <<at, target, callbacks>>

(* Not run yet: the Realm moves on alone. Older than the Realm: what has   *)
(* been packaged is discarded.                                             *)
advance_to_ready ==
  /\ Take /\ stage = "reading" /\ read # latest /\ ~Failed
  /\ \/ /\ ~has_run
        /\ read' = latest
        /\ UNCHANGED <<at, target, callbacks>>
     \/ /\ has_run /\ version < read
        /\ callbacks' = package_for_delivery(callbacks)
        /\ UNCHANGED <<read, at, target>>
     \/ /\ has_run /\ version >= read
        /\ read' = version
        /\ Deliver

-----------------------------------------------------------------------------
(* after_advance. *)

callNext ==
  /\ at = "after" /\ ~Failed
  /\ Another(callbacks)
  /\ IF ~InRange(callbacks)
     THEN at' = "undefined" /\ UNCHANGED callbacks
     ELSE IF NothingFor(NextOf(callbacks))
     THEN callbacks' = Passed(callbacks) /\ UNCHANGED at
     ELSE callbacks' = Called(callbacks, target) /\ at' = "inCallback"
  /\ UNCHANGED <<file, woken, signaled, read, stage, target, place, version, has_run,
                 next_token, skip, worker, rows, strayed>>

callbackReturns ==
  /\ at = "inCallback" /\ OnItsThread /\ ~Failed
  /\ at' = "after"
  /\ UNCHANGED <<file, woken, signaled, read, stage, target, notifier, skip, worker,
                 rows, strayed>>

finish ==
  /\ at = "after"
  /\ ~Another(callbacks)
  /\ callbacks' = Finished(callbacks)
  /\ at' = "idle"
  /\ UNCHANGED <<file, woken, signaled, read, stage, target, place, version, has_run,
                 next_token, skip, worker, rows, strayed>>

-----------------------------------------------------------------------------
(* The worker cannot run: where changes would be delivered, deliver_error  *)
(* tells the callbacks, after the Realm has moved on without waiting.      *)

DeliverError ==
  /\ callbacks' = Counted(callbacks)
  /\ read' = latest
  /\ target' = latest
  /\ at' = "after"
  /\ UNCHANGED <<file, place, version, has_run, next_token, skip, worker, rows, strayed>>

begin_transactionWithError ==
  /\ Failed
  /\ Idle /\ stage = "reading"
  /\ stage' = "writing"
  /\ DeliverError
  /\ UNCHANGED <<woken, signaled>>

refreshWithError ==
  /\ Failed
  /\ Idle /\ stage = "reading"
  /\ DeliverError
  /\ UNCHANGED <<woken, signaled, stage>>

notifyWithError ==
  /\ Failed
  /\ Take /\ stage = "reading"
  /\ DeliverError

errorNext ==
  /\ at = "after" /\ Failed
  /\ Another(callbacks)
  /\ IF ~InRange(callbacks)
     THEN at' = "undefined" /\ UNCHANGED callbacks
     ELSE callbacks' = CalledWithError(callbacks, target) /\ at' = "inCallback"
  /\ UNCHANGED <<file, woken, signaled, read, stage, target, place, version, has_run,
                 next_token, skip, worker, rows, strayed>>

(* The callback that has been called, unless it has removed itself.        *)
Blamed == {t \in Tokens(callbacks) : callbacks.list[Position(callbacks, t)].told # 0}

errorReturns ==
  /\ at = "inCallback" /\ OnItsThread /\ Failed
  /\ at' = "after"
  /\ callbacks' = IF Blamed = {} THEN callbacks
                  ELSE remove_callback(callbacks, CHOOSE t \in Blamed : TRUE)
  /\ UNCHANGED <<file, woken, signaled, read, stage, target, place, version, has_run,
                 next_token, skip, worker, rows, strayed>>

(* m_callbacks has been read beyond its end: nothing is known of what the  *)
(* process does next.                                                      *)
Undefined == at = "undefined" /\ UNCHANGED vars

-----------------------------------------------------------------------------
(* The worker: on_change, hence run_async_notifiers. *)

on_changeAlone ==
  /\ worker.pc = "asleep" /\ woken
  /\ place = "none"
  /\ woken' = FALSE
  /\ signaled' = TRUE
  /\ UNCHANGED <<file, realm, notifier, skip, worker, rows, strayed>>

(* The first critical section: which versions to go to. *)
pickVersion ==
  /\ worker.pc = "asleep" /\ woken
  /\ place # "none"
  /\ woken' = FALSE
  /\ worker' = [Asleep EXCEPT !.pc = "info", !.skip = skip, !.to = latest]
  /\ skip' = 0
  /\ place' = "main"
  /\ UNCHANGED <<file, signaled, realm, version, has_run, callbacks, next_token, rows,
                 strayed>>

(* The first time there is a notifier, opening its SharedGroup fails. A    *)
(* thread that waits for the worker already is left waiting.               *)
open_helper_shared_groupFails ==
  /\ worker.pc = "asleep" /\ woken
  /\ place = "new"
  /\ woken' = FALSE
  /\ signaled' = TRUE
  /\ worker' = Broken
  /\ place' = "main"
  /\ strayed' = strayed \cup (IF at = "waiting" THEN {"left waiting"} ELSE {})
  /\ UNCHANGED <<file, realm, version, has_run, callbacks, next_token, skip, rows>>

on_changeFailed ==
  /\ Failed /\ woken
  /\ woken' = FALSE
  /\ signaled' = TRUE
  /\ place' = "main"
  /\ UNCHANGED <<file, realm, version, has_run, callbacks, next_token, skip, worker, rows,
                 strayed>>

(* The worker runs the notifier without m_notifier_mutex and asks it three *)
(* times whether it has callbacks, which may be added and removed between: *)
(* before the changes of the transactions up to Goal are collected, ...    *)
add_required_change_info ==
  /\ worker.pc = "info"
  /\ worker' = [worker EXCEPT !.pc = "need", !.informed = has_run /\ callbacks.have]
  /\ UNCHANGED <<file, woken, signaled, realm, notifier, skip, rows, strayed>>

(* ... before the query runs, which for the Results itself it does when it *)
(* has not run before, ...                                                 *)
need_to_run ==
  /\ worker.pc = "need"
  /\ \E wanted \in BOOLEAN :
       /\ ~has_run => wanted
       /\ worker' = [worker EXCEPT !.pc = IF wanted \/ callbacks.have
                                         THEN "compare" ELSE "handover"]
  /\ UNCHANGED <<file, woken, signaled, realm, notifier, skip, rows, strayed>>

(* ... and before its rows are compared with those of the last time it     *)
(* ran. The comparison is right when the changes collected lead from those *)
(* rows to these; otherwise any change may be missed.                      *)
calculate_changes ==
  /\ worker.pc = "compare"
  /\ rows' = Goal
  /\ \E found \in SUBSET (rows + 1 .. Goal) :
       /\ IF has_run /\ callbacks.have
          THEN worker.informed /\ rows = version => found = rows + 1 .. Goal
          ELSE found = {}
       /\ worker' = [worker EXCEPT !.pc = "handover", !.changes = found]
  /\ UNCHANGED <<file, woken, signaled, realm, notifier, skip, strayed>>

(* A callback whose skip flag is cleared by a run that comes before the    *)
(* version it is to skip.                                                  *)
SkippedTooEarly ==
  \E i \in DOMAIN callbacks.list :
    LET c == callbacks.list[i]
    IN  c.skip_next /\ (c.quiet \/ \E v \in c.mute : v > Goal)

prepare_handover ==
  /\ worker.pc = "handover"
  /\ version' = Goal
  /\ has_run' = TRUE
  /\ callbacks' = add_changes(callbacks, worker.changes)
  /\ strayed' = strayed \cup (IF SkippedTooEarly THEN {"skipped too early"} ELSE {})
  /\ IF worker.skip # 0
     THEN /\ worker' = [worker EXCEPT !.pc = "info", !.skip = 0, !.informed = FALSE,
                                        !.changes = {}]
          /\ UNCHANGED signaled
     ELSE /\ worker' = Asleep
          /\ signaled' = TRUE
  /\ UNCHANGED <<file, woken, realm, place, next_token, skip, rows>>

-----------------------------------------------------------------------------

Next ==
  \/ CommitElsewhere \/ notify_others
  \/ register_notifier \/ pin_versionFails \/ AddCallback
  \/ \E t \in Tokens(callbacks) : RemoveCallback(t) \/ SuppressNext(t)
  \/ begin_transaction \/ begin_transactionInCallback \/ refresh \/ Waited
  \/ commit_write \/ cancel_transaction
  \/ notifyInWrite \/ process_available_async \/ advance_to_ready
  \/ callNext \/ callbackReturns \/ finish \/ Undefined
  \/ begin_transactionWithError \/ refreshWithError \/ notifyWithError
  \/ errorNext \/ errorReturns
  \/ on_changeAlone \/ pickVersion
  \/ add_required_change_info \/ need_to_run \/ calculate_changes \/ prepare_handover
  \/ open_helper_shared_groupFails \/ on_changeFailed

(* The worker and the run loop go on, a notification arrives, a wait that  *)
(* is over ends, and callbacks return.                                     *)
Fairness ==
  /\ WF_vars(notify_others)
  /\ WF_vars(\/ on_changeAlone \/ pickVersion
             \/ add_required_change_info \/ need_to_run \/ calculate_changes
             \/ prepare_handover \/ open_helper_shared_groupFails \/ on_changeFailed)
  /\ WF_vars(notifyInWrite \/ process_available_async \/ advance_to_ready \/ notifyWithError)
  /\ WF_vars(Waited)
  /\ WF_vars(callNext \/ callbackReturns \/ finish \/ errorNext \/ errorReturns)

Spec == Init /\ [][Next]_vars /\ Fairness
-----------------------------------------------------------------------------

(* What the contract of a notification does not survive is recorded in     *)
(* `strayed'; each property names what it excepts. NoneOf(S): none of S    *)
(* has happened.                                                           *)
NoneOf(S) == strayed \cap S = {}

Misled ==
  {"nested write", "added to a lapsed notifier", "added during a run", "skipped too early"}

(* Ends the loop before the last callback, or beyond it. *)
Miscounted == {"uncounted removed"}

(* What the worker has found out that c was not told of when last called.  *)
Found(c) == (c.told + 1 .. rows) \ c.mute

(* Between the worker and a callback no change is lost, repeated or told   *)
(* in spite of commit(withoutNotifying:): those the worker has found out   *)
(* since the callback was last called are in its hands, accumulated or     *)
(* about to be delivered, each in one place (calculate_changes,            *)
(* add_changes, package_for_delivery, after_advance).                      *)
NothingLost ==
  NoneOf(Misled \cup Miscounted) =>
    \A i \in DOMAIN callbacks.list :
      LET c == callbacks.list[i]
      IN  c.initial_delivered =>
            /\ c.accumulated \cup c.to_deliver \cup (worker.changes \ c.mute) = Found(c)
            /\ c.accumulated \cap c.to_deliver = {}

(* A delivery calls every callback it has packaged changes for, whatever   *)
(* callbacks remove and add meanwhile: none is stepped over when           *)
(* remove_callback moves the others and the loop's index. What is packaged *)
(* for a callback that has never been called may be discarded instead, by  *)
(* advance_to_ready.                                                       *)
DeliveredWhole ==
  NoneOf(Misled \cup Miscounted) /\ at = "idle" =>
    \A i \in DOMAIN callbacks.list :
      LET c == callbacks.list[i]
      IN  c.initial_delivered => c.to_deliver = {}

(* for_each_callback stays within m_callbacks, unless a callback added     *)
(* during the delivery is removed during it.                               *)
LoopStaysInside == NoneOf(Miscounted) => at # "undefined"

(* The debug assertion of add_changes: a callback that is to skip the next *)
(* changes has none waiting, so skipping loses none it should be told of.  *)
SkipsOnlyItsOwn ==
  NoneOf(Misled) =>
    \A i \in DOMAIN callbacks.list :
      callbacks.list[i].skip_next => callbacks.list[i].accumulated = {}

(* begin_transaction and refresh do not wait for ever for the worker,      *)
(* unless it fails while they do: only a run of the worker notifies        *)
(* m_notifier_cv.                                                          *)
WaitEnds == at = "waiting" ~> at # "waiting" \/ ~NoneOf({"left waiting"})

(* Not called yet, or not since a change it should be told of.             *)
Behind(t) ==
  \E i \in DOMAIN callbacks.list :
    LET c == callbacks.list[i]
    IN  c.token = t /\ (c.told + 1 .. latest) \ c.mute # {}

(* All but "skipped too early", which only tells more.                     *)
Unheard == Strays \ {"skipped too early"}

(* Every callback is called for the first time, and again after every      *)
(* change, or with the error when the worker cannot open the file, when    *)
(* the thread does not stay in a write transaction for ever, unless one of *)
(* these has happened: there is no other reason.                           *)
EveryoneIsToldOtherwise ==
  []<>(stage = "reading") =>
    \A t \in AllTokens :
      Behind(t) ~> ~Behind(t) \/ ~NoneOf(Unheard)
=============================================================================
