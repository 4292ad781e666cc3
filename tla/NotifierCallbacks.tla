-------------------------- MODULE NotifierCallbacks -------------------------
(***************************************************************************)
(* The callbacks of one CollectionNotifier of the ObjectStore: adding and  *)
(* removing them, handing changes to them and the loop that calls them,    *)
(* which all happen under m_callback_mutex, and in any order, because the  *)
(* loop releases the mutex while a callback runs.                          *)
(*                                                                         *)
(* A change set is the set of the versions whose changes it describes.     *)
(* The fields `told', `quiet' and `mute' of a callback are not in the      *)
(* code: they record what a callback has been told and should not be.      *)
(***************************************************************************)
EXTENDS Integers, SequencesExt

(* size_t(-1). An index or count below zero stands for one near 2^64.      *)
npos == -1

Callback(t) ==
  [ token             |-> t,
    accumulated       |-> {},     \* accumulated_changes
    to_deliver        |-> {},     \* changes_to_deliver
    initial_delivered |-> FALSE,
    skip_next         |-> FALSE,
    told              |-> 0,      \* the version it was last called for
    quiet             |-> FALSE,  \* suppressed in the write in progress
    mute              |-> {} ]    \* the versions it was suppressed for

(* A callback with a token in T, of a file with the versions V. *)
CallbackOf(T, V) ==
  [ token : T,
    accumulated : SUBSET V,
    to_deliver : SUBSET V,
    initial_delivered : BOOLEAN,
    skip_next : BOOLEAN,
    told : {0} \cup V,
    quiet : BOOLEAN,
    mute : SUBSET V ]

CallbacksOf(T, V) ==
  [list : Seq(CallbackOf(T, V)), index : Int, count : Int, have : BOOLEAN]

NoCallbacks ==
  [list |-> << >>, index |-> npos, count |-> npos, have |-> FALSE]

Tokens(n) == {n.list[i].token : i \in DOMAIN n.list}

Position(n, t) == CHOOSE i \in DOMAIN n.list : n.list[i].token = t

Delivering(n) == n.index # npos

-----------------------------------------------------------------------------

add_callback(n, t) ==
  [n EXCEPT !.list = Append(@, Callback(t)), !.have = Delivering(n) => @]

(* Mutant of remove_callback: a callback removed during a delivery is      *)
(* still counted.                                                          *)
removeKeepingCount(n, t) ==
  LET i    == Position(n, t)
      rest == RemoveAt(n.list, i)
  IN  [n EXCEPT !.list  = rest,
                !.index = IF Delivering(n) /\ @ >= i - 1 THEN @ - 1 ELSE @,
                !.have  = rest # << >>]

(* Positions here start at 1, m_callback_index at 0. *)
remove_callback(n, t) ==
  LET i    == Position(n, t)
      rest == RemoveAt(n.list, i)
  IN  [n EXCEPT !.list  = rest,
                !.index = IF Delivering(n) /\ @ >= i - 1 THEN @ - 1 ELSE @,
                !.count = @ - 1,
                !.have  = rest # << >>]

suppress_next_notification(n, t) ==
  LET i == Position(n, t)
  IN  [n EXCEPT !.list[i] = [n.list[i] EXCEPT !.skip_next = TRUE, !.quiet = TRUE]]

(* Mutant of add_changes: the callback to be skipped gets the changes.     *)
add_changesToAll(n, versions) ==
  LET changed(c) == [c EXCEPT !.skip_next = FALSE, !.accumulated = @ \cup versions]
  IN  [n EXCEPT !.list = [i \in DOMAIN n.list |-> changed(n.list[i])]]

add_changes(n, versions) ==
  LET changed(c) == IF c.skip_next
                    THEN [c EXCEPT !.skip_next = FALSE]
                    ELSE [c EXCEPT !.accumulated = @ \cup versions]
  IN  [n EXCEPT !.list = [i \in DOMAIN n.list |-> changed(n.list[i])]]

(* Mutant of package_for_delivery: the last callback is not counted.       *)
package_oneShort(n) ==
  LET packaged(c) == [c EXCEPT !.to_deliver = c.accumulated, !.accumulated = {}]
  IN  [n EXCEPT !.count = Len(n.list) - 1,
                !.list  = [i \in DOMAIN n.list |-> packaged(n.list[i])]]

package_for_delivery(n) ==
  LET packaged(c) == [c EXCEPT !.to_deliver = c.accumulated, !.accumulated = {}]
  IN  [n EXCEPT !.count = Len(n.list),
                !.list  = [i \in DOMAIN n.list |-> packaged(n.list[i])]]

-----------------------------------------------------------------------------
(* for_each_callback, one round at a time. *)

(* ++m_callback_index < m_callback_count, as unsigned numbers. *)
Another(n) == n.count < 0 \/ n.index + 1 < n.count

(* m_callbacks[m_callback_index] exists. *)
InRange(n) == n.index + 2 <= Len(n.list)

NextOf(n) == n.list[n.index + 2]

(* after_advance has nothing to say to a callback that has been called and *)
(* has no changes.                                                         *)
NothingFor(c) == c.initial_delivered /\ c.to_deliver = {}

Passed(n) == [n EXCEPT !.index = @ + 1]

Called(n, version) ==
  [n EXCEPT !.index = @ + 1,
            !.list[n.index + 2] = [NextOf(n) EXCEPT !.initial_delivered = TRUE,
                                                    !.to_deliver = {},
                                                    !.told = version]]

Finished(n) == [n EXCEPT !.index = npos]

(* deliver_error goes through all callbacks, with the same loop, and       *)
(* removes each one that it has called.                                    *)
Counted(n) == [n EXCEPT !.count = Len(n.list)]

CalledWithError(n, version) ==
  [n EXCEPT !.index = @ + 1,
            !.list[n.index + 2] = [NextOf(n) EXCEPT !.told = version]]
=============================================================================
