# W3Stats: a TLA+ model of the app and of the Realm library it carries

W3Stats is an iOS app that counts Warcraft III match results: a stats screen for
one player, a players screen to choose, add and delete players, and a Realm
database under both. The repository holds the app (about 1,700 lines of Swift,
`src/W3Stats/W3Stats`) and, vendored as CocoaPods, the Realm library it stores
its data with (`src/W3Stats/Pods`: RealmSwift, the Objective-C binding, the C++
ObjectStore, and the headers of the prebuilt core). There are no tests.

This directory models the app; of Realm the path its writes take; and the parts
of the ObjectStore with concurrency and failures of their own, which this app
does not use: change notifications, the change sets they carry, and sync's
sessions, users and files.

## Inventory

### The app

| part | state | operations | talks to |
|---|---|---|---|
| `StatsViewController` | `player` (mutable, shared with nobody), what the labels show, what it presents, panel, blur, checkmark | add a result, long press and edit a number, open and close the panel, open the players screen, `updateStatsForPlayer` | data layer; `PlayersViewController` (presents it, is its delegate); main queue |
| `PlayersViewController` | `players` (a list of its own, loaded once), panel, blur, alert | select, delete, add | data layer; its delegate; main queue |
| `AddPlayerView`, `AddMatchResultView` | the half-entered player or result | edit, save | their controllers |
| `RealmDataProvider` with `RealmDataParser` | none but the Realm | `savePlayer`, `updatePlayer`, `loadPlayers`, `loadPlayer`, `deletePlayer` | RealmSwift |
| `StatsUtil` | none | `calculateStat` | - |
| views, cells, fonts, `AppDelegate` | what they display | display, forward taps | - |

Everything runs on the main thread. What makes it hard nevertheless:
handlers postpone work (`DispatchQueue.main.async`, `asyncAfter`, animation
completions) and the user taps on in between; errors come back through a
closure whose `return` does not leave the caller; two lists of players are
edited in parallel (the controller's and the table's, which moves its last row
into gaps); an NSException or a trap ends the process at once; and the process
can be killed at any moment.

### Realm

| part | what it keeps | modelled |
|---|---|---|
| `Realm.write`, `RLMRealm`, `RLMObjectStore`, `Object::create` | the stage of the transaction, the rows | the operations the app calls |
| `shared_realm` | the version read, the stage of the transaction | begin, commit, cancel, refresh, notify |
| `realm_coordinator`, `collection_notifier`, `results_notifier` | notifiers and the version they skip to, their callbacks with the changes for each | one Results with its callbacks, the worker, the deliveries |
| `transact_log_handler`, `collection_change_builder`, `index_set`, `list_notifier`, `DeepChangeChecker` | what has been done to tables and lists since the worker last ran | recording, comparing, merging and finalizing change sets, changes behind links |
| `sync_session` | its state, the sync client's session, completion handlers, a deferred commit | the state machine, errors, handlers, external references |
| `sync_manager`, `sync_user` | a map of sessions, the user's state and his sessions, two mutexes | opening and closing Realms, logging in and out, from several threads |
| `sync_file`, `sync_metadata` | Realm files, recovery files, rows about users and pending actions | file actions, users and their removal across launches |
| collections and objects, schema and migrations; permissions, partial sync, work queue | | no |
| core, sync client, UIKit | | external: what the code relies on |

Hard here: threads that interleave wherever a mutex is released, callbacks that
change what is being iterated over, notices that are merged or come late,
answers of an earlier incarnation that arrive in a later one, indices that are
valid in one version only, and the end of the process between two changes of the
disk.

What each part must guarantee, and where it could go wrong, is the list of
`hazards` in `PROJECT.json`, each at its line with the properties that cover it.

## Modules

    PlayerRows            a table by primary key: find, put, move_last_over
      PlayerTables        the object tables, loading and writing players
        PlayerStore       RealmDataProvider on Realm's write path, step by step
          PlayerProofs        its invariants, that it implements PlayerBook; the
                              percentage of MatchTally (TLAPS)
      W3Stats             both screens, the main queue, the store
        W3StatsProofs       its invariants and action properties (TLAPS)
    PlayerBook            abstract: what the data layer promises
    Overlay, Checkmark    the sliding panel with its blur; the checkmark
      (W3Stats)           Overlay twice, Checkmark once
    StatsUtil             calculateStat in exact binary64 arithmetic
      MatchTally          one win/loss pair and what is displayed of it

    NotifierCallbacks     the callbacks of a notifier, changes handed to them
      RealmCoordinator    commits, the worker thread, deliveries
        RealmCoordinatorProofs  what the operations on callbacks do to each, and
                                that nothing is lost on the way (TLAPS)
    IndexSet              sets of indices and how they shift each other
      ChangeBuilder       recording, merging and finalizing a change set
        ChangeBuilderProofs   index arithmetic; that all three are exact (TLAPS)
        RowDiff           the difference of two results of a query
          CollectionChanges   tables, lists, a query, and what is told of them
            CollectionChangesProofs  that lists and queries are told exactly (TLAPS)
    DeepChangeChecker     has a row changed, or what it links to
      (CollectionChanges) for the entries of a list and the rows of a query
    Difference            abstract: what a change set says of two sequences

    SyncSession           one session: states, tokens, handlers, commits
      SyncSessionProofs   its safety properties (TLAPS)
    SyncManager           a session among threads, its user and the map
      SyncManagerProofs   that it uses SyncSession, its invariants (TLAPS)
    SyncFiles             Realm files, recovery files and metadata on disk
      SyncFilesProofs     that no promised backup is lost or forgotten (TLAPS)

Each `MC...` module instantiates the module it is named after for TLC.

### The app and its data

**PlayerStore.** `disk` is what the last commit stored, `view` what the app's
one Realm instance shows, `stage` the stage of its SharedGroup. A call of the
data layer goes through `at`: "begin" (its own lookup and `beginWrite`),
"modify" (the block), "commit". Tables are sequences of rows; a player row
links to an entry of `stats`, which stands for a StatsObject and its four
DescObjects: they are created together by every `add`, with or without update,
and nothing ever deletes them, so updates leave orphans behind. Outcomes are
those of the code: a duplicate key and a transaction that is already open are
C++ exceptions that the binding turns into NSExceptions, which no Swift `catch`
sees, so the process `End`s; a commit that throws becomes an NSError, which
`RealmDataProvider` answers with `onFailed` while the transaction stays open.
A failed commit is taken to have stored nothing.

**PlayerBook** forgets tables, links, stages and steps: a function from names to
race and stats, changed by one outstanding request as a whole.
`PlayerStore!ImplementsBook` maps the committed tables to the book, following
links and converting the stored race.

**Overlay**, **Checkmark.** Assignments inside `UIView.animate` take effect at
once, completions later and uncancelled: `fades` and `timers` count those that
are pending. A blur that is hidden, transparent or still being animated lets
touches through to the buttons below (UIKit's hit testing), which is how a
panel can be reopened while its blur is fading out.

**W3Stats.** One action per handler. Data layer calls are one step here, with
PlayerStore's outcomes: committed, failed with the transaction left open
(`Committed`, `CommitFails`), or the end of the process (the actions ending in
`Ends`). `queue` holds the blocks of `presentPlayersViewController` and
`didSelectRowAt`; the latter keep only the row index. UIKit is external: a
presented screen or alert takes all touches, `present` is ignored while
something is presented, `dismiss` takes an alert away before the screen under
it. A failure alert has no button, so only `dismiss` or the end of the process
removes it. `MaxInt` is Int.max; arithmetic beyond it traps, after the commit
when it is `showStats` that adds up.

**StatsUtil.** The quotient and the product by 100 are computed exactly as
binary digits and rounded to 53 bits, to nearest and ties to even, then
truncated: the operator computes the percentage the program displays. The digits
follow from one another, as functions: `Division` gives one digit of the quotient
and what remains after each, `Columns` multiplies from the last digit on and
carries.

**MatchTally.** One of the four pairs of the shown player: a win, a defeat or a
number typed in, each followed by `showStats`. `MaxMatches` is below 2^44: so
far is what is said of the percentage proved. For more than some 2^45 matches
the exact percentage may come closer to the next whole number than the Doubles
near it do to each other, and the same could not be said.

### Notifications

**RealmCoordinator**, **NotifierCallbacks.** Three parties: commits from
elsewhere (another thread or process), the worker that runs the notifiers, and
the thread of the Realm, `at` a point of `Realm::refresh`, `begin_transaction`
or `Realm::notify`. They interleave wherever the code releases
`m_notifier_mutex` or `m_callback_mutex`, in particular while a callback runs:
it may add and remove callbacks and write. The worker runs a notifier with no
mutex that would keep callbacks away, and reads `m_have_callbacks` three times:
when the changes of the transactions could be collected
(`add_required_change_info`), before the query runs (`need_to_run`) and before
rows are compared (`calculate_changes`). Each is an action, and callbacks come
and go in between. If one comes after the first read, the rows are compared by
changes that have not been collected, and `calculate_changes` may then find any
part of what has changed. `others`, `woken` and `signaled` are
what connects them: a commit not yet announced, the pipe, the run loop source,
each of which merges what it is given. A change set is here the set of versions
whose changes it describes, so that a change lost or told twice can be seen;
what is in one is the business of CollectionChanges. `rows` is the version of
`m_previous_rows`. `told` and `mute` of a callback record what it has been told
and was to skip. The coordinator opens two SharedGroups of its own, one when the
first notifier registers and one when the worker first runs, and tries each only
once. Either may fail (`pin_versionFails`, `open_helper_shared_groupFails`):
`worker.pc` is then "failed" for good, which is `m_async_error`, and what would
have delivered changes calls `deliver_error` instead (the actions named
`...WithError`), which tells each callback of the error and removes it.

**CollectionChanges** has one table, a list in each of its rows, and a query on
the table. `TransactLogObserver` records every operation in the change set of
the table (`info`) and in that of the list it is at (`change`), which it finds
by the row number it keeps up to date (`lists`); the worker's `Run` completes
the lists' changes, compares the query's results with those of its last run
(`RowDiff`) and merges the outcome into what waits for the callbacks
(`accumulated`), which `Deliver` hands over. Rows and entries have names of
their own, which the code does not: `found` and `shown` are the sequences of
names at the last run and at the last delivery, and the properties ask, in terms
of `Difference`, whether a change set leads from one to the other. An `IndexSet`
is the set it stands for. An entry is called like the object it links to: no list
has an object twice.

An entry counts as modified also when an object is that it reaches over links.
`DeepChangeChecker` searches for one by a recursive function, to a limited depth, and remembers from entry to
entry which rows it need not search again. Its specification, `HasChanged`, is the
reachability the search is to find.

The code is known to break its promises in some situations. `strayed` records
those that have come up, and a property names the ones it excepts: it holds in
every behaviour in which they have not.

| `strayed` in RealmCoordinator | situation |
|---|---|
| added unheard | a callback is added during a delivery: the worker is not woken |
| added to a lapsed notifier | a callback is added to a notifier that has gone on without any: its rows are not those of its version (`List` works around this, `list.cpp:419`) |
| added during a run | a callback is added while the worker takes the notifier to another version, after it has read that there are none: its first call is for a version whose changes it is then told in part, or not at all |
| uncounted removed | a callback added during a delivery is removed during it, and counted down: the loop ends too early, or runs beyond the end of `m_callbacks` |
| nested write | a write is begun in a callback and moves the Realm under the delivery |
| left waiting | the worker fails to open its file while a thread waits for it: `run_async_notifiers` returns without `notify_all` (`realm_coordinator.cpp:644`) |
| skipped too early | a run that was under way clears the flag of a suppressed callback |
| **in CollectionChanges**, of a list | |
| changed when lost | an operation on a list is not recorded, or recorded for another, because `erase_rows` has lost track of its row |
| deleted after a change | the list's row is deleted after something has been recorded for it in the same run |
| **in SyncManager** | |
| closed before referenced | the last reference goes while another thread is getting the session, which it will not revive again |
| revived after log-out | a call that has found the user logged in revives the session when he no longer is |
| resumed | the application resumes the session of a logged-out user |
| erased alive | the session is revived between leaving its mutex and being unregistered, or afterwards |

### Sync

**SyncSession.** `state` and `session` (is there a `sync::Session`), the
completion handlers in `packages`, and what else the code keeps. An operation is
one critical section of `m_state_mutex`; where the code releases the mutex in
the middle (`handle_error`, `cancel_pending_waits`), the rest is a later step,
and any other operation may come between: `error` and `cancelled` hold what is
still to be done. `uploadWaits` are the completions that dying sessions wait
for, each with the number of its death, which are not withdrawn by a revival.
`m_session_has_been_bound` is initialised nowhere, so `Init` allows both values.
Handlers registered with a `sync::Session` that is destroyed are `aborted`: the
event loop calls them when it has terminated the session. What an upload
completion waits for (`UploadWait`) is documented in client.hpp: all that was
announced before it was asked for.

Commits are versions, and a thread of `Writers` makes one in three steps, as
`RealmCoordinator::commit_write` does: it commits, under the write lock and
`m_notifier_mutex` (`commit`); it reads the latest version, which may by then be
another's (`readVersion`); it takes the session's mutex and announces what it
has read (`nonsync_transact_notify`). So threads may announce in another order
than they commit. A sync session that is told of a version knows of those before
it, and an earlier one told later changes nothing; but
`m_deferred_commit_notification` holds whatever came last, so that for a session
that waits for a token the earlier version replaces the later one. `missed` is the last version whose announcement has
come to nothing, this way or because the session was dying. The other caller
(`partial_sync.cpp:97`) announces the version it has committed, as if it had read
it at once.

**SyncManager** is the same session with what surrounds it: the map of sessions
(`registered`), external references (`holds`), the temporary one in
`unregister_session` (`probes`), the user's state and which of his maps the
session is in (`user`, `among`), and the two mutexes that are held across calls.
`at` says what a thread is about to do; a step is what happens under one
mutex. Each step on the session is one of SyncSession's, instantiated without
handlers and writers, which no other module changes; `ImplementsSession` proves
it. After the end of the map has been used nothing is said any more
(`Undefined`).

**SyncFiles.** What is on disk survives `Crash`, what is in memory does not. One
step per change of the disk: copying a file takes two, so that half a copy can
be left. `configure` runs pending actions and then removes marked users, each
removal in several steps. An error writes an action for a Realm, in the one row
it has. Contents are numbered, and a Realm's file holds what was committed since
`born`: `diverged` is what it held when a backup was promised.

The definitions named `...` after "Mutant of" are wrong versions of the
definition that follows them; no specification uses them. Each shows that a
property notices the bug it describes (`mutants` in `PROJECT.json`).

## Runs

| run | bounds | states | what it shows |
|---|---|---|---|
| `player_store` | 3 players, 1 race, 2 values of stats, 4 sets of stats objects | 88,803 | tables stay well formed, a transaction is open between calls only after a failed commit, a commit stores the call in progress and nothing else, the data layer implements the book |
| `match_tally` | all pairs of up to 100 matches | 5,151 | the percentage is right or one too low at a whole number, a win never lowers it |
| `app` | 2 players, numbers up to 1, 2 postponed blocks, 1 fade, 1 checkmark | 1,340,469 | what is shown, listed and stored stays in step; a player comes into being only by the form, and only the one shown changes; a panel can always be opened again |
| `app_liveness` | 1 player, 2 fades, 2 checkmarks, otherwise as above | 220,963 | overlapping animations end and leave nothing covered or half faded; a screen without a player leads to the players screen, a tap on a player to the stats screen |
| `coordinator` | 3 versions, 2 callbacks | 2,626,912 | no change is lost or repeated between the worker and a callback; a delivery is whole whatever callbacks do meanwhile; the loop that calls them, with changes or with an error, stays inside their list |
| `coordinator_liveness` | 2 versions, 2 callbacks | 229,374 | waiting for the worker ends, but for the wait that its failure leaves; every callback is called and told of every change, or of the error |
| `change_sets` | see below | 695,308 | what is recorded, compared and merged leads from what a callback was shown to what there is, moves are moves, modified entries, also by what they link to, are the right ones in both versions |
| `sync_session` | 1 handler, 2 writers, 3 policies, 2 commits, 2 deaths | 833,725 | a handler is called once, a commit stays unannounced only in the ways named, a death awaits its own upload, a session that ends answers its handlers |
| `sync_manager` | 2 threads, 4 calls, 3 policies | 99,927 | a referenced session is up, a logged-out user's is down, a file has one session, calls end but for two deadlocks |
| `file_actions` | 2 Realms of 1 user, 2 recovery names, 2 contents | 278,505 | a promised backup is not lost wherever the process ends; a launch leaves an action undone only when it is blocked |
| `failed_save` | 1 player | | violated: see below |
| `lost_list` | 2 lists of 1 entry, 3 changes | | violated: see below |

Why these bounds are enough. Three rows are what it takes for `move_last_over`
to move a row that is neither deleted nor untouched; four sets of stats let a
player be saved, updated, deleted and saved again among others. Two of
everything in `app` give each interleaving of a postponed block with a deletion,
another selection or another presentation; numbers up to 1 make both traps
(incrementing Int.max, adding up) happen. A third postponed block meets the same
screens as the second. Names are interchangeable in `app` (symmetry); the
temporal run uses none. With 100 matches the pairs whose percentage the floating
point arithmetic gets wrong (29/50, 29/100, 57/100, 58/100) are included;
the proof covers the rest.

Three versions are two commits: one under way in the worker and one it has to
isolate by the version to skip. Two callbacks are what it takes for one to move
the other under the loop, to remove it before its turn, and to add one during a
delivery. The bounds are on versions and on callbacks ever added. The invariants also hold
with 2 versions and 3 callbacks, and with 5 versions and 1.

`change_sets` starts from a set of scenarios, each with a number of changes that
may fall on either side of a run and a delivery: a list of three entries with
four changes; two lists of one entry, noticed in either order, with three; a
query in the order of the table on three rows, of which any match, with three; a
sorted one on three rows with two and on four with one; a list and a query on
its table together; a list of two objects with 3,060 graphs of links among five,
of which one is modified, deep enough for the limit and with the cycles that cut
a search short. The table has at most five rows, a list four entries. Three
entries and three changes let an entry be moved, moved again and deleted, or
moved over a gap that is itself filled, before and after a merge; two lists are
what it takes for one to be lost.

In `sync_session` one handler is enough: every action and every property treats
each on its own, and sets of them are only united (the proofs have any number).
Two writers are what it takes for the second commit to be announced before the
first, which the sync session, a waiting one and a dying one each take in
their own way; two commits and two deaths let the completion of the first death
arrive in the second with more to upload. Two threads and the sync client's give each order of the two
mutexes; the four calls are, for instance, two openings, a closing and a
log-out. Two Realms of a user let one wait while the other's action runs, or
reserve the same name; of two names one can be taken by half a copy.

Deadlock is checked in every run but `sync_manager`, where the system really
stops: in the two deadlocks that `CallsEnd` names and after the end of the map
has been used. A Realm can always refresh; after `m_callbacks` was read beyond
its end the model only stutters. Everywhere else some step is always possible: the process can be
launched again, the worker can run once more, a closed session can be closed
once more.

**Fairness.** `app_liveness` assumes that the main thread gets to the blocks on
its queue (`WF(RunBlock)`), that the transition dismissing a screen ends
(`WF(PlayersGone)`), and that animations and timers, which have a length, end.
`coordinator_liveness` assumes that announcements arrive, that the
worker and the run loop go on, that a wait that is over ends (the worker ends
each run with `notify_all`) and that callbacks return; not that anybody commits
or ends a write: `EveryoneIsToldOtherwise` has for a premise that the thread does
not stay in a write for ever. `sync_session` assumes what the sync client
promises of its event loop (client.hpp): that the handlers of a sync session
that has been terminated are called, and that a thread that has released the
mutex goes on. Nothing is assumed of the server, of the network, of tokens or of
the user: `waitCompletes`, the server's answer, and `Upload` may never happen.
`HandlersAnswered` therefore says two things: a session that ends and is revived
again and again calls every handler; one that gets a token again and again
leaves none in its own queue, though the sync client may keep it for ever.
`sync_manager` assumes that a thread that is
not waiting for a mutex goes on. Nothing is assumed of the user, of the system
killing the process or of commits. `PlayerStore`, `PlayerBook`, `CollectionChanges` and `SyncFiles`
state no fairness: whether a call answers is not a property of theirs.

### Disagreements

Two runs show a property violated; `findings` quotes what each contradicts.

- `failed_save`: the `return` in an `onFailed` closure does not leave the
  handler, so the player reported as not saved is listed.
- `lost_list`: when the row of an observed list is deleted, `erase_rows` may
  leave another observed list, in the row that is moved over it, with its old
  row number; what is done to that list before the notifiers run again is told
  to nobody, or recorded for whichever list comes to be at that number.

Further departures from what the code says of itself are situations that the
properties above except, or outcomes of the models; the runs show that nothing
else goes wrong.

- A commit that fails leaves the write transaction open, and the next write of
  the launch ends the process (`OpenOnlyAfterFailure`); a result that could not be
  stored is acknowledged with the checkmark (`ShownIsStored`).
- A thread that waits for the worker when the worker fails to open its file waits
  for ever, with the write lock if it was beginning a write (`WaitEnds`).
- A callback added by a callback is not called until something else happens; one
  suppressed by `commitWrite(withoutNotifying:)` is told of that write when a run
  of the worker was under way in between.
- A list deleted after a change in the same run reports the insertions and moves
  recorded before as well, into a list that is gone.
- The comment on `calculate_moves_unsorted` promises a minimal difference when
  rows move only by `move_last_over`: of five matching rows, deleting the second
  and then the first reports two moves where one would do. That on
  `find_longest_match` promises to prefer, of equally long blocks, the one with
  fewer modified rows: for blocks of two or more it counts them in the wrong
  place for the first. Both differences are exact all the same.
- A session is closed for good although a Realm has it open, when its last
  reference goes while the next one is made, against sync_session.hpp:249-250;
  one is revived after `SyncUser::log_out` has returned, against "This will also
  close its associated Sessions" (sync_user.hpp:92).
- A session that waits for a token is to "notify at first available opportunity"
  (sync_session.cpp:196), but forgets a version when another thread announces an
  earlier one after it; what is forgotten waits for the next commit
  (`CommitsAnnounced`). So does what is announced to a dying session.
- A callback added while a run is under way that has found none may be told only
  a part of the changes of that run, or nothing (`NothingLost`).
- `SyncManager` takes its mutex and the user's in both orders, and may drop the
  last reference under its own mutex: the two deadlocks of `CallsEnd`.
- Saving an existing name ends the process ("duplicate name"), a row tapped twice
  can be gone ("row out of range"), a number near Int.max is committed and traps
  at each later display ("overflow"). Nothing written down says otherwise.

## Proofs

TLC checks the instances above; the theorems hold for every value of the
constants. The modules they are about have no recursive operators. Each proof
of a specification has the same shape: an inductive invariant `IInv`, an
`...IInv` lemma for each action or group of actions, and a last step that
combines them by temporal logic.

**PlayerStore** (`PlayerProofs`, first part). That the committed and the visible tables
are well formed (`TablesWellFormed`: keys are unique, every link leads to a
row) is not inductive: a launch copies `disk` to `view`, a commit `view` to
`disk`, and `remove` is defined only for a name that has a row. `CallInv` says
what is known in the middle of a call: outside the block the two are equal
unless a transaction has been left open, and the row to be deleted is there.
`PutWellFormed` and `RemoveWellFormed` are about the tables alone. Assumed:
`RacesAssumption` (the stored race converts back) and `NoCallAssumption`.
`DataLayerImplementsBook`, in its second part, is about **PlayerBook**: with
`PutLoads` and `RemoveLoads`, what loading yields after a put or a removal, each
step of the data layer is one of the book or leaves it alone. Only a commit
that succeeds changes the book, by the call in progress (`CommitsTheCall`).

**MatchTally** (`PlayerProofs`, second part). Both properties of `match_tally`,
for every pair of fewer than 2^44 matches. With m the 53 bits of the quotient
and n those of the product,

- `QuotientIsNear`: m is within half a unit of wins / total, shifted. Each digit of
  the long division keeps `Divided` (what has been divided plus what remains), and
  rounding adds or drops at most half (`RoundIsThis`, `AddUlpIsOneMore`).
- `TimesHundredIsNear`: n is within half a unit of 100 m, shifted. Before the first
  digit there are 7 columns, of which at most one stays zero (`FirstColumns`),
  so that 6 or 7 bits are rounded away (`SixBitsRounded`, `SevenBitsRounded`).
- `TwoRoundings`, `KeptIsPercentage`: together that is less than 2 / total, and with
  fewer than 2^44 matches less than what separates 100 wins / total from the next
  whole number. So what is displayed is a `percentage` with
  percentage * total <= 100 wins <= (percentage + 1) * total, and exactly 100 when
  all are won (`StatIsPercentage`).

`PercentageWithinOne` is another way to say this. `ResultsPushTheRightWay` follows
from it alone (`OneMoreWin`, `OneMoreDefeat`), without comparing roundings: were
the percentage to fall with a win, it would have been 100 before a match was
lost. The invariant, `Shows`, says that what is displayed is `calculateStat` of the
pair. Functions defined from their own values are shown to exist, with
these values, by `StepsAreThere`, which needs induction on one set of numbers
and no operator as a parameter.

**W3Stats** (`W3StatsProofs`). All the safety properties of the run `app`, for
any names and races, any Int.max and any length of the main queue. That what is
shown is what is stored (`ShownIsStored`) is not inductive. The parts of `IInv`
say why it stays so although blocks are postponed and two lists are edited:

- `PlayerInv`: the player is the stored one as soon as the players screen begins
  to leave, not only when it has gone; before, he may have been deleted.
- `QueueInv`: a block that selects a row waits only while the players screen is
  up or leaving, so what it shows has not been replaced by another presentation.
- `ListInv`: while that screen is there its list has each stored name once, hence
  removing one row from each keeps them together (`DropRowDrops`, `RemovalIsListed`).
- `StoreInv`: the app sees what is committed unless a commit has failed;
  `EndedInv`: nothing else outlives the process.
- `PanelInv`, `MarkInv`: the blur is dimmed exactly while the panel is up, and a
  completion that is to hide what is still shown is pending; this is what
  `AnimationsSettle` and `CanAlwaysAddPlayer` come to.

For the two action properties `NextRows` classifies all steps: nothing stored
changes, or one number of the shown player does (`ChangesShown`), or the form's
player is added, or a listed one deleted, or the process ends. `OneDiffers`
shows that a result added or edited differs from what was there in one number
only. Assumed: `IntAssumption` (Int.max is at least 1) and `BoundsAssumption`.

**RealmCoordinator** (`RealmCoordinatorProofs`). The invariants of the run
`coordinator`, for any number of versions and callbacks. The first part
states, field by field, what adding, removing, suppressing, packaging and
calling (NotifierCallbacks) do to each callback. `IInv` has two cases.
Once the worker has failed, `FailedInv` holds for good: the notifier has never
run, nothing is in anybody's hands (`Untold`), and the loop of `deliver_error`
stays inside the list (`LoopBounds`). Until then `WorkingInv` does, whose parts
say why a change is in one place:

- `Ordered`: the worker goes forward, and never past a commit it is still to
  stop at (`skip`, `worker.skip`); `Held`: a callback holds nothing newer than
  the notifier's version.
- `RowsCurrent`: where callbacks can rely on it, the rows compared with are those
  of the version handed over, so that what a run finds continues what was found
  before; and a run that has gone by the first two reads of `m_have_callbacks`
  with somebody to tell has collected the changes that the comparison needs.
- `WriteCaughtUp`: a write transaction begins with everything delivered, hence a
  commit can be suppressed for a callback without suppressing more;
  `SkipsTheNext`: its skip flag is for the very next version the worker stops
  at.
- `AheadIsTold`: a Realm that is ahead of the worker has told its callbacks
  everything, so `advance_to_ready` discards nothing of theirs.
- `LoopInside` (`LoopBounds` and more), `PackagedToCall`: the loop's index and count stay within the
  list, and what is packaged is packaged for those it has yet to come to.
- `Registered`: nothing happens to a notifier before the worker knows it.

Each part is needed only while nothing has strayed that it depends on, and says
so. Assumed: `BoundsAssumption`, that there is a version.

**SyncSession** (`SyncSessionProofs`). Handlers are kept until they are called,
commits are announced and a death awaits its own upload, for any number of
handlers, writers, commits and deaths. Needed besides: there is a `sync::Session`
in the states that have one (`ClientSessionMatches`); of the last commit a sync
session has been told or is to be when the token has come, unless a thread has
yet to read or announce it (`OnItsWay`) or it was missed (`CommitsKept`); and the
waits are numbered by deaths that have been (`DeathsNumbered`).

**SyncManager** (`SyncManagerProofs`). `ImplementsSession`: whatever threads,
user and map do, the session only takes steps of `SyncSession`. One session per
file, a referenced one is up, a logged-out user's is down, save for what
`strayed` records. Strengthened by who holds which mutex where (`MutexesHeld`),
what a thread knows between two steps, and that the user's maps follow his
state (`UserFollowed`). Assumed: `ThreadsAssumption`, that the sync client's
thread is not among those of the program.

**SyncFiles** (`SyncFilesProofs`). `NothingUnsavedLostHolds`: a promised backup
is not lost, wherever the process ends. By induction every Realm whose content
is promised still has it, in its file with the action pending, or in a recovery
file (`BackupIsPending`), or its file was deleted on another request
(`DeleteIsExcused`). `LeftoverIsBlockedHolds`: a launch leaves an action undone
only where a recovery file or a refusal blocks it. `ActionsAccounted` follows
each action through the launch: it is still to be run, has been run, or is
blocked for good, since no step removes a recovery file (`BlockedKept`).
Assumed: that every Realm has an owner, and the bounds.

**ChangeBuilder** (`ChangeBuilderProofs`). A change set takes each index that is left to one before: `Before`, the composition of
`unshift` by the insertions and `shift` by the deletions. It keeps the order of
indices, and it is the only such map (`InOrderIsBefore`); so two ways of counting
past deletions and insertions agree as soon as both keep the order, and no
cardinality has to be computed again. On this rest:

- recording: if what is recorded of a list makes it of what the worker saw last
  (`Records`), it does so after one more `insert`, `erase`, `move`, `modify` or
  `clear` too (`InsertRecords` and the others). `Records` has more than what is
  asked: entries are distinct, all deletions are indices of the old list, and
  every entry that is deleted and inserted has its one move; without it a second
  move of an entry would be taken for a first one.
- `MergeLeads`, `MergeIsExact`: of two exact change sets, one continuing the
  other, the merge is exact. The loops of `merge` are folds; lemmas about the
  set of indices visited so far replace their induction (`FoldIsThere`,
  `UpdateOne`, `CleanUpSteps`). `MergeIsExact` assumes that no entry that has
  left comes back, which those of a list never do.
- `MergeTracks`: if a change set tells of modifications just those in one set, and
  another, continuing it, those in a second, the merge tells those in either
  (`Tracks`): of all entries but those that are new, which an entry that left and
  came back is as well. Nothing has to be assumed of such entries, so it holds of
  queries, whose rows do come back.
- `FinalizeIsExact`: what a callback is handed then names the modified entries
  of the old list and those of the new one, the same ones.
- tables: what is recorded of one (`RecordsTable`) is of another kind, since a row
  goes by the last one taking its place. Until the transaction ends, rows not
  inserted are where they were, and the mapping has every old row that is
  elsewhere, with the index it had. `AddingRecordsTable`, `MoveOverRecordsTable`,
  `ModifyRecordsTable` and `ClearRecordsTable` keep this, whichever of the row that
  goes and the last one were there, were added or had moved before, and
  `ParseIsExact` concludes that the change set made of it is exact, the moves
  listed by where they are from (`ByFromLists`).

**DeepChangeChecker** (`ChangeBuilderProofs`, last part). `RowDidChangeIsExact`: asked
for any rows in any order, the search names just those from which a modified one
is less than `MaxDepth` links away, whatever the links. That it is cut short, at
the depth and at columns the path follows already, and remembers rows from one
search to the next, must make no difference; but what is not found from a row at
one depth may have been left out because of the path above it. What the search
of a row leaves behind when it finds nothing is therefore stated for each depth
j of its path (`NothingBeyond`): unless the path is marked just above j, nothing
modified is reached from the row in the `MaxDepth` - 1 steps a search from there
might want, other than through columns followed from j on. For j the row's own
depth this is what may be remembered (`Remembers`); for j = 0 it needs no mark, has
only the steps that are left, and is the answer at the first row. A way through
a column twice can be shortened (`ReachedFromLink`), so columns not followed again
lose nothing. The proof goes from the greatest depth to the first; `RecursionIsThere`
says that the recursive function is there, as it is for `find_longest_matches`.

**CollectionChanges** (`CollectionChangesProofs`). `ListsAndTableAreExactHolds`:
with any number of rows, lists and entries, and any sequence of operations, runs
and deliveries, every list that has not strayed is told of exactly, and the table
is recorded exactly for the query. `TableInv` is `RecordsTable` of the rows the
worker saw last and those there are now, which are distinct. `IInv` says of
each list that what has been recorded since the last run is `Records` of it, that
what waits for its callbacks leads from what they were shown to what the worker
found, and that an entry they know which is still there was found by the worker
as well (`ListInv`): so that none returns, as merging requires. `NamesApart` says
that the objects in lists are no rows of the table, and link to objects. Assumed:
`ScenariosAssumption` (how a scenario is written: its lists are in rows of its
table, which has at most `MaxRows`; entries and objects are named unlike rows, an
entry is in its list once, links lead to objects whose links are given, if only as none; without
a query no rows match one) and `BoundsAssumption`. `MaxRows` is what
`clear_table` takes for the number of rows, the greatest `size_t` in the code.

`QueryIsExactHolds` says the same of a query, in the order of the table or sorted in
any way. Its proof has four parts.

- *The comparison in the order of the table* (`UnsortedIsExact`). The loop of
  `calculate_moves_unsorted` keeps `Apart`: the rows taken for moved so far are
  just those whose indices have been added to the insertions and to `removed`;
  the others are in their old order, below `expected`; and every row still to
  come was behind them. The step that is not obvious is a row found at
  `calc_expected`, behind `expected`: none of those to come may have been before it
  (`NoneBefore`, by counting: as many rows precede it now, without the
  insertions, as preceded it before, without what was removed). The loop is a
  fold over the rows; its end is reached by induction on their number.
- *The candidates* (`OnlyMovedComeBefore`). A row that is no candidate is taken
  for unmoved without looking further, which is right only if nothing that comes
  after it was before it (`OthersStay`). It is so because `move_over` takes rows
  only towards the beginning (`Descending`), and every one that it has moved is
  among the insertions `parse_complete` makes.
- *The comparison of sorted rows* (`SortedIsExact`). `find_longest_match` keeps the
  longest block found so far and the one that ends at the last row, both in both
  sequences and within the ranges given (`MatchRowMatches`). The recursion of
  `find_longest_matches` is a function on all ranges; it is there because each
  range it goes on with has less rows (`RecursionIsThere`, `SmallerRanges`), and the
  blocks it collects form a `Chain`, by induction on the rows left. The loop that
  aligns them keeps `Aligned`: up to where it is, the rows in blocks are in the same
  order in both, all others are deleted and inserted. That the blocks are the
  longest does not matter for this. `CalculateIsExact` puts both comparisons
  together, and says that of the rows that stay just those that have changed are
  told as modified.
- *The runs*. `QueryInv` says that the query found rows which the worker saw last
  (`SomeOf`), in their order if it is not sorted (`InOrderOf`), so that `calculate_changes` looks up
  each in the recorded change set (`RowsOfQuery`), and that what waits for its
  callback leads from what this was shown to what the query found. Nothing is
  needed about rows that return: only lists promise that every move is told.

`ModificationsAreToldHolds`, for lists and queries alike, brings these together with the search
beyond links. Each run tells of the entries or rows that stay just those that
were modified or link to something modified: those of a list because what is
recorded of it names the ones modified themselves, and `RowDidChangeIsExact` gives
the others (`ListTells`); those of a query because nothing links to rows, so
that a row has changed only if it was modified itself (`ChangedRows`,
`QueryTells`). `TrackInv` is that what waits for a callback `Tracks` all
modifications since it was shown something last. A run keeps it by `MergeTracks`;
a delivery empties both sides; no operation touches either. What `finalize` makes of
it names the same entries twice, where they were and where they are (`KeptAre`,
`SameModifications`).

TLC has checked each `IInv` too, on the bounds of its run, but for those of
`CollectionChanges`, which quantify over all sequences: there TLC checks what
follows from them.

Only model-checked is what is temporal: `AnimationsEnd`, `NoPlayerLeadsToPlayers`,
`TapLeadsToStats`, `WaitEnds`, `EveryoneIsToldOtherwise`, `HandlersAnswered`,
`CallsEnd`. Liveness under fairness is beyond the prover.

## Not modelled

- *The app:* layout, fonts, colours, images and the text of labels; the keyboard
  handler; which picker entry is highlighted; that opening the file fails, or
  that it needs a migration (the process ends at the launch); other threads or processes at the app's file, of which there are
  none.
- *Notifications:* several notifiers, which may be at different versions, and
  those of objects; notifiers released while they run; binding contexts and key-value observation; `before` callbacks;
  run loops nested in callbacks; Realms without automatic refresh.
  `add_callback` wakes the worker before it sets `m_have_callbacks`, both under
  `m_callback_mutex`; the model has them in one step. A worker that makes its whole
  run in between finds no callbacks, like one that made it just before: the first
  call, which this thread makes later, is due in either case, and a notifier
  that was lapsed by such a run counts as "added to a lapsed notifier".
- *Change sets:* changes by column, `swap` and `subsume`, how an `IndexSet` keeps
  its ranges.
- *Sync:* a second session object of a file, sessions for management and
  permissions, resetting the encryption of the metadata, `override_server`,
  multiplexing, progress and connection notifications, the work queue, partial
  sync, permissions. A user who logs in again after his removal gets another
  directory, hence is another user of the model. No order is assumed of what the
  sync client's event loop calls.
- *The rest of the ObjectStore and of the binding:* collections, objects, thread
  safe references, schema comparison and migrations. They are sequential, and
  this app uses them with one schema version.
- *Core and the sync client* are prebuilt, and only their headers are here:
  external. The bulk of the repository's lines are those headers.

## Plan

Done, in this order: the data layer with its abstraction, both screens, the
percentage; notifications; sync sessions, threads and files; change sets.

Left, the most useful first:

1. several notifiers, which the worker brings to one version;
2. an abstract specification of delivery (a callback, the versions it is told of)
   which `RealmCoordinator` implements where nothing has strayed;
3. the work queue and partial sync's subscriptions.
