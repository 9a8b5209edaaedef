# Chandler: a model of sharing and of the tasks that run it

Chandler is a desktop organizer written in Python. Its items live in a
repository, several views of which threads work on at the same time, and its
collections are shared through servers and mail. Sharing is where the program is
hardest to get right: two or more users edit the same items while offline, a background thread merges the
edits, and the user settles what conflicts. This directory holds TLA+ models of
that core, the TLC configurations that check them, and proofs that TLAPS checks.

Paths below are relative to the repository; `sharing/` stands for
`chandler/parcels/osaf/sharing/`, `osaf/` for `chandler/parcels/osaf/` and
`chandlerdb/` for `internal/chandlerdb/chandlerdb/`.

## 1. Inventory

| Component | State it keeps | Operations | Talks to |
|---|---|---|---|
| EIM record algebra (`sharing/eim.py`) | none; immutable records, record sets, diffs, filters | `+`, `-`, `\|`, `+=`, `remove`, `sync_filter`, `explain` | used by everything in sharing |
| Sync state (`sharing/shares.py`) | `State` per shared item and peer: `agreed`, `pending`, `pendingRemoval`; `Share`, `SharedItem.conflictingStates` | `merge`, `autoResolve`, `apply`, `discard`, `getConflicts`, `Conflict.verify` | conduits call `merge`; views read and settle conflicts |
| Record-set conduits (`sharing/recordset_conduit.py`) | sync token, last synced repository version, resource etags, states by alias | `sync`, `_sync`, `getRecords`, `putRecords`, `TokenMismatch` retry | `State`, translators, the server, the share's view |
| Translators (`sharing/translator.py`, `sharing/model.py`) | none | `exportItem`, `importRecords`, `resolve`, `explainConflicts` | items in the view |
| Cosmo, WebDAV, iCalendar conduits | server tokens, resources | HTTP requests, chunked puts, parsing | the network |
| Item-centric sharing (`sharing/itemcentric.py`, `stateless.py`) | `State` per correspondent | `outbound`, `inbound` | mail messages |
| Background sync (`sharing/__init__.py`) | `interrupt_flag`, `running_status`, `current_activity`, `shutdown_deferred` | `run`, `scheduleNow`, `interrupt`, `shutdownCallback` | task runner, reactor, view pool, shares |
| Task runner (`osaf/startup.py`) | `TaskRunner._cache`, `running`, `pending` (the delayed call), `runlock` | `run_once`, `_run`, `stop`, `reschedule`, `reschedule_if_running` | Twisted's reactor and thread pool |
| Activities (`osaf/activity.py`) | `abortRequested`, status, listeners | `update`, `requestAbort` | syncs, dialogs |
| Conflict dialog (`application/dialogs/ConflictDialog.py`) | the conflicts it was opened with | accept, discard, close | `Conflict.apply`, `Conflict.discard` |
| View pool (`sharing/viewpool.py`) | free and used views | `getView`, `releaseView` | background sync |
| Repository views (`chandlerdb/persistence/`) | version, change log, merge state | `commit`, `refresh`, `cancel`, merge | the store, other views |
| Repository items, collections, indexes (`chandlerdb/item/`, `util/`) | values, linked maps, skip lists, set expressions | insert, remove, move, iterate | views |
| Mail services (`osaf/mail/`) | request queues, `lastMessageUID`, folders | download, send, shutdown | reactor, network, views |
| Domain model (`osaf/pim/`), UI (`osaf/framework`, `osaf/views`) | items, stamps, recurrence, blocks | edits and views of them | repository |

How they interact: the reactor's timer or a request starts a run of the
background sync in a pool thread; that run borrows a view and takes one share
after another; the conduit gets the changes since its token and for every
changed item calls `State.merge` with the local records, applies one result to
the item, puts another to the server, and keeps the rest as conflicts; at the
end the view is committed, which merges it with what the user did meanwhile in
the main view. The user opens the conflict dialog and accepts or discards
conflicts one by one, while syncs go on. Mail arrives through a client in the
reactor's thread and the mail worker's thread, which commits a view of its own;
a message that carries an item goes through the same `State.merge`.

What makes each component correct:

- **EIM**: what `a - b` sends makes `b` into `a`; `|` finds the same conflicts
  at both ends; the loops over Python sets give one answer in any order.
- **State**: `agreed + pending` is what the peer held at the last sync. Merging
  rebuilds the peer from it, so if it is wrong nothing later is right. No edit
  is lost silently, no conflict is invented, filtered fields stay at home.
- **Conduits**: an item changed on several clients reaches all of them; a sync
  that is retried or dies half-way loses nothing; a removal is not undone.
- **Task runner, background sync**: one timer, one run at a time, the next sync
  always comes, and quitting waits for the sync under way and for nothing else.
- **Repository views**: a commit is atomic and based on the newest version; a
  refresh merges or reports a conflict.
- **Mail**: a message that is passed over was converted, and a client does not
  begin anew before the worker is done: the code keeps to both only in part, and
  section 3 says where it does not; a client's lock is released again; an item
  that is mailed to and fro follows the newest message; quitting does not hang.

Hard behaviours: edits of two users between two syncs in every combination; a
dialog that is open while a sync merges; removal against change; retries;
threads (reactor, pool, UI) that share flags without locks; shutdown in the
middle of a sync. `PROJECT.json` lists them as hazards, with the line where
each bites and the properties that are about it.

## 2. Modules

| Module | Code | Role |
|---|---|---|
| `EIM` | `sharing/eim.py` | records, record sets, diffs, filters as functions; the operators |
| `EIMLoops`, `MCEIMLoops` | `eim.py` 289-313, 371-410 | the set loops behind the operators, against `EIM` as reference |
| `StateMerge` | `sharing/shares.py` 173-586 | `State.merge` (both modes), `autoResolve`, `discard`, conflict explanation, `verify` |
| `ShareState` | `recordset_conduit.py` 578-669, `shares.py`, `ConflictDialog.py` | one shared item: edits at both ends, syncs as one step, the dialog |
| `ShareStateQuiet` | as above | the same with users who stop, for convergence |
| `MailedItem` | `sharing/itemcentric.py`, `shares.py` | one item mailed to and fro |
| `MCShareState` | | the two above for all kinds of sharing |
| `RecordSetSync` | `recordset_conduit.py` 120-1080, `shares.py` 752-790, `viewpool.py`, `utility.py` | one sync in steps: get, put, mismatch, commit, failure; items that leave and return |
| `MCRecordSetSync` | | that `RecordSetSync` implements `ShareState` |
| `RepositoryViews`, `MCRepositoryViews` | `chandlerdb/persistence/DBRepositoryView.py`, `chandlerdb/item/` | views over one versioned store: change, delete, refresh, cancel, commit |
| `AtomicCommits` | | what the views promise, in one step per commit |
| `TaskRunner`, `MCTaskRunner` | `osaf/startup.py` 189-375 | reactor inbox, timer, thread pool, lock, weak cache of runners |
| `BackgroundSync` | `sharing/__init__.py` 179-427, `startup.py`, `Application.py` | the task the runner runs; interruption and shutdown |
| `MailDownload` | `osaf/mail/` (`base.py`, `imap.py`, `pop.py`, `mailworker.py`, `mailservice.py`), `chandlerdb/persistence/Repository.py` | a client's download session and the mail worker |
| `StateMergeProofs`, `EIMLoopsProofs` | | the operators: lemmas, and that the loops compute them |
| `ShareStateProofs`, `MailedItemProofs`, `RecordSetSyncProofs`, `RepositoryViewsProofs`, `BackgroundSyncProofs`, `MailDownloadProofs` | | the theorems about each component; those of the task runner are in `BackgroundSyncProofs` |

`StateMerge` extends `EIM`; `ShareState`, `MailedItem` and `RecordSetSync` extend
`StateMerge`; `BackgroundSync` extends `TaskRunner` and uses its actions
unchanged, only `Request` is barred once the user quits and run() is expanded
into its steps. `MCRecordSetSync` and `RepositoryViews` instantiate `ShareState`
and `AtomicCommits` with refinement mappings. The MC modules `MCShareState` and
`MCTaskRunner` hold several kinds of one system side by side, of which a
behaviour chooses one at its beginning.

### EIM and StateMerge

A record set holds at most one record per key, so it is a function from keys to
records, and a record a function from fields to values; a field that a partial
record does not mention is `NoChange`, a key without a record has the record
`Blank`. A diff has inclusions `inc` (a record set) and exclusions `exc`; of the records that Python keeps in
`exclusions` only the keys matter, and the model keeps those. Key fields are in the
key. Record classes are not told apart: a key stands for one record of one class.

`MergeReadOnly` is the `readOnly` branch of `merge`. Left out of it: the
`ModifiedByRecord` clean-up that `_sync` does after a read-only merge, and the
special treatment of triage status and of modifications of recurring events.
`LocalWins` and `RemoteWins` abstract `SharingTranslator.resolve` to what it
looks at: whether the values are set, whether anything was agreed, and
whether the field is one of those it lists (`NonNoneField`).

### ShareState

`local` is what `exportItem` yields, `external` what the peer holds, `seen` what
it held when the last sync ended (what the sync token stands for), `state` the
`State` item and `dialog` the conflicts that the open dialog still offers.
`Sync` is one pass of `_sync` over this item: the inbound diff (or record set),
`merge`, `autoResolve` when there are conflicts, `importRecords`, `putRecords`.
It is one action here; `RecordSetSync` has the steps, and `MCRecordSetSync` shows that
they amount to it. `OpenDialog` calls `verify`, which may discard conflicts as
a side effect. `Accept` and `Reject` are `Conflict.apply` and `Conflict.discard`.

With `DialogSurvivesSync = FALSE` a sync and an open dialog exclude each other.
That is an assumption, not something the code enforces; the run `stale_dialog`
shows what happens without it.

### MailedItem

The receiver of an item that two people mail to each other. `sent` are the
peer's messages, of which any may come at any time, again and again or never:
`Inbound(n)` needs no order. The code numbers messages by the item's version in
the sender's repository; the model by their place in `sent`, from 1. `Outbound`
sets `agreed`, whether or not the message then arrives. `newest`, `edited` and
`base` are history variables of the properties: the newest message that came,
whether our user ever changed the item, and what it would be without those of
its changes that were never mailed.

### RecordSetSync

One client, one item, and a server with any number of other clients, who put
what they like at any time. `repo` is what the client's repository holds: where
the item is (in the collection, out of it, deleted), its records, its `State`
(with `pendingRemoval`), and whether a version later than the last sync's has
changed it. `view` is the same in the view of a sync that is under way; it is
dropped by `Fail` and merged into `repo` by `Commit`, with mergeFunction's rule
that the view wins what it has changed. In place of tokens and the server's
history the model keeps what a token stands for: the changes after it
(`missed` after the committed token, `news` after that of the view). `Get` is
`_sync` up to `putRecords`, following its order: receive, merge, conflicts on
removal, import and addition to the collection, removal, review of the states.
`Put` fails with `Mismatch` when others have put anything (`stale`), and then
`Share.sync` runs the conduit again in the same view, `Tries` times in all.
`Fail` is any other failure, before or after the put, of the commit, or of the
process. `discarded` records that a retry forgot a change (the finding below), which
lets the other properties be about everything else. A change is also forgotten
when the review of the states put the item's removal in place of what the merge
wanted to send (`withheld`), and that put was refused: an item with one field
does not show it, one with two does. Filtered fields are compared nowhere
(`AsShared`).

### RepositoryViews and AtomicCommits

`history` is the store, a sequence of versions; each has the content of every
item and what was written to reach it. A view has a version, its log of changed
items with their changes, deletions that are deferred and deletions in effect,
and how far its commit is. `RefreshForwards` is one pass of
`_refreshForwards`, to the next version in views that notify and to the newest
in others, with its scan of the history, which may raise. `Begin`,
`RefreshToCommit`, `Lock`, `Write` and `Abort` are `commit`: refresh until the
view holds the newest version under the lock, carry out deferred deletions,
write one transaction, which may be aborted by a deadlock and tried again, or
given up. Merges are decided as `mergeFunction` (this view wins; the sync's
views) or as `otherViewWins` (the mail worker's, the default) do.

`AtomicCommits` knows neither versions nor refreshes nor locks: each view has
changes, and a commit puts all of them on top of what is committed. A view may
only give up a change that another view's commit has replaced (`unseen`), or
that makes no difference.

### TaskRunner and BackgroundSync

`inbox` is what other threads handed to the reactor (`callFromThread`), which
takes it in order. `jobs` is the thread pool's queue. A delayed call counts in
`timers`. `thread[t]` says what a pool thread does: it holds a job that it took
(`run_once`, `_run`), runs the task (`run`, holding `runlock`), or has its
answer (`ran`, still holding it). The delayed call hands `run_once` to the pool,
which hands `_run` to the pool again: that is how `startup.py:242` is written,
although `startup.py:192` says that all methods but `_run` are called in the
reactor thread only. `cache` is weak; `Collect` takes an instance from it that
no timer, callback, job or thread refers to.

`BackgroundSync` follows `run` line by line, one action for each access to a
variable that other threads use. The Deferred is `none`, `waiting` or `fired`,
Twisted's reactor `up`, `before` (it waits for the Deferred) or `down`.
`Interrupt` and `RequestAbort` are the two assignments of
`interrupt(graceful=False)`, `StopReactor` is `stop_reactor`. An error may come
out of every request and every commit: it ends the share (`ShareDone`) or the
run (`CommitOrFail`).

### MailDownload

The reactor's thread runs the client: `Connect` (the user or the timer asks for
mail and `performingAction`, here `client.locked`, is free), `CheckForNewMessages`,
`FetchMessage` one by one with a batch for the worker whenever it is full,
`Finish`. A disconnection is under way in `exits` until `Disconnected` resets
the client's variables, which may be those of a later session. The worker waits
on its condition, takes requests, converts and commits, or fails in any of the
ways the code has; its answers come back through `inbox`. The main thread quits
at any time (`Quit`, `Terminate`, `Join`). IMAP and POP differ in what is noted
(a UID below which all is done; the UIDs that were seen), in the order of
messages, and in who releases the lock; `account` says which it is and whether
the account asks for messages with Chandler's header only.

Failures are told apart by whom they reach. `ServerError` is what ends in
`catchErrors` of the session that is under way. A POP server that does not greet
in time (`TimeoutBeforeGreeting`) reaches nobody: the client is `mute`, with its
lock, until the server closes the connection (`MuteServerCloses`). A session whose
variables a late disconnection has reset goes on as an `orphan`; it ends in
`catchErrors` (`OrphanFails`), or its connection is closed while no command waits
(`OrphanStalls`), of which nobody is told either: the client is `stalled`.

`lost` says of each message what went wrong with it, if anything did: it could not
be converted (`failed`), none of its batch could (`cancelled`), something failed
in the worker while it had the batch, such as the commit (`unsaved`), or a
session or the worker stopped before it was dealt with (`left`, IMAP only: a POP
session that is broken off has noted nothing). A message that is converted later
is no longer lost. `cut` says that something has gone wrong since all was last
quiet (`Quiet`: no request, answer, disconnection or orphan is left).

## 3. Runs

| Run | Question | Result |
|---|---|---|
| `eim_loops` | do the loops of `update` and `_merge` compute the operators, in any iteration order? | holds, 98,292 states |
| `share_state` | five kinds of sharing: baseline, no silent loss, no false conflict, no overwritten edit, filtered fields at home, mail in any order; both sides equal once nobody edits | holds, 59,587 states |
| `record_set_sync` | tokens, retries, lost answers, failed commits, removals; everything the user did gets through; the steps implement the atomic sync | holds, 429,637 states |
| `repository_views` | do concurrent views implement atomic commits? do deferred deletions avoid conflicts? | holds, 207,916 states |
| `task_runner` | `stop`, `reschedule`, requests and runs that end the task; a `DurableTask`, whose next run always comes | holds, 257,474 states |
| `background_sync` | flags, status and Deferred between three threads; the next sync always comes | holds, 76,471 states |
| `mail_download` | is a message that is passed over converted, or lost in one of the ways named? does a session begin with the lock and after the last one's requests? is the lock released again? does quitting end? | holds, 681,261 states |
| `stale_dialog` | a conflict is decided in a dialog opened before the last sync | violated |
| `token_mismatch` | does the retry after a `TokenMismatch` lose nothing? | violated |
| `deleted_elsewhere` | is a conflict with a deletion by another view resolved? | violated |
| `mailed_edits` | does an edit survive the updates that arrive before it is mailed? | violated |
| `background_sync_shutdown` | does a shutdown that waits for the Deferred go on? | violated |

### What the violations show

- `stale_dialog`: `State.apply` and `State.discard` add the conflict's change to
  `agreed` and ignore that it is no longer pending (`shares.py:352`, `:365`).
  The user opens the dialog on a conflict, a background sync learns that the
  peer has changed the field again, the user rejects the old conflict: now
  `agreed + pending` is not what the peer holds, and the next merge starts from
  a state that never existed there.
- `token_mismatch`: the first try merges and counts the user's change as agreed,
  its put is refused because others were faster, the second try runs in the same
  view (`shares.py:774`), finds nothing to send, and succeeds. The item differs
  from the server's from then on, with nothing to fetch, to send or to decide.
- `deleted_elsewhere`: others change an item in one version and delete it in the
  next, while this view has a change of it. The refresh resolves that by
  deleting the item here and scans the history once more; the scan now finds the
  item among the view's own deletions at a version in which it still exists,
  and raises (`DBRepositoryView.py:885`). The view stays behind with a deletion
  nobody asked it for.
- `mailed_edits`: a mailed item is edited, and before the edit is mailed two
  updates arrive that do not touch the field. `inbound` drops what
  `State.merge` would send, but `agreed` counts it (`itemcentric.py:124`), so
  that the second update looks like the peer's change back, and is applied.
- `background_sync_shutdown`: the Deferred is fired in `except ActivityAborted`
  only. The flag and the abort come first, and the reactor asks later; if the
  run was already past its last check, or fails, or is offline, or has handled its
  abort when the reactor asks but not yet reset `running_status`, nobody fires
  the Deferred that the reactor then waits for.

Mail has disagreements without a run of their own; the steps are in
`MailDownload`, whose properties except what they lead to:

- When the commit of a batch fails, `handleError` cancels the view and the worker
  goes on with the next request (`mailworker.py:143`). Over POP that is, at the end
  of a session, the `UID_REQUEST` (`pop.py:600`), which marks the batch's messages as
  seen (`mailworker.py:364`); over IMAP the next batch, if there is one, moves
  `lastMessageUID` past them. They are lost although nothing is wrong with them.
  `NothingSkipped` excepts them as `unsaved`.
- When no message of a batch can be converted, the worker leaves `lastMessageUID`
  alone, as to note it "will prevent the messages from being downloaded and
  processed again" (`mailworker.py:224`). The next request of the same session notes
  a higher one, and over POP the `UID_REQUEST` does. `NothingSkipped` excepts
  them as `cancelled`.
- IMAP messages are fetched in the order of a dictionary (`imap.py:981`), and the
  UID that is noted after a batch may be above those of the next: a session that
  breaks off in between leaves messages behind (`left`).
- "The client needs to block [...] until the MailWoker has complete all requests
  from the client and processed the clients DONE_REQUEST" (`base.py:593`). A POP
  client that searches for Chandler's header and finds nothing queues a
  `UID_REQUEST`, sends no `DONE_REQUEST` and unlocks itself (`pop.py:438`). And
  after an error the lock is released at once, whatever is queued; a
  `DONE_REQUEST` that is left then releases the lock of the next session.
  `BlocksUntilDone` excepts that one request, and all that follows an error (`cut`).
- `timeoutConnection` is said to "forward to delegate.catchErrors" (`pop.py:135`). It
  calls back the commands that wait, of which there is none before the server's
  greeting (the first is sent at `pop.py:87`), and closes nothing: a server that
  accepts connections and stays silent keeps the client locked. The same is true of
  a session whose connection is closed after a late disconnection has set
  `sendFinished` (`base.py:642`), as `_processConnectionError` then does nothing
  (`base.py:170`). `MailGoesOn` excepts both (`mute`, `stalled`).

Two smaller disagreements about sharing have no run. `verify` discards a pending
change of a record that the item has lost, although the comment says that pending changes
"all match local item" (`shares.py:583`); and `autoResolve` puts local values
into `agreed` on a read-only share too, against the comment in `merge`
(`shares.py:270`). Both are in the models as the code has them.

### Bounds, and why they are enough

- One key in the runs about `State`: all operators work key by key and no key's
  result depends on another's; the baseline theorem is proved for any set of keys.
- `share_state`: two fields, three values (`None` and two others): a conflict
  needs an agreed value and two different edits; two fields give partial
  conflicts, a pending one beside a settled one. The kinds `subscribed`, `quiet`
  and `mailed` use only one of the fields, to keep the run within minutes.
  Three messages are enough for two that overtake each other after a first.
  Otherwise the state space is finite without a bound: users may edit for ever.
- `record_set_sync`: one field, three values, `Tries = 3` as in the code. The
  others are not counted: any put they could make is possible at any time.
- `repository_views`: two views, the main one (notifies, otherViewWins) and one
  of a sync (mergeFunction); one item with two attributes; changes are made up
  to version 3, so that a view can be two versions behind a deletion, which
  takes the store one or two versions further.
- `task_runner`, `background_sync`: two pool threads are the least at which runs
  can overlap and one can wait for another. Three runner identities where tasks
  are stopped, as two stopped instances and a live one can be referred to at
  once; one in `background_sync`, where nothing is stopped. `MaxRequests`
  bounds the calls of other threads (3; 1 in `background_sync`, where the
  timer and the initial request add runs); `MaxShares` the shares of one run,
  where one is enough because the loop's state does not depend on how many came
  before.
- `mail_download`: two messages, one with Chandler's header, batches of one or
  two; a session begins when at most one disconnection or orphan is left of
  earlier ones, so that three sessions can overlap, and with an empty queue and
  inbox; during it the queue grows as the client makes it.
- `eim_loops`: two keys, two fields, two values; every diff on the first key
  and whole records on the second.

Deadlock is not checked where the system may stop: `eim_loops` (an evaluation
ends), `task_runner` (a task that is stopped comes to rest), `background_sync`
(the reactor goes down), `mail_download` (the application quits) and
`repository_views` (no changes after the last version).

### Fairness

- `MCTaskRunner`: weak fairness of the reactor thread and of every pool
  thread. They are operating system threads of a living process. It includes
  that the delayed call fires, as time passes, and that the task's `run` returns.
  Nothing is assumed about who gets the lock, and callers need not call.
- `BackgroundSync.FairSyncSpec`: the same; requests to a server end, as they are
  answered, refused or time out. Quitting is not fair (nobody has to), but
  `interrupt` and `stop_reactor`, once called, go on.
- `RecordSetSync`: syncs recur, which is what `SyncsForever` shows of the
  background sync, and their requests end; so some step of a sync is always
  enabled, and taken again and again. `Delivered` asks for its conclusion only
  when from some time on nothing but syncing happens.
- `MCShareState`: syncs recur; the user opens the dialog while there are
  conflicts and does not for ever close it without deciding one (strong fairness
  of the decision). Without the last, conflicts may stay, and that is intended.
- `MailDownload.FairSpec`: the reactor's thread, the worker's and, once the user
  quits, the main thread go on. Of a server nothing is asked that could save a
  session: it may fail at any moment, and one that never greets need not close
  the connection either. That a session which goes on gets somewhere is the
  fairness of the reactor's thread, as commands are answered, or time out, which
  is `ServerError`, and an orphan ends in one way or the other. Mail need not
  arrive, and nobody has to ask for it or to quit.

## 4. Proofs

| Theorem | Says | Rests on |
|---|---|---|
| `RoundTrip` (StateMergeProofs) | `o + (n - o) = n` when `n` leaves open no field that `o` sets | `AddAt`, `SubAt` |
| `MergeSymmetric` | `d \| e = e \| d` | unfolding |
| `LoopsTypeTheorem` (EIMLoopsProofs) | `Spec => []TypeOK` | `LoopInv` |
| `LoopsTheorem` | `Spec => []LoopsComputeOperators` | `LoopInv`, `UpdateComputes`, `MergeComputes` |
| `ConflictsOutTheorem` | `Spec => []ConflictsStayOut` | `LoopInv` |
| `BaselineTheorem` (ShareStateProofs) | `Spec => []BaselineTracksPeer` | `BaselineInv` |
| `TypeTheorem` | `Spec => []TypeOK` | `BaselineInv` |
| `DivergenceTheorem` | `Spec => DivergenceIsPending` | `BaselineInv`, `HonestMerge` |
| `RealConflictsTheorem` | `Spec => ConflictsAreReal` | the same |
| `EditsTheorem` | `Spec => SyncKeepsEdits` | `BaselineInv`, `HonestMerge`, `HonestResolve` |
| `PeerConflictsTheorem` | `Spec => ConflictsComeFromPeer` | the same |
| `FilteredTheorem` | `Spec => [][KeepsFilteredHome]_vars` | `BaselineInv`, `ImportAt` |
| `SubscriberBaselineTheorem` | `Spec => []NearlyAgree(Known(state), seen)`, and `[]BaselineTracksPeer` without `NonNoneField` | `SubscriberInv` |
| `SubscriberTypeTheorem` | `Spec => []TypeOK` | `SubscriberInv` |
| `SubscriberRealTheorem` | `Spec => ConflictsAreReal` | `SubscriberInv`, `ReadOnlyMerge`, `ReadOnlyResolve` |
| `SubscriberEditsTheorem` | `Spec => SyncKeepsEdits` | the same |
| `SubscriberPeerTheorem` | `Spec => ConflictsComeFromPeer` | the same |
| `SubscriberFilteredTheorem` | `Spec => [][KeepsFilteredHome]_vars` | the same |
| `MailedTypeTheorem` (MailedItemProofs) | `Spec => []TypeOK` | `MailInv` |
| `NewestTheorem` | `Spec => []FollowsNewest` | `MailInv` |
| `MailEditsTheorem` | `Spec => [][KeepsEdits]_vars` | `MailInv`, `HonestMerge`, `HonestResolve` |
| `RunnerTypeTheorem` (BackgroundSyncProofs) | `Spec => []TypeOK` | `TypeNext` |
| `OneTimerTheorem` | `Spec => []OneTimer` | `TimerInv` |
| `LiveExclusionTheorem` | `Spec => []LiveRunsExclusive` | `TimerInv`, `LockIsHeldOnce` |
| `ExclusionTheorem` | `Spec => []RunsExclusive` | `LockInv` |
| `SyncExclusionTheorem` | `SyncSpec => []RunsExclusive` | `RunnerInv` |
| `SyncTypeTheorem` | `SyncSpec => []SyncTypeOK` | `SyncInv` |
| `IdleTheorem` | `SyncSpec => []IdleMeansIdle` | `SyncInv` |
| `RequestsTheorem` | `SyncSpec => []RequestsNotDropped` | `SyncInv`, `OthersWait` |
| `NeverRaisesTheorem` | `SyncSpec => []NeverRaises` | `SyncInv` |
| `DownTheorem` | `SyncSpec => DownBetweenJobs` | `SyncInv` |
| `MailTypeTheorem` (MailDownloadProofs) | `Spec => []TypeOK` | `TypeInv` |
| `BlocksTheorem` | `Spec => []BlocksUntilDone` | `LockInv` |
| `NothingSkippedTheorem` | `Spec => []NothingSkipped` | `MailInv` |
| `RecordSetTypeTheorem` (RecordSetSyncProofs) | `Spec => []TypeOK` | `Books` |
| `BaselineTheorem` | `Spec => []BaselineRebuildsServer` | `Books` |
| `CaughtUpTheorem` | `Spec => []CaughtUpAgrees` | `Books` |
| `RemovalTheorem` | `Spec => RemovalSparesEdits` | `Books`, `EditsNoted` |
| `RefinementTheorem` | `MCSpec => ImplementsShareState` | `MCInv`, one step per action |
| `ViewsTypeTheorem` (RepositoryViewsProofs) | `Spec => []TypeOK` | `TypeNext` |
| `DeferredDeletesTheorem` | `Spec => []DeferredDeletesDoNotConflict` | `DeletesInv` |
| `RefinementTheorem` | `Spec => ImplementsAtomicCommits` | `CommitInv`, `RefreshRefines`, `WriteRefines` |

What the theorems assume beyond the assumptions of the modules is in their
statements: no sync while a dialog is open, for those of `ShareStateProofs` (the
run `stale_dialog` shows why); a share that may send, or, for the
`Subscriber` theorems, one that may not; no `stop`, for some of
`BackgroundSyncProofs`; no filtered field, for `MailedItem`, which leaves the
filters of mail out, and for the refinement of `ShareState`.

**The loops.** `update` and `_merge` loop over Python sets, and what they have
built decides what they do next. `LoopInv` says of each key by itself what
`index`, `exclusions` and `conflicts` hold once some of the records are taken and
others not (`UpdateInv`, `MergeInv`): nothing in it depends on the order of those
taken, so that no induction over the operands is needed. In `_merge` a key is
in conflict from the moment that what it has of it combines to nothing, or an
inclusion meets an exclusion, and stays so.

**Shared items.** `agreed + pending = seen` is
not inductive alone: a decision in the dialog moves a change from `pending` to
`agreed`, which keeps the sum only if the change really is part of `pending`,
and only if `pending` does not include and exclude the same key. `BaselineInv`
adds that (`PendingIsProper`, `DialogIsPending`), that filtered fields are in
neither (`FiltersHold`), and that peers' records say something of every other
field (`PeerRecordsWhole`), without which a difference `a - b` would not
determine the result.

What one merge does is in `StateMergeProofs`, key by key and without an
invariant: `Honest` says that a conflict is pending where, and only where, the two
sides stay different, and that it was the peer who departed from what was agreed;
`Cautious`, that what one side has changed since both agreed is overwritten
by nothing that comes from the other. `MergeReadWrite` has both
(`HonestMerge`); `AutoResolve` keeps the first, and gives up the second only for
fields that `resolve` decides (`Yields`, `HonestResolve`). With the baseline,
which says that the records the merge rebuilds are the peer's, these become the
action properties of the whole system.

**A subscription.** A read-only merge takes the peer's whole state into `agreed`
and repeats in `pending` what of it the local item was not given, so that the
sum of both is `agreed` alone (`PendingIsAgreed`) and a decision in the dialog
adds nothing. `BothWaysAt` says field by field what the two orders of composing
the changes yield, whose difference is `pending`; `TellsPeers`, what of it holds after
the merge and still holds after `AutoResolve`: a pending value is one the item
has not, and the peer has just changed it or it was pending before. The exact
baseline does not hold here: of a field that `resolve` always settles
(`NonNoneField`) `autoResolve` puts the local value into `agreed` though nothing
is sent. `SubscriberInv` therefore asks for equality of the other fields only,
and of these that both sides have a value or none (`NearlyAgree`); that is enough for
every other theorem, as the next merge takes the whole external state again.
`Inherit # None`, the one assumption on values, is what Python gives: two objects.

**Mailed items.** `MailInv` says that the counter of the messages is the newest
that came, and that until the first edit nothing is pending and both `agreed` and
the item are that message: `inbound` refuses what is overtaken, and a merge
into an untouched item has no conflict. `MailEditsTheorem` needs the type
alone, and `Honest` and `Cautious` of the merge. What it cannot say is that edits
survive the second update: that is false (`mailed_edits`).

**Record-set sync.** The two halves of the bookkeeping have to hold of three
pairs at once: of the repository and what the server will answer after the
committed token (`RepoBook`); of a sync's view and what came after its token
(`ViewBook`, `SentBook`), because a commit makes the view the repository; and
between view and repository (`Linked`), because a commit takes over only what
the view has changed. Three facts carry them. Records are there with all shared
fields or not at all, so that no diff ever deletes one record of an item, and
adding up diffs (`Fold`) says what their succession does (`FoldKeeps`). An item
that was neither changed nor is in conflict is as agreed (`LocalIsAgreed`): so a
`TokenMismatch` may run the sync again over a view that has merged already and
finds nothing to send twice. And where a view's State does not add up with the
server, because it has sent and not yet been answered, or has left out what it
wanted to send for a removal, `SentBook` says what will make it so. All of this is
given up once a retry has forgotten a change (`discarded`; the run
`token_mismatch` shows that this happens), apart from the types and
`Linked`. The steps that get (`Get`, `Mismatch`) share one lemma, `RunKeeps`,
over the three things a run can do: merge (`RunMerged`, with `MergeOutcome` about
the merge itself), leave the item alone (`RunQuiet`), or find it removed
(`RunRemoved`).

`RemovalTheorem` does not rest on any of that sum, and holds after a forgotten
change too, where records may lack fields and `RepoBook` says nothing. It needs
`EditsNoted`, which no retry can break: what is not as agreed is noted as changed
in the repository, or was applied by the view, and no filtered field is in a State.
A run keeps it because a merge that leaves no conflict and has nothing
to apply leaves the item as agreed (`MergeSettles`); a commit, because what the view
applied and what the user edited meanwhile both count as changes of the
repository (`Touched`). The step itself is `NothingToSend`: a merge with what was
agreed that finds nothing to send had nothing unsent before it.

`RefinementTheorem` takes the mapping of `ImplementsShareState`. A view that is at
work is always what one run makes of the committed repository and of what came so
far (`RunOver`): here no sync runs twice in one view, and the user edits between
syncs. So `Get`, `Put` and what others put are changes of the remote side, or
nothing; a `Commit` is the abstract `Sync` over what was fetched; and when a
sync fails, or ends, what the remote side shows becomes what the server has,
which is a remote edit again. That the remote side holds a whole item at each of
these moments comes from `Books`. With filters the mapping would not do: what is
known of the peer has no filtered fields, what the server holds may have some,
and a failed sync would change filtered fields without anybody editing them. `Share!` operators and
those of the module are equal by definition, but the provers see two: the
lemmas `Same...` say so.

**Task runner.** At most one delayed call: an instance that was stopped keeps
work in queues and threads, so that "one timer" needs to know that this work
can no longer arm it. `LiveIsCached` says that an instance which is running and
still referred to is the cached one; with it, `reschedule_if_running` of a
forgotten instance does nothing. `LiveExclusionTheorem` adds that a lock has one
holder. `ExclusionTheorem` assumes that `stop` is not among the calls, as in the
run `background_sync`; then whatever is referred to is cached, so there is one
lock only. It is false with `stop` and `reschedule`: the new instance has a lock
of its own.

**Background sync.** `BackgroundSync` adds steps and messages of its own to the
task runner's, so the exclusion is proved again of the larger system
(`RunnerInv`), from the same lemmas; nobody stops the sync's task, and all
theorems here assume `"stop" \notin Calls`. With exclusion, all that run() does is
the work of one thread at a time (`OneAtWork`), and `SyncInv` says what its
variables mean then: the status is `RUNNING` exactly while that thread is at
work (`StatusFollowsRun`); the reactor is asked to stop last, when the user
interface joins (`StopComesLast`); and once the Deferred was fired, no flag and
no abort request is left that could make this run or one queued behind it
fire it again (`FiredIsOver`), which is why `run` does not raise.

**Mail.** `TypeInv` adds to the type that only mail requests carry messages, that
no message is pending twice, and that the variables of a session are reset when
it is over. For the lock, `LockInv` says (`Orderly`): of all that could
release it (a disconnection under way, the request for `DONE`, the worker's
answer to it) at most one is there at a time (`OneRelease`), the `DONE` is last in the
queue (`Going`), and a request that is owed an answer, as all are but the
`UID_REQUEST` of a POP client that found nothing, has a `DONE` behind it or a session
that will still queue one (`OwedIsFollowed`). All of it is given up when anything goes
wrong (`cut`) and begins anew with a session that begins when all is quiet
(`QuietIsOrderly`); so `BlocksTheorem` says nothing of what follows an error.

`MailInv` says where a message is that will not be looked at again, and does not
depend on `cut`. Over POP it speaks of each message by itself (`PopKeeps`): what
was seen is noted by a request that stands behind the one with the message, and the
worker takes requests in their order, so that the message is settled, converted
or lost in the worker's hands, before its UID is noted; a session that is broken off
has noted nothing. Over IMAP a UID that is noted, or on its way to be, is a
promise for all UIDs below it (`Promised`): each is in the repository, on its way,
or marked as lost, and what forgets a message that is promised, a broken session, a late
disconnection or a dead worker, marks it (`Forgotten`). What the theorem shows is
therefore that no message is passed over in any way but those that section 3 tells of,
not that none is lost.

**Repository views.** The type invariant is inductive as it stands, as it says
how the parts of a view agree with the version that the view stands on: an item
with changes exists there, and nothing is both changed and deleted. Every action
but `Write` changes one view and leaves the store alone (`StepOfView`,
`DeletesStep`); what a refresh leaves is `RefreshedOK`. That deferred deletions
do not conflict needs three facts more (`DeletesInv`): an item that is gone in one
version is gone in all later ones, a view that writes stands on the newest
version, and what a deferring view has in `deleted` is gone already unless the
view is about to write it. The second is where the lock matters: nobody
else can write while one view is between `Lock` and `Write`. The theorem is
for any number of views, items, attributes and versions.

`RefinementTheorem` takes the mapping of `ImplementsAtomicCommits`: what is
committed is the newest version, and of a view's changes those are `unseen` that a
later version than the view's has replaced. `CommitInv` adds that wherever two
versions differ the logs between them say so (`ChangesAreWritten`). A
refresh maps to the abstract refresh, because a merge drops a change
only in favour of one that a later version wrote (`RefreshRefines`); `Write` to the
commit, because the writer stands on the newest version, so that it has
nothing unseen, while what the others have seen does not change
(`WriteRefines`); every other step changes one view's log as the
abstract change, deletion and cancellation do, or nothing. The proof needs that
`Gone`, the content of a deleted item, is not itself a set of changes
(`RepositoryViewsAssumption`).

Only model-checked: the conjunctions `OtherSharesToo` and `FilteredStaysHome` of
`MCShareState`, and its `FollowsNewest`, as such (a behaviour there chooses its
kind of share; what they say of full-record, subscribed and mailed items is in the
theorems above, one kind at a time, for a subscription with the exception just named);
and all liveness (`Converges`, `Delivered`, `SyncsForever`, `MailGoesOn`, `ShutdownReturns`
and the task runner's), which the prover does not handle. That `RecordSetSync` with filters
implements `ShareState` is neither proved nor checked.

## 5. What is not modelled

- Sharing: initial publication and one-way puts (the models start from a share
  that exists, with nothing synced yet); the `mode` override of `sync`; one item
  in several shares, where `SharedItem.conflictingStates` and the other shares'
  states meet; triage status and recurrence inside `_sync`;
  `ModifiedByRecord`s; files of a resource conduit one by one (etags).
- Mailed items: messages that delete an item, several correspondents, the
  filters of outbound mail, a correspondent who changes to another repository,
  messages without a version.
- Background sync: graceful interruption (nothing calls it); the order of
  startups. `UpdateCheckTask`, the only `DurableTask`, overrides `stop` and
  `reschedule` with a flag of its own; `Durable` is therefore checked without
  `stop`. That a run which is already queued starts although `stop()` was called
  in between is in the model (`Acquire` does not look at `running`, as `_run`
  does not); `startups.txt:469` reads as if it could not happen.
- Record-set sync: while the view of a sync is at work the user may edit the item,
  take it out and put it back, but not delete it or decide a conflict, though
  nothing in the code keeps anybody from it (`~Busy` in `Delete`,
  `AcceptRemoval`, `KeepItem` and `Decide`). What a commit then makes of a State that
  both views have changed, attribute by attribute, or that one has deleted, is not covered;
  `stale_dialog` shows one such interleaving of the atomic sync.
- Mail download: more than one account and one folder, the limit on the number of
  messages, the dialog's cancel button, requests that only report an error,
  reconnecting after a connection is lost (but for the server that did not greet),
  and sending (SMTP). `Connect` asks, beside the lock, that no session is
  downloading: when the lock of a session was released too early, and the
  user asks for mail before that session ends, both would share their variables,
  which is not followed.
- Repository views: references between items, names, kinds, children, indexes and
  notifications, which the merge treats one by one; the lists of the view pool.
- Transports and formats, the repository's storage, the schema, the domain model
  and the user interface: I/O, data conversion and drawing. `PROJECT.json` names
  each component with the reason.

## 6. Plan

1. Done: `EIM`, `EIMLoops`, `StateMerge`, `ShareState`, `TaskRunner`,
   `BackgroundSync`; then `RecordSetSync` and its refinement, `RepositoryViews`
   and `AtomicCommits`, `MailDownload`, `MailedItem`; and the theorems above.
2. Proofs next: `RecordSetSync` with filters implements a `ShareState` whose remote side
   may change filtered fields; each new model's invariants.
3. Models next: the resource conduit's etags and deletions of files, one item in
   several shares, references and collections in the merge of views, linked maps
   and skip lists against sequences.
