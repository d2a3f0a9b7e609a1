# z3rm: a TLA+ model of the terminal multiplexer

z3rm is a GPU terminal with a background daemon. The daemon (`crates/mux_server`)
owns the PTYs and the only terminal emulators; windows and views
(`crates/mux`, `crates/mux_window`, `crates/terminal_view/src/mux_pane.rs`) attach
to it over a socket, an SSH tunnel or, in the browser, a channel in memory. Beside
the terminals the daemon versions the files a project changes
(`crates/shadow_snapshot`). Everything else in the repository is the editor z3rm
was forked from, and is not modelled.

The modules below are written from the source. That includes the emulator: the workspace
patches `alacritty_terminal` to `crates/z3rm_web/alacritty_web` (`Cargo.toml:1147`). Where
a definition stands for code outside the repository (the file system, the lock library, the
program in a pane) it is modelled from how the repository uses it, and the map in
`PROJECT.json` marks it external.

## 1. Inventory

| Component | State it keeps | Operations | Interacts with | What is hard | What makes it correct |
|---|---|---|---|---|---|
| Pane grid, server side (`pane.rs`, `grid_sync.rs`) | emulator, generation, ring of diffs, rows held back by a synchronized update | PTY batch, forced flush, resize, scrollback capacity, title, fetch | read loop, request handlers, settings watcher, all under one commit lock | publishers on several threads; ring overflow; held-back rows | a view that pulls never misses a change |
| Pane view, client side (`mux_pane.rs`) | rendered snapshot and generation, history cache, fetch task | notify, fetch, apply diff or snapshot, page history, confirm, retry | notifications, RPCs | state read before an await and used after it; failing RPCs; moving checkpoints | never regresses, rejects nothing it should accept, converges |
| PTY read loop (`pane.rs`, `dec2026.rs`, `coalescing.rs`) | synchronized-update window, put-off notification, coalescer | poll, read, time out | emulator, views | two deadlines served by one polling thread | nothing stays held back, the last frame is signalled |
| Scrollback and row addressing (`pane.rs`) | history, its version, absolute number of the top row, epoch, shell markers | batch in steps, marker, capacity, resize, resolve | emulator limits, views' caches | silent eviction at capacity, alternate screen, off-by-one | a marker names its own row or none; a version names one content |
| Notification fan-out (`mux.rs`) | bounded queue and dirty latch per subscriber | subscribe, fan out, receive, drop | I/O thread, reconnect, views | blocking on a full queue; queue and latch without a common lock | reliable events arrive in order, no dirty pane is lost |
| Client requests and reconnect (`mux.rs`, `sync.rs`) | pending requests by id, worker epoch | send, resolve, time out, reconnect in place | transports | late answers of an old worker; generations of a restarted daemon | an answer reaches its own request only |
| Sessions, layout, attach (`session.rs`, `layout.rs`, `connection.rs`) | layout tree, clients with roles and viewports | split, close, zoom, attach, steal, resize | panes, persistence | the smallest viewport of several clients; stealing an attached session | the tree is well formed; one writer |
| Server lifecycle and persistence (`mux_server.rs`, `persistence.rs`) | session registry, database | spawn, exit, save, recover | sessions | exit racing save; recovery reservations | a session is recovered once |
| Media and action events (`pane.rs`, `connection.rs`) | queue, drain flag, retry request | enqueue, drain, set hook | reader thread, hooks, the list of sessions | the drain is handed over between threads; a hook takes a lock its installer may hold | arrival order, nothing stranded, the installer returns |
| Write-ahead log (`wal.rs`) | log file, archive, buffered writer | open, append, commit, checkpoint, replay | file system | crash at any point of a rotation, torn frames, failing steps | a committed entry is replayed |
| Snapshot engine (`engine.rs`, `storage.rs`, `version_tree.rs`, `delta_chain.rs`, `lca.rs`) | version tree, SQLite rows, blobs, sequence counter | record, delete, read, replay, checkpoint | log, SQLite, recorder | log and database are written in two steps | versions survive, numbers are unique |
| Decline (`decline.rs`) | intent and completion in the log | restore, mark, recover | file system, recorder | crash between restore and mark; newer content | an undo is finished once, and by its own mark |
| Quota and GC (`quota.rs`) | ledger, eviction queue | evict, promote, prune | tree, blobs, log | evicting what the log would replay | heads stay reconstructible |
| Recorder (`snapshot.rs`, `monitor.rs`) | debounce map, suppressed writes, breaker | event, flush, command, stop | watcher, engine, request handlers | own writes against users' writes; a stop that waits for a thread that waits for senders | a settled change is recorded; requests and a stop end |
| Extensions (`extension_host.rs`, `quickjs_runtime`) | workers, token bucket, CPU budget | call, cancel, broadcast | daemon, UI | cancellation racing completion | budgets are kept |
| Resilient UDP (`transport_resilient`) | sequence numbers, replay window, reassembly, RTT | send, acknowledge, resend | not used by another crate yet | loss, duplication, reordering | exactly-once within the window |

`PROJECT.json` lists the components with their status and the hazards with the line
at which each bites.

## 2. Plan

Order: what a user sees first, then what a user loses first.

1. `GridSync` (done, proved): replication of a pane's grid; composes the server's
   publishers, the ring, the notifications and a view's fetch task.
2. `ReadLoop`, `RowHistory`, `DirtyLatch` (done, their safety proved): the parts
   `GridSync` abstracts — when the read loop publishes and signals, what the history
   version and the markers mean, and how a signal gets through the client.
3. `WalLog` with the abstract `DurableLog` (done, proved with its refinement).
4. `ShadowEngine` (done, proved): version tree, delta chains, rows, blobs, the collector and the
   undo protocol over a log that behaves as `WalLog` shows; crash between any two durable
   effects.
5. `Recorder` (done, its safety proved): debounce, suppression, circuit breaker, commands
   and the stop, over the engine's head.
6. `MediaDrain` (done, its safety proved): the drain of typed events with the handlers
   that install the hooks.
7. Not written yet: `Requests` (ids, worker epochs, reconnect in place), `Layout` (split,
   close, zoom, resize on the tree), `Attach` (roles, steal, the smallest viewport),
   persistence (recovery reservations), the extension host's queue, the resilient
   transport.
8. Proofs: every safety property the runs check is proved (section 4). Liveness is left to
   the model checker.

## 3. The modules

### GridSync

One pane and one view of it. The server keeps nothing about views and a fetch changes
nothing on the server, so one view stands for any number.

*State.* `term` is the emulator (size, rows, render state, history version and
length; the server never scrolls its display, so the display offset is always 0).
`gen` and `ring` are the published generation and the `GridDiffRing`; `inSync`,
`pSync`, `pRows`, `pFull` are the parser's window and the `ReadLoopState` fields that
hold back its rows. `owes` and `wake` separate the commit of a generation from its
broadcast and the broadcast from its arrival, in the view's queue or in its latch
(`DirtyLatch`). `cgen`, `csnap`, `chist`, `phase`,
`resp`, `nextRow`, `fpend` are the view and its one fetch task.

*Actions.* `ProcessPtyBytes`, `BsuTimeout`, `Resize`, `SetScrollbackCapacity` and
`SetTitle` are the publishers, each atomic because each runs under the commit lock.
`Broadcast` and `Notified` deliver a signal; `ServeFetch` answers from the ring;
`ReceiveNoChange`, `ReceiveDiff`, `ReceiveFull`, `FetchHistoryPage`,
`ConfirmCheckpoint`, `RpcFails` and `RetryFetch` are the stages of the view's task. An RPC
fails in a way `classify_fetch_rpc_error` repeats after a pause, or in one it does not, which
ends the task (`gaveup`) until the next signal, or starts a fetch at once if a signal came
meanwhile.
Which rows a batch damages is the emulator's business: any set that contains the
changed rows. Serving and receiving the confirmation is one step, since both read
only the generation.

*Checked.* `RingContiguous`, `NoLostUpdate` (neither the view nor the view a response
in flight will make of it has missed a change that no later fetch repairs),
`CurrentViewIsExact`, `DiffAlwaysFits` (a rejected diff is not retried, so it must
never happen), `ViewNeverRegresses`, `Converges`.

*Bounds.* `grid_rows` has a ring of two entries and four generations, so that it rolls
over under a slow view by one and by two, and one row of two contents, enough to see a
row lost or merged in the wrong order. `grid_live` has a ring of one entry, two sizes that
differ in both directions, so that every resize shows, and two history rows in pages of
one. `grid_history` checks `Converges` on one size, with two history versions after the
first, so that the checkpoint moves between two pages and between the last page and its
confirmation; a change of capacity moves the history there as a resize would. One failing
RPC per run is enough to take the retry path, and the one that gives up, at each stage.

*Fairness.* A committed publisher reaches its broadcast, the listener takes a signal
that is in its queue, requests are answered and the retry timer fires. A signal that is in
the latch alone may stay there (`latch_wake`), so nothing is assumed of it, and `Converges`
excepts just this case and that of a task that gave up on the last fetch. The program in the
pane owes nothing, and RPCs fail finitely often. With finitely many generations an
output that scrolls for ever, and could keep a history checkpoint from ever being
confirmed, is not represented.

### ReadLoop

The reader thread: `poll`, `read`, and the housekeeping that is done only when the poll
times out. `inSync`/`overdue`/`pSync` are the synchronized update, `cooling` the
coalescer's window, `pNotify` a `PaneDirty` that was put off, `unsignalled` whether
the newest generation still lacks one. Time is abstract: a deadline passes at any
moment. The coalescer's tier is chosen afresh for each batch, which allows more than its
byte-rate classification. `HasFd` says whether the thread has a descriptor to poll. The
model is finite without bounds.

Fairness: the thread runs, deadlines pass; the program owes nothing.

`read_fd` shows that nothing stays held back outside a window, that a put-off signal is
remembered, and that after the program goes quiet its last frame is signalled and an
unfinished update is closed. It does not hold for a program that never goes quiet, nor
without a descriptor (section 5).

### RowHistory

A row is a number given when it comes into being, so that "the same row" can be said.
`ScrollUp`, `ScrollDown`, `LineFeed`, `ReverseIndex`, `ClearAll`, `EnterAlt`, `Reflowed` and
the others up to `Perform` are the emulator's operations on its two grids, with the scrolling
region: line feeds, SU, SD, IL, DL, reverse index, 2J, 3J, DECSTBM, RIS, DECCOLM and the
alternate screen. `MayRotate` and `MayBreak` are what the observer makes of them. `BeginBatch`, `BeginStep`, `Feed`,
`EndStep`, `MarkRow`, `EndBatch` are `process_pty_bytes` with `RowAddressing` and
`HistoryMutationObserver`; `SetScrollbackCapacity`, `Resize`, `CacheHistory` the other
operations. A batch is several steps here because the order of inputs, step ends and
markers inside it matters; nothing else runs meanwhile (the commit lock), and the
properties speak of the states between batches.

Bounds: three rows, so that a scrolling region can leave rows on either side, capacities 0
to 2, a headroom of 1, four inputs of seventeen kinds. A headroom this small makes a step
saturate, which takes thousands of rows in the program.

`history_rows` checks the limits, the markers and, below capacity, the history version;
at capacity the version is not enough (`RowHistoryVersion.cfg`). `shifts` counts the times rows of
the screen moved without the history growing by as much (SD, IL, DL, a reverse index at the
region's top, a region that is not the whole screen). The code notices some of these and
keeps the numbering; markers recorded before, and those of the alternate screen, may name a
wrong row (`RowHistoryGuess.cfg`), and `MarkerIsRight` is about the others.

### DirtyLatch

Subscribers with a bounded queue and a latch of dirty panes; threads fan out over a private
copy of the subscriber list. The I/O thread fans out one notification at a time; the
application's foreground thread, in a reconnect, sends its script, the layout and then a
`PaneDirty` per pane (`Sends`). Every receiver is a task of that same foreground thread, so
while a reconnect fans out no receiver runs (`ForegroundFree`). The
attempt to send and the latch are two steps, and so are the receiver's look at the queue,
its look at the latch and its wait, because no lock covers two of them. A blocking send is
an action that is not enabled. `Retained` is the pruning at the start of a fan-out.
`offered`, `got` and `news` record what was put before and
received by each subscriber.

Bounds: two subscribers with queues of one, the I/O thread and one reconnect, one pane, two
notifications: enough to fill a queue, latch, drain it and fill it again while the other
thread holds a stale copy of the list. Fairness: a fan-out goes on when it can, and a live
subscriber calls `recv` again (`start_notification_listener`'s loop) when the foreground
thread is free to run it. `ReliableArrives` says that again and again every fan-out is over
and everything reliable in it received, which fails if one subscriber that vanished or is
slow can hold up the I/O thread for good; a reconnect that blocks on a full queue, whose
receiver it keeps from running, is the exception (`Frozen`), and `DirtyLatchReconnect.cfg` shows it.

### WalLog and DurableLog

`WalLog` is `wal.rs` and what `engine.rs` does with it, down to files (`data`, `synced`),
the directory with its not yet durable changes (`dirs`) and the writer's handle
(`hand`), which can be left on an archived file. The engine's single writer is the
program counter `at`. `faults` says what may go wrong in a behaviour: a power failure
instead of a killed process, and the failure of each system call the code handles. It is
chosen at the start from `FaultSets`, so that one run covers several kinds of behaviour:
kills with a rename or create that fails (`Benign`), kills with anything that may fail of a
commit or a rotation, and the loss of power with every fault but a failed fsync of the new
log. A frame torn by a power failure is `Torn`; replay of a log with something behind
a torn frame fails or stops there, and the model takes what is readable before it.
File-system assumption: an fsync makes durable the file and every earlier directory change
(journalling file systems); without an fsync a power failure undoes a suffix of the
directory changes. SQLite writes are atomic and durable.

`DurableLog` is what the log promises: a set that grows by newer entries, and is emptied
as a whole only when all its entries have version nodes. `ImplementsLog` maps its `log`
to what an engine opened on the present files would replay.

`committed` and `live` record what was committed, ever and since a rotation was last
complete; a rename that overwrites an archive takes nothing out of either. What is promised
depends on what fails:

- whatever fails of a commit or a rotation, the fsync of the new log and the removal of the
  archive included, a committed entry has its version node or its frame is still in one of
  the two files (`NothingDiscarded`);
- with the loss of power too, a frame committed since the last complete rotation stays in one
  of the two files, unless the fsync of a new log fails (`LogKeepsFrames`); it may lie behind a
  torn frame that hides it from replay (section 5);
- in behaviours that are `Benign` it is also replayed (`LogSurvives`, `CommittedIsRecovered`),
  numbers are not used again (`SeqAboveCommitted`) and the log implements `DurableLog`.

An archive that could not be removed costs no frame, but `open` refuses the two files
together: that is `WalLogStale.cfg`.
Bounds: two entries, three files, two crashes: a crash, the recovery, a second crash during
or after it. Every fault may strike any number of times.

### ShadowEngine

The engine above the log, as the recorder thread drives it. `file` is the worktree; `wal`,
`rows` and `refs` are the log, the table of version nodes and the blob references;
`tree`, `heads`, `nextId`, `seqNo`, `eligible` and `sinceGc` are what the process keeps in
memory and rebuilds at `Open`. An operation is cut at its durable effects, so that a crash
or a failing step falls between any two: blob reference (`Start`, the common first step of
`RecordChange`, `RecordDelete` and `Decline`), log (`CommitEntry`), file (`RestoreFile`), row
(`WriteRow`), completion mark (`MarkDone`). The collector is `PlanPass`, which plans a pass
(`plan`: the nodes to promote, the victims, the blob references to give up next), and one
action per durable step of it: `GcPromote`, `GcDelete`, `GcUnref`, `GcPassEnds`; an error in
one of them drops the plan. Two of these are two writes of SQLite in the code, each durable by
itself, and a kill may come between them: `CrashInPromote` leaves the new blob without the
row that names it, `CrashInDelete` leaves the victim in the table and its children without a
parent. `LogFails` is an append that fails, `SyncFails` a commit whose fsync fails when the
frame is in the file already, so that a later open replays what was reported as failed. `Open`, `Replay`, `Opened`, `FinishRestore`, `FinishMark` and
`Recovered` are the restart: replay and recovery each go through the log (`tasks`) and
`PassOver` the entries that need nothing.

A blob is named by what it holds, and a delta by the two contents it joins; applying a
delta to anything else gives `Garbled`. `truth` records what an operation set out to record
under its number, `dirty` which files changed since the engine looked, `evicted` what the collector
has deleted or begun to delete and `spoilt` the two known ways in which a restart goes wrong (section 5), so that
the properties can say what holds otherwise. `faults` counts failed steps.

What a version reads as is promised in three degrees. It is never a wrong content
(`NeverWrongContent`) through any number of failed steps while the process lives, through any
number of crashes while nothing has failed, and through crashes and one failed step unless a
deleted version came back; two failed steps can garble it (section 5). It is the content
recorded (`HistoryIsReadable`) for every version until the collector begins to delete a first
one, with up to one failed step: after the first statement of `delete_node` a kill leaves
deltas without a parent, which nothing can read again although no version is gone. For the heads it stays so whatever the collector deletes
(`HeadIsReadable`), but not through both a failed row and a crash (section 5).

Bounds of `engine`: one path, two contents (one kept on disk, and deltas to it too, so that
their last reference cannot be given up), chains of two deltas, a quota of one blob with a collection after each
of four operations, one crash and one failing step. Paths share the counters,
the blobs and the collector; two contents on one path already share blobs between versions,
and what takes two paths is left to the proofs, which are for any number of them. The 24 hours a
committed version is kept and the global quota are left out, and so are two failures: of the
fsync of a completion mark that is in the file already, and of a single statement within
recovery or a collector's step.

### Recorder

The recorder thread with the monitor that feeds it, for one path. `events`, `paths` and
`commands` are the operating system's queue and the two channels; `pending` and `suppressed`
the debounce entry and the mark an undo leaves for its own event, each with the ticks until
it is due or expires; `breaker` the circuit breaker; `stopping` how far `stop_inner` has
got. The engine is the content of the path's head and what it can restore. `missed` records
the documented ways in which a change is not recorded (dropped by the breaker or the binary
check, engine failure, a file that cannot be read, stop inside the window, nobody watching); an initial state in which
the worktree differs from the recorded head is one of them.

`Recv`, `HandleCommand`, `Flush` and `Leave` are the loop, `HandleEvent` and `WatcherEnds`
the watcher thread, `Request`, `StopCheckpoint` and `StopStep` the handlers. Time passes in
ticks, between any two steps.

Bounds: three contents, one of them binary, two changes, one undo, one failure; a debounce
window of one tick, a mark that expires after two, a breaker that trips at the second event
of a tick and resumes after two quiet ones. Fairness: threads run and time passes; nobody
need write, undo or stop.

### MediaDrain

Media and actions on their way from the read thread to hooks that are installed after the
pane runs. `queue`, `draining` and `retry` are `PendingTypedEvents`; `pc` and `held` say
where each of the two threads is in `drain_pending_typed_events`, whose steps are the holds
of a lock; `handler` and `todo` are the handler that creates the pane, `sessions` and `other`
the lock on the list of sessions, for which a waiting writer holds up readers
(`parking_lot`).

Bounds: four events in batches of one or two, both hooks, two other requests. Fairness: both
threads run and locks are handed on.

`media` checks the handler that recovers a pane, which gives the list back before it
installs the hooks; `MediaDrainSplit.cfg` and `MediaDrainSpawn.cfg` the two that do not.

All configurations but `Recorder.cfg`, where time always passes, switch the deadlock check
off, because a thread ends with its program, a pane, a domain or an engine may legally be
idle for ever, and bounds run out. The type invariants of `DirtyLatch`, `RowHistory`,
`WalLog`, `ShadowEngine` and `Recorder` are not listed in the configurations; they hold on
the same instances (add `INVARIANT TypeOK`).

## 4. What is proved

TLAPS checks the eight `*Proofs` modules, for every value of the constants.

`GridSyncProofs` (from the named assumptions of `GridSync`: a ring capacity of at least
one, sizes and pages of at least one, natural bounds): `TypeCorrect`,
`RingIsContiguous`, `NothingIsLost`, `CurrentIsExact`, `DiffsFit` and `NeverRegresses`.
`NoLostUpdate` is not inductive. The inductive invariant `IInv` adds

- `PendingOK`: rows are held back only inside a synchronized update;
- `RowsCurrent`: the newest entry with a row has the row's present content, unless the
  row is held back, so that merging the newest is right;
- `EntriesFit`: entries since the last full one fit the present size, so that a diff
  fits any view that is allowed to get one;
- `ClientOK`: the shape of the view's task by phase, and that its history cache is that
  of its snapshot whenever a diff may be applied;

beside the type invariant, `RingContiguous`, `DiffAlwaysFits` and `NoLostUpdate`
itself. The lemmas of the first part say what `PushEntry` does to a contiguous ring and
to what a view is still going to hear of; then there is one lemma per action and the
combination `Invariance`. `CurrentIsExact` follows from `IInv` without a further
induction: at the published generation no entry is newer.

`ReadLoopProofs`: `TypeSafe`, `HeldBackSafe` and `PutOffSafe`, each an induction with the
type invariant.

`DirtyLatchProofs` (from: positive capacity, natural bounds): `DirtyIsNeverLost`,
`ReliableStaysInOrder` and `TypeCorrect`, which contains that no queue grows past its
capacity although threads test and append in two steps. The order of reliable notifications
needs `NewerInv` (a thread has put before those it has yet to reach nothing as new as what it
fans out now) and `ListInv` (its copy of the list names nobody twice). The latter goes back to
what pruning returns for a list of any length: `Retained` is a recursive function, and what
it keeps is shown for every prefix by looking at the shortest prefix for which it would
fail. The same least-counterexample argument, from the library's theorem that the order of
the natural numbers is well founded, replaces induction wherever data is recursive.

`RowHistoryProofs` (from: at least one row, a positive headroom, natural capacities):
`LimitIsRestored`, `FloorHolds`, `CacheIsExactBelowCapacity` and `MarkersAreRight`, the last
for markers of the primary screen after which no row moved uncounted. A batch that neither breaks the numbering nor fills the
raised limit (`Counting`, not saturated) has lost no row, so `batch.top - batch.size`, the
number of the oldest row at the last accounting, stays right for the grid as it is now
(`Numbered`); a batch that does retires the numbering and every marker with it. The first
lemmas say what the emulator's operators do to a grid of any size and any scrolling region.
A step that moves rows uncounted raises `shifts`, and a marker keeps the count of its own time,
so the invariant has to speak only of markers that no such step has met.

`WalLogProofs` (from: bounds are natural numbers): `RotationKeepsLog`, `CommitIsDurable`,
`NumbersAreNew` and `Refinement`, for behaviours that are `Benign`; `FramesStay` and
`NothingIsDiscarded` for the others. What an engine would replay (`Recoverable`) goes through two files, a restoration and a reader, and
is hard to carry through the steps. The argument replaces it by `Kept`, what the log and its
archive hold together; `OpenFinds` shows the two are the same as long as one of the files
is empty. The inductive invariant says which file the handle is on and which of the two is
empty (`NameInv`), where committed entries are (`LiveInv`), which entries may lack a node in
which phase (`LogInv`: none when the archive is removed) and that numbers grow (`SeqInv`).
`StepHolds` shows for each step that it keeps the invariant and that it changes `Kept` and
`rows` as `DurableLog` allows; `Refinement` follows. The second part, `FramesStay`, is about
the loss of power and every fault but a failed fsync of a new log: a file may fall back to what an fsync has covered and the
directory to any state since the last one, so the invariant (`CoveredInv`) says of each of
these states that the files it names cover every committed frame. The third part,
`NothingIsDiscarded`, admits that fsync's failure too, and kills instead of the loss of power:
its invariant (`RInv`) says that a committed entry lacks its node only between the commit and
the row, and between a kill and the end of the replay, where no rename can come. What a maximum is (`MaxIsMax`) rests on the
library's theorem that every set of numbers has a least element.

`MediaDrainProofs`: `TypeCorrect`, `DrainerIsUnique`, `NoEventIsStranded` and
`DeliveredInSequence`. `NoneStranded` needs `HandedOver`: a thread about to put an event back
either still has no hook for it, or a retry was requested, or the thread that set the hook
has yet to enter. `InSequence` needs `Numbered`: delivered, held and queued events together
are numbered without a gap.

`RecorderProofs` (from: `None` is no map entry): `QuietFileIsRecorded` and `SkipIsSound`. Two
facts are inductive together: a change the head lacks is on its way or counted as missed
(`OnItsWay`), and a mark names the head's content (`MarkIsHead`), so that skipping a file
that holds what the mark names is right even when somebody else wrote it.

`ShadowEngineProofs` (from: bounds are natural numbers): `OpensAgain`,
`BlobsAreReferenced` and `QuietFileHoldsHead`, for any paths, contents and limits and any
number of crashes, within a step of the collector too, and failed steps. `SInv` is the shape of the state between two steps: the tree extends the table, every
row's parent has a row or is none, ids and sequence numbers are handed out upwards, and what an
open has left to do is part of the log. `OpensAgain` adds `LogInv`: as long as no step failed
and no deleted version came back, the only entry of the log without a row is that of the
operation under way or cut short, and its parent has a row, so the foreign key cannot refuse
it. `BlobsAreReferenced` cannot be shown from the nodes of the tree: a reference is taken
before the node exists and outlives the process. `RefsInv` counts a blob's holders by sequence
number, which a version keeps from `Start` through log, tree, table, crash and replay, and adds
the reference the collector has decided to give up; each step adds a holder with a reference
or loses one before it gives the reference up.

`QuietFileHoldsHead` cannot be shown from the heads, which a crash takes away. `QuietInv`
speaks of the newest version of a path instead: a row, or an entry that replay will give a
row; a commit makes one, and a crash, a replay or a mark changes none. A file nobody has
touched holds what that version recorded, or the log has an undo of just that version that is
still to restore it (`FileInv`). Such an undo is under way or the recovery comes to it, its
blob is there by `RefsInv`, and its mark takes away every intent of its path (`PendInv`,
`LinkInv`). Between restarts the head is the newest row (`HeadsInv`), and the collector never
deletes it: that `protected_set`'s walk contains each head is `HeadsProtected`, for which the
recursive function of the model is shown to exist by taking the least length without one.

The last part of `ShadowEngineProofs` is about what `read_node_content` returns along a chain
of any length up to `D_MAX`: `ContentIsNeverWrong`, `HeadsStayReadable` and
`HistoryStaysReadable`, again for any paths, contents and limits. `Kinds` sorts the steps into ten kinds by what they do to tree, table
and log, so that each invariant has one lemma per kind rather than per action.

- A version reads right or not at all if every full snapshot holds what was recorded and every
  delta fits its parent (`RightInv`, `ReadRight`). The difficult step is replay: an entry
  names its parent by an id of the former process, and replay gives ids out itself. While
  nothing has failed, the row with the parent's id is the parent or is gone for good
  (`FaithInv`), because the newest row of a path, which the collector never deletes, keeps later
  ids above it. After one failed step the table may lack a whole run of versions. `RunInv`
  says what such a run looks like in the tree and the log of the living process, `RestInv`
  what is left of it during a replay: the ids given out are those the entries name, or replay
  fails, or it brings a deleted version back, before it comes to a delta that would not fit.
  `AlongInv` says that the log is in the order of the sequence numbers and that replay keeps
  to it.
- A head is readable if its chain is there: `ChainInv` has, for each head, a set of versions
  in which every delta has its parent, nearer to a full snapshot, and of which no
  version is a victim of the pass under way. That `protected_set` contains this set is
  `ChainsProtected`; that a promotion keeps it, `ChainPromoted`.
- Until a first version is begun to be deleted every version has such a chain (`WholeInv`). Depths in the tree are
  not what survives a crash: the collector may promote a version whose entry is replayed as a
  delta later. The invariant says that there is an assignment of depths to sequence numbers
  (`Depths`), each at most `D_MAX`, that falls from the delta to its parent in every entry
  that has no row, in the run and in the rest of the replay alike, and bounds the depths of the
  tree.

The attempt to prove an earlier form of `HeadIsReadable`, through crashes and one failed step
together, failed for a good reason and led to the counterexample in section 5.

Only model-checked: liveness (`Converges`, `ReliableArrives`, `LastFrameIsSignalled`,
`QuietSyncEnds`, `EventuallyRecorded`, `RequestIsAnswered`, `StopEnds`, `AllDelivered`,
`HandlerReturns`), which needs fairness and is out of the prover's reach; and that `TypeOK`
holds in `RowHistory`, `WalLog`, `ShadowEngine` and `Recorder`, of which the invariants above
contain the parts they need.

## 5. Findings

Each of these is a run that is expected to fail, with the documented statement as its
property.

| Run | What the counterexample does |
|---|---|
| `latch_wake` | A thread's `try_send` is refused; the receiver drains the queue, finds no latch and waits on the queue; the thread then sets the latch. The dirty pane is delivered only with the next traffic. |
| `engine_gc` | The collector deletes a version whose entry is still in the log; after a crash the entry is replayed without a reference to its blob, and the next collection deletes the blob under the head. |

Nine more configurations are kept to reproduce a counterexample by hand; they are not
among the runs:

| Configuration (module) | What the counterexample does |
|---|---|
| `DirtyLatchReconnect.cfg` (`MCDirtyLatch`) | `ReconnectEnds`: A reconnect broadcasts on the foreground thread; the queue of a view is full and the send blocks. The view's receiver is a task of the same thread, so nobody ever makes room and the application stands still. `mux.rs:223` means to block the dedicated I/O thread only. |
| `RowHistoryGuess.cfg` (`MCRowHistory`) | `MarkerNeverGuesses`: A shell marks a row, the program inserts a line above it (IL), and the marker names the row that has taken its place: the observer marks a rotation and keeps the numbering. `pane.rs:237`: "Never guess a row here: a wrong row is worse than no row." |
| `RowHistoryVersion.cfg` (`MCRowHistory`) | `CacheIsExact`: At capacity, a batch of line feeds that starts above the bottom row rotates the history; the cursor's row changed, so the version does not, and the view's cached history is stale and accepted. `pane.rs:1164` names "a possible rotation at the configured capacity" without the condition `cursor_row_unchanged` of line 1170. |
| `WalLogStale.cfg` (`WalLog`) | `OpenNeverRefuses`: An archive cannot be removed, the next entry is committed to the new log, the process is killed: `open` finds two files with records and refuses. `wal.rs:131` says a removal that fails only leaves a stale file, which the next rotation overwrites. |
| `MediaDrainSplit.cfg` (`MediaDrain`) | `HandlerReturns`: A split installs the media hooks while it holds the list of sessions for writing. The new pane has emitted an event already, the hook is called at once, on the same thread, and waits for that list. `connection.rs:1944` drops the guard a few lines later, to avoid the deadlock of a nested lock. |
| `MediaDrainSpawn.cfg` (`MediaDrain`) | `HandlerReturns`: A spawn does the same while it reads the list; the hook's second read waits behind a request that waits to write, and that one for the first read. `connection.rs:1756` expects that the new pane has not emitted anything yet. |
| `WalLogTorn.cfg` (`WalLog`) | `CommittedAlwaysRecovered`: a frame torn by a power failure is not cut off at open; the next committed entry is behind it and unreadable (`wal.rs:59`). |
| `ShadowEngineUndo.cfg` (`ShadowEngine`) | `UndoIsCompleted`: an undo of a deleted file is logged and the process dies before the file is written; recovery looks pending intents up among the files of the worktree, where it is not, and the undo is never finished. |
| `ShadowEngineFaults.cfg` (`ShadowEngine`) | `NeverGarbled`: the restore of an undo fails, which leaves an entry without a version; then the row of a later version cannot be written. Replay numbers the entries without a row anew, while the entries after them name their parents by the ids of the former process, and a delta is applied to a content it was not made for, although the comment there (`engine.rs:195`) asks replay to reproduce the chain as it was at the crash. One failed step alone does not do this. |

Four more limits show when a constant or a condition is changed:

- `ReadLoop`: the timeout of a synchronized update is looked at only when the poll finds
  nothing (`pane.rs:1018`), so an update that is never closed stays open while the
  program keeps writing, although `dec2026.rs:76` speaks of any malformed application.
- `ReadLoop` with `HasFd = FALSE`: `LastFrameIsSignalled` fails. Without a pollable
  descriptor the thread blocks in `read` and a put-off `PaneDirty` waits for more output.
- `WalLog` with `FaultSets = {{"row"}}`: an entry whose version node could not be written is
  rotated away, and its number is used again after a restart (`SeqAboveCommitted` without
  its restriction to `Benign` fails).
- `ShadowEngine` with two paths, `D_MAX = 1`, `MaxBytes = 2`, `GC_INTERVAL = 3` and
  `OnDisk = OnDiskDelta = {}`: `HeadIsReadable` fails when it is asked through a crash and a failed step
  together. The row of a full snapshot cannot be written (`engine.rs:428`), so that the head of
  the tree has no row; a checkpoint rotates its entry away; recording another path runs the
  collector, for which the chain under that head is no longer protected, and it deletes the
  chain's base. After a crash the newest row is the head again, a delta without its base.

## 6. What is not modelled

Byte-level parsing and encoding (escape sequences, protobuf frames, key encoding, media
decoding), rendering, process spawning, SSH, configuration files, and the retained editor
crates, which are most of the repository's lines and not this program's own logic. The LCA
computation, the ancestor table it reads and the memtable have no caller but their tests.
Requests and reconnect, the layout tree, attach, persistence, the extension host and the
resilient transport are left for the plan's seventh point; `PROJECT.json` gives the reason
for each component, and the hazards without a property say what no model covers.

## 7. Running

`tlc -config <cfg> <module>` with the pairs of `PROJECT.json` (`MC*.tla` instantiate
constants with model values; the other modules need none), and `tlapm` on `GridSyncProofs`,
`ReadLoopProofs`, `DirtyLatchProofs`, `RowHistoryProofs`, `WalLogProofs`,
`ShadowEngineProofs`, `MediaDrainProofs` and `RecorderProofs`. Operators named
"Mutant of X" are faulty variants of `X` that break the property they are listed with; they
show that the property depends on the code they change.
