------------------------------- MODULE Recorder -------------------------------
(***************************************************************************)
(* The snapshot recorder of one session (mux_server's snapshot.rs) with the *)
(* file monitor that feeds it (shadow_snapshot's monitor.rs), for one path. *)
(*                                                                          *)
(* Programs write the file; the operating system queues an event for each   *)
(* change; the watcher thread passes events through the binary check and    *)
(* the circuit breaker into a channel; the recorder thread debounces them,  *)
(* serves commands and reads the file when a change is due.  An undo writes *)
(* the file itself and must tell the event of its own write from anybody    *)
(* else's.                                                                  *)
(*                                                                          *)
(* Paths share nothing but the threads, so one path shows every hazard.     *)
(* The engine is abstracted to the content of the path's head and the set   *)
(* of contents it can restore (ShadowEngine).  Time passes in ticks, which  *)
(* may fall between any two steps of any thread.                            *)
(***************************************************************************)
EXTENDS Naturals, Sequences

CONSTANTS
    None,           \* no value (a model value)
    Contents,       \* what the file may hold
    Binary,         \* contents is_binary_file recognises
    K,              \* frequency_circuit_breaker_k
    Window,         \* the debounce window, in ticks
    Ttl,            \* suppression_ttl
    CircuitWindow,  \* CIRCUIT_WINDOW
    CircuitSuspend, \* CIRCUIT_SUSPEND
    MaxEdits,       \* bound: changes made by other programs
    MaxRequests,    \* bound: undo requests
    MaxFaults       \* bound: failures of the engine

ASSUME BoundsAssumption ==
    /\ Binary \subseteq Contents
    /\ {K, Window, Ttl, CircuitWindow, CircuitSuspend} \subseteq Nat \ {0}
    /\ {MaxEdits, MaxRequests, MaxFaults} \subseteq Nat

\* None is no entry of a map with deadlines.
ASSUME NoneAssumption ==
    None \notin [left : Nat] \union [content : Contents, left : Nat]

Absent     == "absent"
Checkpoint == "checkpoint"
Triggers   == {"Write", "Close", "Delete"}

VARIABLES
    file,         \* what the worktree holds
    events,       \* events the operating system has queued: their triggers
    breaker,      \* CircuitBreaker: the path's FileWrites
    paths,        \* the channel of path_tx
    pending,      \* DebounceQueue.pending: None, or [left: ticks until due]
    suppressed,   \* suppressed_writes: None, or [content, left]
    commands,     \* the channel of command_tx: undos, by content, and checkpoints
    at,           \* what the recorder thread does next
    disconnected, \* path_disconnected
    head,         \* the engine: content of the head, Absent for a tombstone, or None
    versions,     \* the engine: contents that can be restored
    stopping,     \* what stop_inner does next
    watching,     \* the watcher thread is alive, and its sender with it
    missed,       \* history: why the head may be behind the file (see QuietIsRecorded)
    edits, requests, faults

vars == <<file, events, breaker, paths, pending, suppressed, commands, at, disconnected,
          head, versions, stopping, watching, missed, edits, requests, faults>>

worktree == <<file, events>>
engine   == <<head, versions>>
memory   == <<pending, suppressed>>
bounds   == <<edits, requests, faults>>

\* The engine opens with whatever an earlier run recorded; nothing compares it
\* with the worktree.
Init ==
    /\ file \in Contents \union {Absent}
    /\ head \in Contents \union {Absent, None}
    /\ versions = {head} \intersect Contents
    /\ missed = (head # file)
    /\ events = <<>>
    /\ breaker = [window |-> 0, count |-> 0, quiet |-> 0, suspended |-> FALSE]
    /\ paths = <<>>
    /\ pending = None
    /\ suppressed = None
    /\ commands = <<>>
    /\ at = "recv"
    /\ disconnected = FALSE
    /\ stopping = "no"
    /\ watching = TRUE
    /\ edits = 0 /\ requests = 0 /\ faults = 0

-----------------------------------------------------------------------------
(* Other programs, and time. *)

\* The WatchHandle is alive: the operating system reports changes.
Armed == stopping \in {"no", "waiting", "watch"}

\* A change, or the last close of the file, is one event.
Write(c, trigger) ==
    /\ edits < MaxEdits
    /\ edits' = edits + 1
    /\ (c = Absent) = (trigger = "Delete")
    /\ file' = c
    /\ events' = IF Armed THEN Append(events, trigger) ELSE events
    /\ missed' = (missed \/ ~Armed)
    /\ UNCHANGED <<breaker, paths, memory, commands, at, disconnected, engine, stopping,
                   watching, requests, faults>>

Less(n) == IF n > 0 THEN n - 1 ELSE 0

Waning(timer) == IF timer = None THEN None ELSE [timer EXCEPT !.left = Less(@)]

Tick ==
    /\ pending' = Waning(pending)
    /\ suppressed' = Waning(suppressed)
    /\ breaker' = [breaker EXCEPT !.window = Less(@), !.quiet = Less(@)]
    /\ UNCHANGED <<worktree, paths, commands, at, disconnected, engine, stopping,
                   watching, missed, bounds>>

-----------------------------------------------------------------------------
(* The watcher thread. *)

\* CircuitBreaker::check: the file's state after one more event, which is
\* dropped when that state is suspended.
Checked(b) ==
    LET idle  == b.quiet = 0
        fresh == b.suspended \/ b.window = 0
        count == IF fresh THEN 1 ELSE b.count + 1
    IN  IF b.suspended /\ ~idle
        THEN [b EXCEPT !.quiet = CircuitSuspend]
        ELSE [window    |-> IF fresh THEN CircuitWindow ELSE b.window,
              count     |-> count,
              quiet     |-> CircuitSuspend,
              suspended |-> count > K]

\* handle_event: the binary check reads the file as it is now.
HandleEvent ==
    /\ events # <<>>
    /\ events' = Tail(events)
    /\ LET binary == file \in Binary
           b      == Checked(breaker)
           drop   == binary \/ b.suspended
       IN  /\ breaker' = IF binary THEN breaker ELSE b
           /\ paths' = IF drop THEN paths ELSE Append(paths, Head(events))
           /\ missed' = (missed \/ drop)
    /\ UNCHANGED <<file, memory, commands, at, disconnected, engine, stopping, watching,
                   bounds>>

\* The closed channel ends the thread, and its monitor's path_tx goes with it.
WatcherEnds ==
    /\ watching /\ ~Armed /\ events = <<>>
    /\ watching' = FALSE
    /\ UNCHANGED <<worktree, breaker, paths, memory, commands, at, disconnected, engine,
                   stopping, missed, bounds>>

-----------------------------------------------------------------------------
(* The recorder thread: expire, receive or time out; serve; flush; again. *)

\* DebounceQueue::note
Note(trigger) == [left |-> IF trigger = "Close" THEN 0 ELSE Window]

\* suppressed_writes.retain at the top of the loop.
Retained == IF suppressed # None /\ suppressed.left = 0 THEN None ELSE suppressed

\* Mutant: the session keeps its sender until the join has returned.
PathSendersKept == watching \/ stopping # "done"

PathSenders == watching \/ stopping \in {"no", "waiting", "watch", "path"}

RecvPath ==
    /\ paths # <<>>
    /\ pending' = Note(Head(paths))
    /\ paths' = Tail(paths)
    /\ UNCHANGED disconnected

\* Mutant: the loop waits for the next path, however long.
RecvNoTimeout ==
    /\ FALSE
    /\ UNCHANGED <<pending, paths, disconnected>>

RecvTimeout ==
    /\ paths = <<>> /\ PathSenders
    /\ UNCHANGED <<pending, paths, disconnected>>

RecvDisconnected ==
    /\ paths = <<>> /\ ~PathSenders
    /\ disconnected' = TRUE
    /\ UNCHANGED <<pending, paths>>

Recv ==
    /\ at = "recv"
    /\ at' = "commands"
    /\ suppressed' = Retained
    /\ RecvPath \/ RecvTimeout \/ RecvDisconnected
    /\ UNCHANGED <<worktree, breaker, commands, engine, stopping, watching, missed, bounds>>

\* The watcher sees the rename that replaces the file.
Restored(c) ==
    /\ file' = c
    /\ events' = IF Armed THEN Append(events, "Write") ELSE events

\* Decline, done: the deadline counts from a clock read before the wait.
DeclineDone(c) ==
    /\ Restored(c)
    /\ head' = c
    /\ \E left \in {Ttl - 1, Ttl} : suppressed' = [content |-> c, left |-> left]
    /\ missed' = FALSE
    /\ UNCHANGED <<versions, faults>>

\* Decline fails before the rename, after it, or after the head has moved.
DeclineFailed(c) ==
    /\ faults < MaxFaults
    /\ faults' = faults + 1
    /\ missed' = TRUE
    /\ \/ UNCHANGED <<worktree, head>>
       \/ Restored(c) /\ head' \in {head, c}
    /\ UNCHANGED <<suppressed, versions>>

\* One round of the try_recv loop: handle_command and its reply.
HandleCommand ==
    /\ at = "commands"
    /\ commands # <<>>
    /\ commands' = Tail(commands)
    /\ IF Head(commands) = Checkpoint
       THEN /\ stopping' = "watch"
            /\ UNCHANGED <<worktree, engine, suppressed, missed, faults>>
       ELSE /\ DeclineDone(Head(commands)) \/ DeclineFailed(Head(commands))
            /\ UNCHANGED stopping
    /\ UNCHANGED <<breaker, paths, pending, at, disconnected, watching, edits, requests>>

Due == pending # None /\ pending.left = 0

\* record_tombstone leaves a path without history, or already deleted, alone.
NextHead == IF file = Absent /\ head = None THEN None ELSE file

\* Mutant: any event of a restored path is taken for the undo's own.
SkippedAny == suppressed # None

\* A write of our own is skipped once, and only if the file still holds it.
Skipped == suppressed # None /\ suppressed.content = file

\* Mutant: a mark that did not match stays.
RecordChangeKeepsMark ==
    /\ pending' = None
    /\ suppressed' = IF Skipped THEN None ELSE suppressed
    /\ head' = IF Skipped THEN head ELSE NextHead
    /\ versions' = versions \union ({head'} \intersect Contents)
    /\ missed' = (missed /\ Skipped)
    /\ UNCHANGED faults

\* route_record_event
RecordChange ==
    /\ pending' = None
    /\ suppressed' = None
    /\ head' = IF Skipped THEN head ELSE NextHead
    /\ versions' = versions \union ({head'} \intersect Contents)
    /\ missed' = (missed /\ Skipped)
    /\ UNCHANGED faults

\* The engine fails, before or after its head has moved; the failure is logged.
RecordFails ==
    /\ ~Skipped
    /\ faults < MaxFaults
    /\ faults' = faults + 1
    /\ pending' = None
    /\ suppressed' = None
    /\ missed' = TRUE
    /\ \/ UNCHANGED engine
       \/ head' = NextHead /\ versions' = versions \union ({head'} \intersect Contents)

\* The file cannot be read although it is there: this is logged, and the mark stays.
ReadFails ==
    /\ faults < MaxFaults
    /\ faults' = faults + 1
    /\ pending' = None
    /\ missed' = TRUE
    /\ UNCHANGED <<suppressed, engine>>

\* No command is left: flush_due and the end of the loop's body.
Flush ==
    /\ at = "commands"
    /\ commands = <<>>
    /\ at' = IF disconnected THEN "leave" ELSE "recv"
    /\ \/ Due /\ (RecordChange \/ RecordFails \/ ReadFails)
       \/ ~Due /\ UNCHANGED <<memory, engine, missed, faults>>
    /\ UNCHANGED <<worktree, breaker, paths, commands, disconnected, stopping, watching,
                   edits, requests>>

\* Leaving the loop drops the receivers and whatever is not due yet; requests
\* still in the channel fail when their reply senders go.
Leave ==
    /\ at = "leave"
    /\ at' = "gone"
    /\ commands' = <<>>
    /\ missed' = (missed \/ pending # None)
    /\ pending' = None
    /\ suppressed' = None
    /\ UNCHANGED <<worktree, breaker, paths, disconnected, engine, stopping, watching,
                   bounds>>

-----------------------------------------------------------------------------
(* The handlers of the server. *)

\* SnapshotWatch::decline; stop_inner holds the sender's lock while it waits.
Request(c) ==
    /\ requests < MaxRequests
    /\ c \in versions
    /\ stopping \in {"no", "watch", "path", "command"}
    /\ at # "gone"
    /\ requests' = requests + 1
    /\ commands' = Append(commands, c)
    /\ UNCHANGED <<worktree, breaker, paths, memory, at, disconnected, engine, stopping,
                   watching, missed, edits, faults>>

StopCheckpoint ==
    /\ stopping = "no"
    /\ stopping' = "waiting"
    /\ commands' = Append(commands, Checkpoint)
    /\ UNCHANGED <<worktree, breaker, paths, memory, at, disconnected, engine, watching,
                   missed, bounds>>

\* Drop the watcher, then the sender of paths, then that of commands; join.
StopStep ==
    /\ \/ stopping = "watch" /\ stopping' = "path"
       \/ stopping = "path" /\ stopping' = "command"
       \/ stopping = "command" /\ stopping' = "join"
       \/ stopping = "join" /\ at = "gone" /\ stopping' = "done"
    /\ UNCHANGED <<worktree, breaker, paths, memory, commands, at, disconnected, engine,
                   watching, missed, bounds>>

-----------------------------------------------------------------------------
Loop == Recv \/ HandleCommand \/ Flush \/ Leave

Next ==
    \/ \E c \in Contents \union {Absent}, trigger \in Triggers : Write(c, trigger)
    \/ Tick
    \/ HandleEvent \/ WatcherEnds
    \/ Loop
    \/ \E c \in Contents : Request(c)
    \/ StopCheckpoint \/ StopStep

\* Threads run and time passes; nobody need write, undo or stop.
Spec ==
    /\ Init /\ [][Next]_vars
    /\ WF_vars(Loop) /\ WF_vars(Tick)
    /\ WF_vars(HandleEvent \/ WatcherEnds)
    /\ WF_vars(StopStep)

-----------------------------------------------------------------------------
(* Properties. *)

TypeOK ==
    /\ file \in Contents \union {Absent}
    /\ head \in Contents \union {Absent, None}
    /\ versions \subseteq Contents
    /\ events \in Seq(Triggers) /\ paths \in Seq(Triggers)
    /\ breaker.count \in 0..(K + 1) /\ breaker.suspended \in BOOLEAN
    /\ pending = None \/ pending \in [left : 0..Window]
    /\ suppressed = None \/ suppressed \in [content : Contents, left : 0..Ttl]
    /\ commands \in Seq(Contents \union {Checkpoint})
    /\ at \in {"recv", "commands", "leave", "gone"}

Quiet == at \in {"recv", "gone"} /\ events = <<>> /\ paths = <<>> /\ pending = None

Recorded == head = file \/ (head = None /\ file = Absent)

\* When no event is on its way, the head is what the file holds, whoever wrote
\* it last and whether or not an undo's own event was skipped, unless the
\* change was missed for one of these reasons: the breaker or the binary check
\* dropped an event after the last flush, the engine failed, the recorder was
\* stopped inside the debounce window, or nothing watched.
QuietIsRecorded == Quiet /\ ~missed => Recorded

\* Once programs stop writing, the last content becomes the head, unless missed.
EventuallyRecorded == <>[](Recorded \/ missed)

\* An undo that was sent is answered, also when a stop overtakes it.
RequestIsAnswered == (commands # <<>>) ~> (commands = <<>>)

\* stop() returns: the final checkpoint is answered and the recorder joined.
StopEnds == (stopping = "waiting") ~> (stopping = "done")
=============================================================================
