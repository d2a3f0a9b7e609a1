------------------------------- MODULE ReadLoop -------------------------------
(***************************************************************************)
(* The PTY reader thread of a pane (pane.rs, dec2026.rs, coalescing.rs):    *)
(* when a change the program wrote becomes a published generation, and when *)
(* a PaneDirty for it goes out.                                             *)
(*                                                                          *)
(* Changes inside a synchronized update (DEC mode 2026) are held back until *)
(* the update ends or, for one that is never ended, until a timeout.  A     *)
(* PaneDirty that comes too soon after the last one is put off.  The thread *)
(* looks after both only when it gets around to it: it polls the PTY, reads *)
(* when there is something to read, and otherwise does the housekeeping.    *)
(* Time is abstract: a deadline passes at any moment after it was set.      *)
(***************************************************************************)
EXTENDS Naturals

CONSTANT
    HasFd           \* the PTY has a descriptor the thread can poll

ASSUME HasFdAssumption == HasFd \in BOOLEAN

VARIABLES
    input,      \* what the program has written and the thread has not read
    alive,      \* the program has not closed the PTY
    at,         \* the thread: "poll", "read" or "done"
    inSync,     \* Dec2026Parser.in_sync
    overdue,    \* SYNC_TIMEOUT has passed since begin_time
    pSync,      \* ReadLoopState.pending_sync
    pNotify,    \* ReadLoopState.pending_notify
    cooling,    \* the coalescer's window since last_emit has not passed
    unsignalled \* a generation was published and no PaneDirty sent since

loop == <<inSync, overdue, pSync, pNotify, cooling, unsignalled>>
vars == <<input, alive, at, loop>>

\* One read's worth of bytes: whether it changes the grid, whether a
\* synchronized update ends in it (it may have begun in it too), and whether
\* one begins, or begins anew, after that.
Batches == [changed: BOOLEAN, ends: BOOLEAN, begins: BOOLEAN]
Nothing == [changed |-> FALSE]

-----------------------------------------------------------------------------
(* The program (external). *)

Write ==
    /\ alive /\ input = Nothing
    /\ input' \in Batches
    /\ UNCHANGED <<alive, at, loop>>

Exit ==
    /\ alive
    /\ alive' = FALSE
    /\ UNCHANGED <<input, at, loop>>

(* Time. *)

WindowPasses ==
    /\ cooling
    /\ cooling' = FALSE
    /\ UNCHANGED <<input, alive, at, inSync, overdue, pSync, pNotify, unsignalled>>

SyncExpires ==
    /\ inSync /\ ~overdue
    /\ overdue' = TRUE
    /\ UNCHANGED <<input, alive, at, inSync, pSync, pNotify, cooling, unsignalled>>

-----------------------------------------------------------------------------
(* The thread. *)

\* window_elapsed: the window has passed, or the interactive tier has none.
Admits(interactive) == interactive \/ ~cooling

\* emit_generation: a new generation, and its PaneDirty if it may be sent.
\* Mutant of Emit: a PaneDirty that is put off is not remembered.
EmitAndForget(send) ==
    /\ pNotify' = FALSE
    /\ unsignalled' = ~send

Emit(send) ==
    /\ pNotify' = ~send
    /\ unsignalled' = ~send

\* flush_pending_notify on its own.
FlushPendingNotify(interactive) ==
    IF pNotify /\ Admits(interactive)
    THEN cooling' = TRUE /\ unsignalled' = FALSE /\ pNotify' = FALSE
    ELSE UNCHANGED <<cooling, unsignalled, pNotify>>

\* process_pty_bytes.  A put-off PaneDirty goes first if its window has passed;
\* a new generation is then too soon, unless it ends a synchronized update or
\* the tier is interactive.
Process(b, interactive) ==
    LET sync    == IF b.ends THEN b.begins ELSE inSync \/ b.begins
        flushed == pNotify /\ Admits(interactive)
        publish == (b.changed \/ pSync) /\ (b.ends \/ ~sync)
        send    == b.ends \/ interactive \/ ~(cooling \/ flushed)
    IN  /\ inSync' = sync
        /\ overdue' = (overdue /\ sync /\ ~b.begins)
        /\ pSync' = (~publish /\ (pSync \/ (b.changed /\ sync)))
        /\ IF publish
           THEN Emit(send) /\ cooling' = (cooling \/ flushed \/ send)
           ELSE FlushPendingNotify(interactive)

\* The poll reports something to read, or there is no descriptor to poll.
PollReadable ==
    /\ at = "poll"
    /\ ~HasFd \/ input # Nothing \/ ~alive
    /\ at' = "read"
    /\ UNCHANGED <<input, alive, loop>>

ReadBytes ==
    /\ at = "read"
    /\ input # Nothing
    /\ \E interactive \in BOOLEAN : Process(input, interactive)
    /\ input' = Nothing
    /\ at' = "poll"
    /\ UNCHANGED alive

ReadEof ==
    /\ at = "read"
    /\ input = Nothing /\ ~alive
    /\ at' = "done"
    /\ UNCHANGED <<input, alive, loop>>

\* force_flush_after_bsu_timeout: the held-back changes become a generation
\* whose PaneDirty is not put off; without any, a put-off PaneDirty may go.
\* Mutant of ForceFlush: the update is closed and its changes are left behind.
ForceFlushNothing(interactive) ==
    /\ UNCHANGED pSync
    /\ FlushPendingNotify(interactive)

ForceFlush(interactive) ==
    /\ pSync' = FALSE
    /\ IF pSync THEN Emit(TRUE) /\ cooling' = TRUE
       ELSE FlushPendingNotify(interactive)

\* The poll times out: the only place where deadlines are looked at.
\* Mutant of PollTimeout: a put-off PaneDirty is not looked after.
PollTimeoutSyncOnly ==
    /\ at = "poll" /\ HasFd /\ input = Nothing /\ alive
    /\ overdue
    /\ inSync' = FALSE /\ overdue' = FALSE
    /\ \E interactive \in BOOLEAN : ForceFlush(interactive)
    /\ UNCHANGED <<input, alive, at>>

\* Mutant of PollTimeout: the synchronized update is not looked after.
PollTimeoutNotifyOnly ==
    /\ at = "poll" /\ HasFd /\ input = Nothing /\ alive
    /\ \E interactive \in BOOLEAN : FlushPendingNotify(interactive)
    /\ UNCHANGED <<input, alive, at, inSync, overdue, pSync>>

PollTimeout ==
    /\ at = "poll" /\ HasFd /\ input = Nothing /\ alive
    /\ \E interactive \in BOOLEAN :
        IF overdue
        THEN inSync' = FALSE /\ overdue' = FALSE /\ ForceFlush(interactive)
        ELSE FlushPendingNotify(interactive) /\ UNCHANGED <<inSync, overdue, pSync>>
    /\ UNCHANGED <<input, alive, at>>

-----------------------------------------------------------------------------
Init ==
    /\ input = Nothing /\ alive = TRUE /\ at = "poll"
    /\ inSync = FALSE /\ overdue = FALSE
    /\ pSync = FALSE /\ pNotify = FALSE
    /\ cooling = FALSE /\ unsignalled = FALSE

Thread == PollReadable \/ ReadBytes \/ ReadEof \/ PollTimeout

Next == Write \/ Exit \/ WindowPasses \/ SyncExpires \/ Thread

Spec == Init /\ [][Next]_vars

\* The thread runs and time passes.  The program owes nothing.
FairSpec == Spec /\ WF_vars(Thread) /\ WF_vars(WindowPasses) /\ WF_vars(SyncExpires)

-----------------------------------------------------------------------------
(* Properties. *)

\* Types.
TypeOK ==
    /\ input \in Batches \cup {Nothing}
    /\ at \in {"poll", "read", "done"}
    /\ {alive, inSync, overdue, pSync, pNotify, cooling, unsignalled} \subseteq BOOLEAN

\* No change is held back outside a synchronized update: whatever closes the
\* update publishes what it held back.
HeldBackOnlyInSync == pSync => inSync

\* A generation whose PaneDirty was put off is remembered until one is sent.
PutOffIsRemembered == unsignalled => pNotify

Quiet == input = Nothing /\ alive

\* The last frame of an output is signalled although nothing follows it: "the
\* last frame of an output is always delivered" (coalescing.rs, admit_frame).
LastFrameIsSignalled == <>[]Quiet => <>[](~unsignalled)

\* Once the program is quiet, a synchronized update it never ended is closed
\* and what it held back is published.
QuietSyncEnds == <>[]Quiet => <>[](~inSync /\ ~pSync)

=============================================================================
