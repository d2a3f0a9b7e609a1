------------------------------ MODULE MediaDrain ------------------------------
(***************************************************************************)
(* The typed events of a pane (media and actions, mux_server's pane.rs) on  *)
(* their way from the PTY read thread to the hooks that a request handler   *)
(* installs after the pane runs (connection.rs).                            *)
(*                                                                          *)
(* Both threads call drain_pending_typed_events: the read thread after it   *)
(* queued events, the handler after it set a hook.  One of them drains at a *)
(* time; the other leaves a request to try again and goes.  A hook reads    *)
(* the list of sessions, whose lock a handler may hold at that moment and   *)
(* any other request may wait for.                                          *)
(*                                                                          *)
(* Every pane of the daemon is spawned with a session, so enqueue keeps     *)
(* every event whether or not its hook is there.  Hooks are installed once  *)
(* per pane.  A step is what happens under one hold of a lock.              *)
(***************************************************************************)
EXTENDS Naturals, Sequences

CONSTANTS
    Handlers,   \* which handlers may create the pane: of "recover", "spawn", "split"
    MaxEvents,  \* bound: events the program in the pane emits
    MaxBatch,   \* bound: events of one read
    MaxOthers   \* bound: other requests that write the list of sessions

ASSUME MediaAssumption ==
    /\ Handlers \subseteq {"recover", "spawn", "split"}
    /\ MaxEvents \in Nat /\ MaxBatch \in Nat
    /\ MaxOthers \in Nat

Kinds   == {"media", "action"}
Threads == {"reader", "handler"}
Nothing == [kind |-> "none", sequence |-> 0]
Events  == [kind : Kinds, sequence : 1..MaxEvents]

VARIABLES
    queue,     \* PendingTypedEvents.queue
    draining,  \* PendingTypedEvents.draining
    retry,     \* PendingTypedEvents.retry_requested
    hooks,     \* the kinds whose hook is set
    sequence,  \* media_sequence
    pc,        \* per thread: where it is in drain_pending_typed_events
    held,      \* per thread: the event it has popped
    handler,   \* which handler creates the pane
    todo,      \* what that handler still has to do
    sessions,  \* what it holds of the lock on the list of sessions
    other,     \* another request: "idle", "waiting" for the list, or "writing" it
    others,    \* requests of that kind so far
    delivered  \* history: events passed to a hook

vars == <<queue, draining, retry, hooks, sequence, pc, held, handler, todo, sessions, other,
          others, delivered>>

pending == <<queue, draining, retry>>
lock    == <<sessions, other, others>>
job     == <<handler, todo>>

\* Mutant: a recovery installs the hooks before it gives the list back.
StepsHolding ==
    [recover |-> <<"read", "media", "action", "release">>,
     spawn   |-> <<"read", "media", "action", "release">>,
     split   |-> <<"write", "media", "action", "release">>]

\* The handlers differ in how they hold the list while they install the hooks:
\* a recovery gives it back first, a spawn only reads, a split writes.
Steps ==
    [recover |-> <<"read", "release", "media", "action">>,
     spawn   |-> <<"read", "media", "action", "release">>,
     split   |-> <<"write", "media", "action", "release">>]

Init ==
    /\ queue = <<>> /\ draining = FALSE /\ retry = FALSE
    /\ hooks = {}
    /\ sequence = 0
    /\ pc = [t \in Threads |-> "out"]
    /\ held = [t \in Threads |-> Nothing]
    /\ handler \in Handlers
    /\ todo = Steps[handler]
    /\ sessions = "none"
    /\ other = "idle" /\ others = 0
    /\ delivered = <<>>

-----------------------------------------------------------------------------
(* drain_pending_typed_events, on thread t. *)

Goto(t, place) == pc' = [pc EXCEPT ![t] = place]

\* Mutant: whoever finds the drain busy leaves no trace.
EnterSilently(t) ==
    /\ pc[t] = "enter"
    /\ IF draining
       THEN Goto(t, "out") /\ UNCHANGED draining
       ELSE draining' = TRUE /\ Goto(t, "pop")
    /\ UNCHANGED <<queue, retry, hooks, sequence, held, job, lock, delivered>>

\* Mutant: the flag is only looked at.
EnterAnyway(t) ==
    /\ pc[t] = "enter"
    /\ draining' = TRUE
    /\ Goto(t, "pop")
    /\ UNCHANGED <<queue, retry, hooks, sequence, held, job, lock, delivered>>

\* Become the drainer, or ask the one there is to try again.
Enter(t) ==
    /\ pc[t] = "enter"
    /\ \/ draining /\ retry' = TRUE /\ Goto(t, "out") /\ UNCHANGED draining
       \/ ~draining /\ draining' = TRUE /\ Goto(t, "pop") /\ UNCHANGED retry
    /\ UNCHANGED <<queue, hooks, sequence, held, job, lock, delivered>>

PopEmpty(t) ==
    /\ pc[t] = "pop" /\ queue = <<>>
    /\ draining' = FALSE
    /\ retry' = FALSE
    /\ Goto(t, "out")
    /\ UNCHANGED <<queue, hooks, sequence, held, job, lock, delivered>>

Pop(t) ==
    /\ pc[t] = "pop" /\ queue # <<>>
    /\ held' = [held EXCEPT ![t] = Head(queue)]
    /\ queue' = Tail(queue)
    /\ Goto(t, "look")
    /\ UNCHANGED <<draining, retry, hooks, sequence, job, lock, delivered>>

\* The hook is cloned out of its own lock.
Look(t) ==
    /\ pc[t] = "look"
    /\ Goto(t, IF held[t].kind \in hooks THEN "call" ELSE "back")
    /\ UNCHANGED <<pending, hooks, sequence, held, job, lock, delivered>>

\* A reader of the list of sessions waits for a writer, and for one that waits:
\* the lock does not ask which thread it is.
SessionsReadable == sessions # "write" /\ other = "idle"

\* The hook finds the session and broadcasts to its clients.
Call(t) ==
    /\ pc[t] = "call"
    /\ SessionsReadable
    /\ delivered' = Append(delivered, held[t].sequence)
    /\ held' = [held EXCEPT ![t] = Nothing]
    /\ Goto(t, "pop")
    /\ UNCHANGED <<pending, hooks, sequence, job, lock>>

\* Mutant: the event goes to the end of the queue.
PushLast(t) ==
    /\ pc[t] = "back"
    /\ queue' = Append(queue, held[t])
    /\ held' = [held EXCEPT ![t] = Nothing]
    /\ retry' = FALSE
    /\ draining' = FALSE
    /\ Goto(t, IF retry THEN "enter" ELSE "out")
    /\ UNCHANGED <<hooks, sequence, job, lock, delivered>>

\* No hook: the event goes back to the front, and the drain ends unless
\* somebody asked for another one.
PushFront(t) ==
    /\ pc[t] = "back"
    /\ queue' = <<held[t]>> \o queue
    /\ held' = [held EXCEPT ![t] = Nothing]
    /\ retry' = FALSE
    /\ draining' = FALSE
    /\ Goto(t, IF retry THEN "enter" ELSE "out")
    /\ UNCHANGED <<hooks, sequence, job, lock, delivered>>

Drain(t) ==
    Enter(t) \/ PopEmpty(t) \/ Pop(t) \/ Look(t) \/ Call(t) \/ PushFront(t)

-----------------------------------------------------------------------------
(* The read thread. *)

\* Mutant: the number is the counter's after the addition, and one more.
StampedTwice(batch) ==
    [i \in 1..Len(batch) |-> [kind |-> batch[i], sequence |-> sequence + i + 1]]

\* What one read brings, each event stamped with the pane's next number.
Stamped(batch) ==
    [i \in 1..Len(batch) |-> [kind |-> batch[i], sequence |-> sequence + i]]

Batches == UNION {[1..n -> Kinds] : n \in 1..MaxBatch}

\* dispatch_media_events and enqueue_typed_events
Dispatch(batch) ==
    /\ pc["reader"] = "out"
    /\ sequence + Len(batch) <= MaxEvents
    /\ sequence' = sequence + Len(batch)
    /\ queue' = queue \o Stamped(batch)
    /\ Goto("reader", "enter")
    /\ UNCHANGED <<draining, retry, hooks, held, job, lock, delivered>>

-----------------------------------------------------------------------------
(* The handler, and the requests beside it. *)

HandlerAt(step) == pc["handler"] = "out" /\ todo # <<>> /\ Head(todo) = step

\* set_media_hook and set_action_hook
SetHook(kind) ==
    /\ HandlerAt(kind)
    /\ hooks' = hooks \union {kind}
    /\ todo' = Tail(todo)
    /\ Goto("handler", "enter")
    /\ UNCHANGED <<pending, sequence, held, handler, lock, delivered>>

LockSessions(mode) ==
    /\ HandlerAt(mode)
    /\ other = "idle"
    /\ sessions' = mode
    /\ todo' = Tail(todo)
    /\ UNCHANGED <<pending, hooks, sequence, pc, held, handler, other, others, delivered>>

UnlockSessions ==
    /\ HandlerAt("release")
    /\ sessions' = "none"
    /\ todo' = Tail(todo)
    /\ UNCHANGED <<pending, hooks, sequence, pc, held, handler, other, others, delivered>>

OtherWaits ==
    /\ other = "idle" /\ others < MaxOthers
    /\ other' = "waiting"
    /\ others' = others + 1
    /\ UNCHANGED <<pending, hooks, sequence, pc, held, job, sessions, delivered>>

OtherGoesOn ==
    /\ \/ other = "waiting" /\ sessions = "none" /\ other' = "writing"
       \/ other = "writing" /\ other' = "idle"
    /\ UNCHANGED <<pending, hooks, sequence, pc, held, job, sessions, others, delivered>>

Handle ==
    \/ \E kind \in Kinds : SetHook(kind)
    \/ \E mode \in {"read", "write"} : LockSessions(mode)
    \/ UnlockSessions

Next ==
    \/ \E t \in Threads : Drain(t)
    \/ \E batch \in Batches : Dispatch(batch)
    \/ Handle
    \/ OtherWaits \/ OtherGoesOn

\* Threads run and locks are handed on; the program need not emit anything.
Spec ==
    /\ Init /\ [][Next]_vars
    /\ \A t \in Threads : WF_vars(Drain(t))
    /\ WF_vars(Handle)
    /\ WF_vars(OtherGoesOn)

-----------------------------------------------------------------------------
(* Properties. *)

TypeOK ==
    /\ queue \in Seq(Events)
    /\ draining \in BOOLEAN /\ retry \in BOOLEAN
    /\ hooks \subseteq Kinds
    /\ sequence \in 0..MaxEvents
    /\ pc \in [Threads -> {"out", "enter", "pop", "look", "call", "back"}]
    /\ held \in [Threads -> Events \union {Nothing}]
    /\ handler \in Handlers
    /\ todo \in Seq({"read", "write", "media", "action", "release"})
    /\ sessions \in {"none", "read", "write"}
    /\ other \in {"idle", "waiting", "writing"}
    /\ others \in 0..MaxOthers
    /\ delivered \in Seq(1..MaxEvents)

Inside(t) == pc[t] \in {"pop", "look", "call", "back"}

\* draining is set exactly while one thread is between its pop and its way
\* out, and never two are: no thread drains beside another, and none leaves
\* the flag behind.
OneDrainer ==
    /\ draining <=> \E t \in Threads : Inside(t)
    /\ \A t, u \in Threads : Inside(t) /\ Inside(u) => t = u

\* An event whose hook is set never lies in the queue with nobody to take it:
\* if nobody drains or is about to, the hook of the first event is missing.
NoneStranded ==
    queue # <<>> /\ ~draining /\ (\A t \in Threads : pc[t] # "enter")
        => Head(queue).kind \notin hooks

\* Events reach the hooks in the order of their sequence numbers, across both
\* kinds, each once and none left out.
InSequence == \A i \in 1..Len(delivered) : delivered[i] = i

\* Once the hooks are installed, every event is delivered.
AllDelivered == <>[](Len(delivered) = sequence)

\* The handler that creates a pane gets to its end.
HandlerReturns == <>(todo = <<>>)
=============================================================================
