------------------------------ MODULE DirtyLatch ------------------------------
(***************************************************************************)
(* Fan-out of server notifications to the subscribers of a MuxDomain       *)
(* (mux.rs).  Each subscriber has a bounded queue.  A reliable notification *)
(* blocks the fanning-out thread while a queue is full; a PaneDirty that    *)
(* does not fit is recorded in a per-pane latch beside the queue, which the *)
(* receiver turns back into one PaneDirty when its queue has run empty; any *)
(* other lossy notification is dropped.                                    *)
(*                                                                         *)
(* Two threads fan out at once: the I/O thread of the transport, and the    *)
(* foreground thread of the application in a reconnect, which broadcasts    *)
(* synthetic notifications.  Every receiver runs on the foreground thread   *)
(* too.  The queue and the latch are two objects, and neither side holds a  *)
(* lock over both.                                                         *)
(***************************************************************************)
EXTENDS Naturals, Sequences, FiniteSets

CONSTANTS
    Subs,           \* subscribers (views and windows)
    Routers,        \* threads that fan notifications out
    Reconnector,    \* the one of them that runs a reconnect: the foreground thread
    Panes,
    QueueCapacity,  \* NOTIFICATION_QUEUE_CAPACITY
    MaxNotes,       \* bound: notifications one router fans out
    MaxBroadcasts   \* bound: those of a reconnect

ASSUME CapacityAssumption == QueueCapacity \in Nat \ {0}
ASSUME MaxNotesAssumption == MaxNotes \in Nat /\ MaxBroadcasts \in 0..MaxNotes

VARIABLES
    subs,       \* DomainInner.subscribers, in order of subscription
    state,      \* state[s]: whether the receiver of s exists
    queue,      \* queue[s]: its bounded channel
    latch,      \* latch[s]: its dirty_latches
    at,         \* at[s]: where its receiver is inside recv / try_recv
    todo,       \* todo[r]: subscribers left in r's fan-out
    note,       \* note[r]: the notification r fans out
    refused,    \* refused[r]: try_send said Full, the latch is not yet set
    count,      \* count[r]: notifications r has fanned out
    \* what has been offered and received so far:
    offered,    \* offered[s][r]: last reliable notification r put before s
    got,        \* got[s][r]: last reliable notification from r that s received
    news        \* news[s]: panes offered as dirty, with no dirty received since

router == <<todo, note, refused, count>>
vars   == <<subs, state, queue, latch, at, router, offered, got, news>>

-----------------------------------------------------------------------------
\* notification_requires_reliable_delivery splits the events into reliable
\* ones, numbered here by their position in the router's stream, PaneDirty,
\* and output chunks.
Reliable(r, n) == [kind |-> "reliable", from |-> r, id |-> n]
Dirty(p)       == [kind |-> "dirty", pane |-> p]
Output         == [kind |-> "output"]
Note           == [kind: {"reliable"}, from: Routers, id: 1..MaxNotes]
                  \cup [kind: {"dirty"}, pane: Panes] \cup {Output}

Open(s) == state[s] = "open"

\* The views' tasks and the reconnect are spawned on the same foreground
\* executor, and a fan-out has no await in it: while a reconnect fans out, no
\* receiver runs, and none is created or dropped.
ForegroundFree == Reconnector \in Routers => todo[Reconnector] = <<>>

\* subscribe: a fresh queue and latch, registered last.
Subscribe(s) ==
    /\ ForegroundFree /\ state[s] = "absent"
    /\ state' = [state EXCEPT ![s] = "open"]
    /\ subs' = Append(subs, s)
    /\ UNCHANGED <<queue, latch, at, router, offered, got, news>>

\* The subscriber drops its receiver, between two calls or while it waits.
\* That closes the channel; the record in subs stays until it is pruned.
Drop(s) ==
    /\ ForegroundFree /\ Open(s) /\ at[s] \in {"outside", "waiting"}
    /\ state' = [state EXCEPT ![s] = "closed"]
    /\ UNCHANGED <<subs, queue, latch, at, router, offered, got, news>>

-----------------------------------------------------------------------------
(* fan_out_notification. *)

\* What thread r fans out next.  The I/O thread routes what the server pushes; a
\* reconnect broadcasts the layout of the snapshot it was given, if any, and
\* then a PaneDirty for each pane.
Sends(r) ==
    LET layout == {Reliable(r, count[r] + 1)}
        dirty  == {Dirty(p) : p \in Panes}
    IN  CASE r # Reconnector -> layout \cup dirty \cup {Output}
          [] r = Reconnector /\ count[r] = 0 -> layout \cup dirty
          [] r = Reconnector /\ count[r] > 0 -> dirty

\* retain, with is_closed as its test: the order of subscription stays.
Retained ==
    LET kept[n \in 0..Len(subs)] ==
          IF n = 0 THEN <<>>
          ELSE IF Open(subs[n]) THEN Append(kept[n - 1], subs[n]) ELSE kept[n - 1]
    IN  kept[Len(subs)]

\* route_envelope_payload, broadcast_notification: prune the closed records and
\* clone the others, so that the subscriber lock is not held while blocking.
Route(r) ==
    \E n \in Sends(r) :
        /\ todo[r] = <<>>
        /\ count[r] < IF r = Reconnector THEN MaxBroadcasts ELSE MaxNotes
        /\ subs' = Retained
        /\ todo' = [todo EXCEPT ![r] = subs']
        /\ note' = [note EXCEPT ![r] = n]
        /\ count' = [count EXCEPT ![r] = @ + 1]
        /\ UNCHANGED <<state, queue, latch, at, refused, offered, got, news>>

Advance(r) == todo' = [todo EXCEPT ![r] = Tail(@)]

\* The channel takes the notification: send_blocking, or try_send's Ok.
Enqueue(r, s) ==
    /\ Open(s) /\ Len(queue[s]) < QueueCapacity
    /\ queue' = [queue EXCEPT ![s] = Append(@, note[r])]
    /\ Advance(r)
    /\ UNCHANGED refused

\* Mutant of SkipClosed: a blocking send does not notice the closed channel.
SkipClosedLossy(r, s) ==
    /\ ~Open(s) /\ note[r].kind # "reliable"
    /\ Advance(r)
    /\ UNCHANGED <<queue, refused>>

\* Its receiver is gone: both kinds of send fail and the fan-out goes on.
SkipClosed(r, s) ==
    /\ ~Open(s)
    /\ Advance(r)
    /\ UNCHANGED <<queue, refused>>

\* Mutant of Refuse: a reliable notification is dropped like an output chunk.
RefuseAny(r, s) ==
    /\ Open(s) /\ Len(queue[s]) = QueueCapacity
    /\ IF note[r].kind = "dirty"
       THEN refused' = [refused EXCEPT ![r] = TRUE] /\ UNCHANGED todo
       ELSE Advance(r) /\ UNCHANGED refused
    /\ UNCHANGED queue

\* Mutant of Refuse: a PaneDirty that does not fit is dropped as well.
RefuseDropsDirty(r, s) ==
    /\ Open(s) /\ Len(queue[s]) = QueueCapacity
    /\ note[r].kind # "reliable"
    /\ Advance(r)
    /\ UNCHANGED <<queue, refused>>

\* Full.  Only reliable notifications wait, which is this action not being
\* enabled for them.
Refuse(r, s) ==
    /\ Open(s) /\ Len(queue[s]) = QueueCapacity
    /\ note[r].kind # "reliable"
    /\ IF note[r].kind = "dirty"
       THEN refused' = [refused EXCEPT ![r] = TRUE] /\ UNCHANGED todo
       ELSE Advance(r) /\ UNCHANGED refused
    /\ UNCHANGED queue

\* One subscriber's turn, up to and including the attempt to send.
Offer(r) ==
    LET s == Head(todo[r])
    IN  /\ todo[r] # <<>> /\ ~refused[r]
        /\ Enqueue(r, s) \/ SkipClosed(r, s) \/ Refuse(r, s)
        /\ offered' = IF note[r].kind = "reliable"
                      THEN [offered EXCEPT ![s][r] = note[r].id] ELSE offered
        /\ news' = IF note[r].kind = "dirty"
                   THEN [news EXCEPT ![s] = @ \cup {note[r].pane}] ELSE news
        /\ UNCHANGED <<subs, state, latch, at, note, count, got>>

\* ... and the latch, after a try_send that found the queue full.
SetLatch(r) ==
    LET s == Head(todo[r])
    IN  /\ refused[r]
        /\ latch' = [latch EXCEPT ![s] = @ \cup {note[r].pane}]
        /\ refused' = [refused EXCEPT ![r] = FALSE]
        /\ Advance(r)
        /\ UNCHANGED <<subs, state, queue, at, note, count, offered, got, news>>

-----------------------------------------------------------------------------
(* NotificationReceiver. *)

\* The subscriber is handed n.
Receive(s, n) ==
    /\ got' = IF n.kind = "reliable" THEN [got EXCEPT ![s][n.from] = n.id] ELSE got
    /\ news' = IF n.kind = "dirty" THEN [news EXCEPT ![s] = @ \ {n.pane}] ELSE news

\* A queued notification, for a call that starts or one that waits.
TakeQueued(s) ==
    /\ ForegroundFree /\ Open(s) /\ at[s] \in {"outside", "waiting"}
    /\ queue[s] # <<>>
    /\ Receive(s, Head(queue[s]))
    /\ queue' = [queue EXCEPT ![s] = Tail(@)]
    /\ at' = [at EXCEPT ![s] = "outside"]
    /\ UNCHANGED <<subs, state, latch, router, offered>>

\* recv, or try_recv, starts and finds the queue empty.
FindEmpty(s) ==
    /\ ForegroundFree /\ Open(s) /\ at[s] = "outside"
    /\ queue[s] = <<>>
    /\ \E call \in {"recv", "try_recv"} : at' = [at EXCEPT ![s] = call]
    /\ UNCHANGED <<subs, state, queue, latch, router, offered, got, news>>

\* take_latched_dirty: one PaneDirty for one latched pane.
TakeLatched(s) ==
    \E p \in latch[s] :
        /\ ForegroundFree /\ at[s] \in {"recv", "try_recv"}
        /\ latch' = [latch EXCEPT ![s] = @ \ {p}]
        /\ Receive(s, Dirty(p))
        /\ at' = [at EXCEPT ![s] = "outside"]
        /\ UNCHANGED <<subs, state, queue, router, offered>>

\* Nothing is latched either: recv waits on the queue, try_recv returns.
FindUnlatched(s) ==
    /\ ForegroundFree /\ at[s] \in {"recv", "try_recv"}
    /\ latch[s] = {}
    /\ at' = [at EXCEPT ![s] = IF @ = "recv" THEN "waiting" ELSE "outside"]
    /\ UNCHANGED <<subs, state, queue, latch, router, offered, got, news>>

-----------------------------------------------------------------------------
Init ==
    /\ subs = <<>>
    /\ state = [s \in Subs |-> "absent"]
    /\ queue = [s \in Subs |-> <<>>]
    /\ latch = [s \in Subs |-> {}]
    /\ at = [s \in Subs |-> "outside"]
    /\ todo = [r \in Routers |-> <<>>]
    /\ note = [r \in Routers |-> Output]
    /\ refused = [r \in Routers |-> FALSE]
    /\ count = [r \in Routers |-> 0]
    /\ offered = [s \in Subs |-> [r \in Routers |-> 0]]
    /\ got = offered
    /\ news = [s \in Subs |-> {}]

FanOut(r) == Offer(r) \/ SetLatch(r)
Recv(s)   == TakeQueued(s) \/ FindEmpty(s) \/ TakeLatched(s) \/ FindUnlatched(s)

Next == \/ \E s \in Subs : Subscribe(s) \/ Drop(s) \/ Recv(s)
        \/ \E r \in Routers : Route(r) \/ FanOut(r)

Spec == Init /\ [][Next]_vars

\* A fan-out goes on whenever it can, and a live subscriber calls recv again
\* after each notification (start_notification_listener's loop) whenever the
\* foreground thread is free to run it.
Fairness == /\ \A r \in Routers : WF_vars(FanOut(r))
            /\ \A s \in Subs : WF_vars(Recv(s))

FairSpec == Spec /\ Fairness

-----------------------------------------------------------------------------
(* Properties. *)

\* Types; a queue never outgrows its capacity.
TypeOK ==
    /\ subs \in Seq(Subs) /\ \A r \in Routers : todo[r] \in Seq(Subs)
    /\ state \in [Subs -> {"absent", "open", "closed"}]
    /\ \A s \in Subs : queue[s] \in Seq(Note) /\ Len(queue[s]) <= QueueCapacity
    /\ latch \in [Subs -> SUBSET Panes]
    /\ at \in [Subs -> {"outside", "recv", "try_recv", "waiting"}]
    /\ note \in [Routers -> Note]
    /\ refused \in [Routers -> BOOLEAN]
    /\ count \in [Routers -> 0..MaxNotes]
    /\ offered \in [Subs -> [Routers -> 0..MaxNotes]]
    /\ got \in [Subs -> [Routers -> 0..MaxNotes]]
    /\ news \in [Subs -> SUBSET Panes]

\* A dirty pane a subscriber has not heard of since is queued, latched, or
\* about to be latched: the full queue loses no pane, whichever thread filled
\* it and however the receiver's two reads interleave with the two writes.
DirtyIsKept ==
    \A s \in Subs : Open(s) =>
        \A p \in news[s] :
            \/ p \in latch[s]
            \/ \E i \in 1..Len(queue[s]) : queue[s][i] = Dirty(p)
            \/ \E r \in Routers : /\ refused[r]
                                  /\ Head(todo[r]) = s
                                  /\ note[r] = Dirty(p)

\* The places in the queue of s that hold reliable notifications of router r.
Waiting(s, r) ==
    {i \in 1..Len(queue[s]) : queue[s][i].kind = "reliable" /\ queue[s][i].from = r}

\* Reliable notifications of one router are received in its order, and the
\* last one put before a live subscriber is received or still queued.
ReliableInOrder ==
    \A s \in Subs, r \in Routers : Open(s) =>
        LET id(i) == queue[s][i].id
        IN  /\ \A i \in Waiting(s, r) : id(i) > got[s][r]
            /\ \A i, j \in Waiting(s, r) : i < j => id(i) < id(j)
            /\ Waiting(s, r) = {} => offered[s][r] = got[s][r]
            /\ \A i \in Waiting(s, r) :
                 (\A j \in Waiting(s, r) : j <= i) => offered[s][r] = id(i)

\* Every fan-out is over, and every reliable notification in it was received.
Settled ==
    \A r \in Routers :
        /\ todo[r] = <<>>
        /\ \A s \in Subs : Open(s) => got[s][r] = offered[s][r]

\* The reconnect blocks the foreground thread on a full queue, whose receiver
\* only that thread could run.
Frozen ==
    /\ ~ForegroundFree /\ note[Reconnector].kind = "reliable"
    /\ LET s == Head(todo[Reconnector])
       IN  Open(s) /\ Len(queue[s]) = QueueCapacity

\* Once the notifications stop coming, every fan-out ends and each subscriber
\* that stays has received every reliable notification put before it: no slow
\* or vanished subscriber holds up the I/O thread for good.  The one exception
\* is a reconnect that froze the application (ReconnectEnds).
ReliableArrives == <>[]Frozen \/ []<>Settled

\* "Broadcast a synthetic notification to every subscriber (at-least-once)"
\* (mux.rs, broadcast_notification), on a path that means to "block the
\* dedicated I/O thread" (fan_out_notification): the broadcasts of a reconnect
\* come to an end.
ReconnectEnds == ~ForegroundFree ~> ForegroundFree

\* "the receiver turns each latched pane back into exactly one PaneDirty once
\* its queue drains" (mux.rs, SubscriberSender).
LatchIsDelivered ==
    \A s \in Subs, p \in Panes :
        p \in latch[s] ~> (p \notin latch[s] \/ ~Open(s))
=============================================================================
