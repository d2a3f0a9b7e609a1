--------------------------- MODULE RecorderProofs ---------------------------
(***************************************************************************)
(* Proofs about Recorder, for every set of contents, window, deadline and   *)
(* bound.                                                                   *)
(*                                                                          *)
(* The argument: a change the head does not have is on its way, as an       *)
(* event, a path in the channel or an entry of the debounce queue, or is    *)
(* counted as missed (OnItsWay).  The step that could break this is the one *)
(* that takes an entry of the debounce queue for the undo's own event and   *)
(* records nothing; it is right because a mark always names the head        *)
(* (MarkIsHead), so a file that holds what the mark names is recorded.      *)
(***************************************************************************)
EXTENDS Recorder, SequenceTheorems, TLAPS

\* The shapes of what the threads pass on and remember.
DataOK ==
    /\ events \in Seq(Triggers)
    /\ paths \in Seq(Triggers)
    /\ commands \in Seq(Contents \union {Checkpoint})
    /\ pending \in {None} \union [left : Nat]
    /\ suppressed \in {None} \union [content : Contents, left : Nat]
    /\ missed \in BOOLEAN
    /\ versions \subseteq Contents

MarkIsHead == suppressed # None /\ ~missed => head = suppressed.content

OnItsWay == ~missed => Recorded \/ events # <<>> \/ paths # <<>> \/ pending # None

IInv == DataOK /\ MarkIsHead /\ OnItsWay

-----------------------------------------------------------------------------
\* An event put into a channel is there.
LEMMA AppendedIsThere ==
    ASSUME NEW S, NEW s \in Seq(S), NEW e \in S
    PROVE  Append(s, e) \in Seq(S) /\ Append(s, e) # <<>>
<1>1. Append(s, e) \in Seq(S) /\ Len(Append(s, e)) = Len(s) + 1 /\ Len(s) \in Nat
  BY AppendProperties, LenProperties
<1>2. Len(<<>>) = 0   OBVIOUS
<1> QED BY <1>1, <1>2

\* Time never removes an entry.
LEMMA WaningKeeps ==
    /\ \A timer \in {None} \union [left : Nat] :
         /\ Waning(timer) \in {None} \union [left : Nat]
         /\ Waning(timer) = None <=> timer = None
    /\ \A timer \in {None} \union [content : Contents, left : Nat] :
         /\ Waning(timer) \in {None} \union [content : Contents, left : Nat]
         /\ Waning(timer) = None <=> timer = None
         /\ timer # None => Waning(timer).content = timer.content
<1>1. \A n \in Nat : Less(n) \in Nat   BY DEF Less
<1> QED BY <1>1, NoneAssumption DEF Waning

LEMMA InitHolds == Init => IInv
<1> SUFFICES ASSUME Init PROVE IInv   OBVIOUS
<1>1. missed \in BOOLEAN /\ (~missed => head = file)   BY Zenon DEF Init
<1>2. DataOK   BY <1>1 DEF Init, DataOK
<1>3. suppressed = None   BY DEF Init
<1> QED BY <1>1, <1>2, <1>3 DEF IInv, MarkIsHead, OnItsWay, Recorded

LEMMA WriteStep ==
    ASSUME IInv, NEW c \in Contents \union {Absent}, NEW trigger \in Triggers, Write(c, trigger)
    PROVE  IInv'
<1>1. Append(events, trigger) \in Seq(Triggers) /\ Append(events, trigger) # <<>>
  BY AppendedIsThere DEF IInv, DataOK
<1> QED BY <1>1 DEF IInv, DataOK, MarkIsHead, OnItsWay, Recorded, Write, memory, engine

LEMMA TickStep == ASSUME IInv, Tick PROVE IInv'
BY WaningKeeps DEF IInv, DataOK, MarkIsHead, OnItsWay, Recorded, Tick, worktree, engine

LEMMA HandleEventStep == ASSUME IInv, HandleEvent PROVE IInv'
<1>1. Head(events) \in Triggers /\ Tail(events) \in Seq(Triggers)
  BY DEF IInv, DataOK, HandleEvent
<1>2. Append(paths, Head(events)) \in Seq(Triggers) /\ Append(paths, Head(events)) # <<>>
  BY <1>1, AppendedIsThere DEF IInv, DataOK
<1> QED
  BY <1>1, <1>2 DEF IInv, DataOK, MarkIsHead, OnItsWay, Recorded, HandleEvent, memory, engine

LEMMA RecvStep == ASSUME IInv, Recv PROVE IInv'
<1> USE DEF IInv, DataOK, MarkIsHead, OnItsWay, Recorded, Recv, Retained, worktree, engine
<1>1. CASE RecvPath
  <2>1. Head(paths) \in Triggers /\ Tail(paths) \in Seq(Triggers)
    BY <1>1 DEF RecvPath
  <2>2. Note(Head(paths)) \in [left : Nat]
    BY BoundsAssumption DEF Note
  <2> QED BY <1>1, <2>1, <2>2, NoneAssumption DEF RecvPath
<1>2. CASE RecvTimeout   BY <1>2 DEF RecvTimeout
<1>3. CASE RecvDisconnected   BY <1>3 DEF RecvDisconnected
<1> QED BY <1>1, <1>2, <1>3

LEMMA CommandStep == ASSUME IInv, HandleCommand PROVE IInv'
<1>1. Tail(commands) \in Seq(Contents \union {Checkpoint})
      /\ Head(commands) \in Contents \union {Checkpoint}
  BY DEF IInv, DataOK, HandleCommand
<1>2. "Write" \in Triggers   BY DEF Triggers
<1>3. Append(events, "Write") \in Seq(Triggers)
  BY <1>2, AppendedIsThere DEF IInv, DataOK
<1>4. CASE Head(commands) = Checkpoint
  BY <1>1, <1>4 DEF IInv, DataOK, MarkIsHead, OnItsWay, Recorded, HandleCommand, worktree, engine
<1>5. ASSUME Head(commands) # Checkpoint, DeclineDone(Head(commands)) PROVE IInv'
  <2>1. PICK left \in {Ttl - 1, Ttl} :
          suppressed' = [content |-> Head(commands), left |-> left]
    BY <1>5 DEF DeclineDone
  <2>2. left \in Nat   BY BoundsAssumption
  <2> QED
    BY <1>1, <1>3, <1>5, <2>1, <2>2
    DEF IInv, DataOK, MarkIsHead, OnItsWay, Recorded, HandleCommand, DeclineDone, Restored
<1>6. ASSUME Head(commands) # Checkpoint, DeclineFailed(Head(commands)) PROVE IInv'
  BY <1>1, <1>3, <1>6
  DEF IInv, DataOK, MarkIsHead, OnItsWay, Recorded, HandleCommand, DeclineFailed, Restored,
      worktree
<1> QED BY <1>4, <1>5, <1>6 DEF HandleCommand

LEMMA FlushStep == ASSUME IInv, Flush PROVE IInv'
<1> USE DEF IInv, DataOK, MarkIsHead, OnItsWay, Recorded, Flush, worktree, engine, memory
<1>1. CASE Due /\ RecordChange
  <2>1. missed' \in BOOLEAN /\ (~missed' => ~missed \/ ~Skipped)
    BY <1>1, Zenon DEF RecordChange
  <2>2. DataOK'   BY <1>1, <2>1 DEF RecordChange
  <2>3. CASE Skipped
    BY <1>1, <2>1, <2>2, <2>3 DEF RecordChange, Skipped
  <2>4. CASE ~Skipped
    BY <1>1, <2>1, <2>2, <2>4 DEF RecordChange, NextHead
  <2> QED BY <2>3, <2>4
<1>2. CASE Due /\ (RecordFails \/ ReadFails)   BY <1>2 DEF RecordFails, ReadFails
<1>3. CASE ~Due   BY <1>3
<1> QED BY <1>1, <1>2, <1>3

LEMMA LeaveStep == ASSUME IInv, Leave PROVE IInv'
<1>1. missed' \in BOOLEAN /\ (~missed' => ~missed /\ pending = None)
  BY Zenon DEF Leave
<1>2. suppressed' = None   BY DEF Leave
<1> QED BY <1>1, <1>2 DEF IInv, DataOK, MarkIsHead, OnItsWay, Recorded, Leave, worktree, engine

\* The steps of the handlers and of the end of the watcher only fill the
\* channel of commands.
LEMMA HandlerStep ==
    ASSUME IInv,
           \/ WatcherEnds \/ StopCheckpoint \/ StopStep
           \/ \E c \in Contents : Request(c)
           \/ UNCHANGED vars
    PROVE  IInv'
<1> USE DEF IInv, DataOK, MarkIsHead, OnItsWay, Recorded, worktree, engine, memory
<1>1. \A c \in Contents \union {Checkpoint} :
        Append(commands, c) \in Seq(Contents \union {Checkpoint})
  BY AppendedIsThere
<1>2. CASE WatcherEnds   BY <1>2 DEF WatcherEnds
<1>3. CASE StopCheckpoint   BY <1>1, <1>3 DEF StopCheckpoint
<1>4. CASE StopStep   BY <1>4 DEF StopStep
<1>5. CASE \E c \in Contents : Request(c)   BY <1>1, <1>5 DEF Request
<1>6. CASE UNCHANGED vars   BY <1>6 DEF vars
<1> QED BY <1>2, <1>3, <1>4, <1>5, <1>6

LEMMA Invariance == IInv /\ [Next]_vars => IInv'
<1> SUFFICES ASSUME IInv, [Next]_vars PROVE IInv'   OBVIOUS
<1> QED
  BY WriteStep, TickStep, HandleEventStep, RecvStep, CommandStep, FlushStep, LeaveStep,
     HandlerStep
  DEF Next, Loop

\* Whatever the writers, the undos and their expiring marks, the failures and a
\* stop do: a file without an event on its way is the recorded one, unless the
\* change was missed (snapshot.rs, route_record_event).
THEOREM QuietFileIsRecorded == Spec => []QuietIsRecorded
<1>1. Init => IInv   BY InitHolds
<1>2. IInv /\ [Next]_vars => IInv'   BY Invariance
<1>3. IInv => QuietIsRecorded   BY DEF IInv, OnItsWay, QuietIsRecorded, Quiet
<1> QED BY <1>1, <1>2, <1>3, PTL DEF Spec

\* An undo's own event is only ever skipped when the head is what the file holds
\* (the hash check of route_record_event), unless a change was missed before.
THEOREM SkipIsSound == Spec => [](Skipped /\ ~missed => head = file)
<1>1. Init => IInv   BY InitHolds
<1>2. IInv /\ [Next]_vars => IInv'   BY Invariance
<1>3. IInv => (Skipped /\ ~missed => head = file)   BY DEF IInv, MarkIsHead, Skipped
<1> QED BY <1>1, <1>2, <1>3, PTL DEF Spec
=============================================================================
