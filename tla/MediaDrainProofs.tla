-------------------------- MODULE MediaDrainProofs --------------------------
(***************************************************************************)
(* Proofs about MediaDrain, for every number of events, batch size, handler *)
(* and number of other requests.                                            *)
(*                                                                          *)
(* The argument: the flag draining belongs to the one thread between its    *)
(* pop and its way out.  A thread about to put an event back found no hook; *)
(* whoever has set one since is about to enter, or has entered and left its *)
(* request to try again, and only the drainer itself clears that request.   *)
(* So when the drainer leaves without another round, no hook fits the event *)
(* it leaves in front.                                                      *)
(***************************************************************************)
EXTENDS MediaDrain, SequenceTheorems, TLAPS

Holds(t) == pc[t] \in {"look", "call", "back"}

\* What a thread holds between its pop and its next step is an event.
HeldIsEvent == \A t \in Threads : Holds(t) => held[t] \in Events

TypeInv == TypeOK /\ HeldIsEvent

\* A thread that has found no hook learns of one that was set since.
HandedOver ==
    \A t \in Threads : pc[t] = "back" =>
        held[t].kind \notin hooks \/ retry \/ (\E u \in Threads : pc[u] = "enter")

\* The events out of the queue are the first ones, and the queue goes on from there.
Numbered ==
    /\ \A i \in 1..Len(delivered) : delivered[i] = i
    /\ \A t \in Threads : Holds(t) =>
         /\ held[t].sequence = Len(delivered) + 1
         /\ \A i \in 1..Len(queue) : queue[i].sequence = Len(delivered) + 1 + i
         /\ sequence = Len(delivered) + 1 + Len(queue)
    /\ (\A t \in Threads : ~Holds(t)) =>
         /\ \A i \in 1..Len(queue) : queue[i].sequence = Len(delivered) + i
         /\ sequence = Len(delivered) + Len(queue)

-----------------------------------------------------------------------------
(* Facts about sequences. *)

\* A function on an initial segment is a sequence of that length.
LEMMA FunctionIsSeq ==
    ASSUME NEW S, NEW n \in Nat, NEW f \in [1..n -> S]
    PROVE  f \in Seq(S) /\ Len(f) = n
<1>1. f \in Seq(S)
  BY SeqDef
<1>2. DOMAIN f = 1..n /\ DOMAIN f = 1..Len(f) /\ Len(f) \in Nat
  BY <1>1, LenProperties
<1> QED BY <1>1, <1>2

\* What Dispatch appends: events numbered from the counter on.
LEMMA StampedIsSeq ==
    ASSUME TypeOK, NEW batch \in Batches, sequence + Len(batch) <= MaxEvents
    PROVE  /\ Len(batch) \in Nat \ {0}
           /\ Stamped(batch) \in Seq(Events)
           /\ Len(Stamped(batch)) = Len(batch)
           /\ \A i \in 1..Len(batch) : Stamped(batch)[i].sequence = sequence + i
<1>1. PICK n \in 1..MaxBatch : batch \in [1..n -> Kinds]
  BY DEF Batches
<1>2. n \in Nat \ {0}
  BY <1>1, MediaAssumption
<1>3. batch \in Seq(Kinds) /\ Len(batch) = n
  BY <1>1, <1>2, FunctionIsSeq
<1>4. \A i \in 1..n : [kind |-> batch[i], sequence |-> sequence + i] \in Events
  BY <1>1, <1>2, <1>3, MediaAssumption DEF Events, TypeOK
<1>5. Stamped(batch) \in [1..n -> Events]
  BY <1>3, <1>4 DEF Stamped
<1>6. Stamped(batch) \in Seq(Events) /\ Len(Stamped(batch)) = n
  BY <1>2, <1>5, FunctionIsSeq
<1>7. \A i \in 1..n : Stamped(batch)[i].sequence = sequence + i
  BY <1>3 DEF Stamped
<1> QED BY <1>2, <1>3, <1>6, <1>7

-----------------------------------------------------------------------------
(* Types. *)

\* All but the handler's steps.
LEMMA TypeRest ==
    ASSUME Init, todo \in Seq({"read", "write", "media", "action", "release"})
    PROVE  TypeInv
<1>1. <<>> \in Seq(Events) /\ <<>> \in Seq(1..MaxEvents)
  BY EmptySeq
<1>2. 0 \in 0..MaxEvents /\ 0 \in 0..MaxOthers
  BY MediaAssumption
<1>3. HeldIsEvent
  BY DEF Init, HeldIsEvent, Holds
<1>4. held \in [Threads -> Events \union {Nothing}]
  BY DEF Init
<1> QED BY <1>1, <1>2, <1>3, <1>4 DEF Init, TypeInv, TypeOK, Kinds

LEMMA TypeInit == Init => TypeInv
<1> SUFFICES ASSUME Init PROVE TypeInv
  OBVIOUS
<1>1. handler \in {"recover", "spawn", "split"}
  BY MediaAssumption DEF Init
<1>2. CASE handler = "recover"
  <2>1. todo = <<"read", "release", "media", "action">>
    BY <1>2 DEF Init, Steps
  <2> QED BY <2>1, TypeRest
<1>3. CASE handler = "spawn"
  <2>1. todo = <<"read", "media", "action", "release">>
    BY <1>3 DEF Init, Steps
  <2> QED BY <2>1, TypeRest
<1>4. CASE handler = "split"
  <2>1. todo = <<"write", "media", "action", "release">>
    BY <1>4 DEF Init, Steps
  <2> QED BY <2>1, TypeRest
<1> QED BY <1>1, <1>2, <1>3, <1>4

\* A step of the drain keeps the types.
LEMMA TypeDrain ==
    ASSUME TypeInv, NEW t \in Threads, Drain(t)
    PROVE  TypeInv'
<1> USE DEF TypeInv, TypeOK, HeldIsEvent, Holds, Goto, pending, lock, job
<1>1. CASE Enter(t)
  BY <1>1 DEF Enter
<1>2. CASE PopEmpty(t)
  BY <1>2 DEF PopEmpty
<1>3. CASE Pop(t)
  <2>1. Head(queue) \in Events /\ Tail(queue) \in Seq(Events)
    BY <1>3, HeadTailProperties DEF Pop
  <2> QED BY <1>3, <2>1 DEF Pop
<1>4. CASE Look(t)
  BY <1>4 DEF Look
<1>5. CASE Call(t)
  <2>1. held[t].sequence \in 1..MaxEvents
    BY <1>5 DEF Call, Events
  <2>2. delivered' \in Seq(1..MaxEvents)
    BY <1>5, <2>1 DEF Call
  <2> QED BY <1>5, <2>2 DEF Call
<1>6. CASE PushFront(t)
  <2>1. <<held[t]>> \in Seq(Events)
    BY <1>6 DEF PushFront
  <2>2. queue' \in Seq(Events)
    BY <1>6, <2>1, ConcatProperties DEF PushFront
  <2> QED BY <1>6, <2>2 DEF PushFront
<1> QED BY <1>1, <1>2, <1>3, <1>4, <1>5, <1>6 DEF Drain

LEMMA TypeStep == TypeInv /\ [Next]_vars => TypeInv'
<1> SUFFICES ASSUME TypeInv, [Next]_vars PROVE TypeInv'
  OBVIOUS
<1> USE DEF TypeInv, TypeOK, HeldIsEvent, Holds, Goto, pending, lock, job
<1>1. ASSUME NEW t \in Threads, Drain(t) PROVE TypeInv'
  BY <1>1, TypeDrain
<1>2. ASSUME NEW batch \in Batches, Dispatch(batch) PROVE TypeInv'
  <2>1. Stamped(batch) \in Seq(Events) /\ Len(batch) \in Nat
    BY <1>2, StampedIsSeq DEF Dispatch
  <2>2. queue' \in Seq(Events)
    BY <1>2, <2>1, ConcatProperties DEF Dispatch
  <2>3. sequence' \in 0..MaxEvents
    BY <1>2, <2>1, MediaAssumption DEF Dispatch
  <2> QED BY <1>2, <2>2, <2>3 DEF Dispatch, Threads
<1>3. ASSUME NEW kind \in Kinds, SetHook(kind) PROVE TypeInv'
  <2>1. todo' \in Seq({"read", "write", "media", "action", "release"})
    BY <1>3, HeadTailProperties DEF SetHook, HandlerAt
  <2> QED BY <1>3, <2>1 DEF SetHook, Threads
<1>4. ASSUME NEW mode \in {"read", "write"}, LockSessions(mode) PROVE TypeInv'
  <2>1. todo' \in Seq({"read", "write", "media", "action", "release"})
    BY <1>4, HeadTailProperties DEF LockSessions, HandlerAt
  <2> QED BY <1>4, <2>1 DEF LockSessions
<1>5. CASE UnlockSessions
  <2>1. todo' \in Seq({"read", "write", "media", "action", "release"})
    BY <1>5, HeadTailProperties DEF UnlockSessions, HandlerAt
  <2> QED BY <1>5, <2>1 DEF UnlockSessions
<1>6. CASE OtherWaits
  BY <1>6, MediaAssumption DEF OtherWaits
<1>7. CASE OtherGoesOn
  BY <1>7 DEF OtherGoesOn
<1>8. CASE UNCHANGED vars
  BY <1>8 DEF vars
<1> QED BY <1>1, <1>2, <1>3, <1>4, <1>5, <1>6, <1>7, <1>8 DEF Next, Handle

\* Every variable keeps its type: the numbers stay within the bounds, and what
\* is queued or held are events.
THEOREM TypeCorrect == Spec => []TypeOK
<1>1. TypeInv => TypeOK
  BY DEF TypeInv
<1> QED BY <1>1, TypeInit, TypeStep, PTL DEF Spec

-----------------------------------------------------------------------------
(* One drainer. *)

LEMMA OneDrainerInit == Init => OneDrainer
BY DEF Init, OneDrainer, Inside, Threads

LEMMA OneDrainerStep == TypeInv /\ OneDrainer /\ [Next]_vars => OneDrainer'
<1> SUFFICES ASSUME TypeInv, OneDrainer, [Next]_vars PROVE OneDrainer'
  OBVIOUS
<1> USE DEF TypeInv, TypeOK, OneDrainer, Inside, Threads, Goto, pending, lock, job
<1>1. ASSUME NEW t \in Threads, Drain(t) PROVE OneDrainer'
  <2>1. CASE Enter(t)
    BY <1>1, <2>1 DEF Enter
  <2>2. CASE PopEmpty(t)
    BY <1>1, <2>2 DEF PopEmpty
  <2>3. CASE Pop(t)
    BY <1>1, <2>3 DEF Pop
  <2>4. CASE Look(t)
    BY <1>1, <2>4 DEF Look
  <2>5. CASE Call(t)
    BY <1>1, <2>5 DEF Call
  <2>6. CASE PushFront(t)
    BY <1>1, <2>6 DEF PushFront
  <2> QED BY <1>1, <2>1, <2>2, <2>3, <2>4, <2>5, <2>6 DEF Drain
<1>2. ASSUME NEW batch \in Batches, Dispatch(batch) PROVE OneDrainer'
  BY <1>2 DEF Dispatch
<1>3. ASSUME NEW kind \in Kinds, SetHook(kind) PROVE OneDrainer'
  BY <1>3 DEF SetHook, HandlerAt
<1>4. ASSUME NEW mode \in {"read", "write"}, LockSessions(mode) PROVE OneDrainer'
  BY <1>4 DEF LockSessions
<1>5. CASE UnlockSessions
  BY <1>5 DEF UnlockSessions
<1>6. CASE OtherWaits \/ OtherGoesOn
  BY <1>6 DEF OtherWaits, OtherGoesOn
<1>7. CASE UNCHANGED vars
  BY <1>7 DEF vars
<1> QED BY <1>1, <1>2, <1>3, <1>4, <1>5, <1>6, <1>7 DEF Next, Handle

\* The flag draining is set exactly while one thread, and no more than one, is
\* between its pop and its way out.
THEOREM DrainerIsUnique == Spec => []OneDrainer
<1> QED BY TypeInit, TypeStep, OneDrainerInit, OneDrainerStep, PTL DEF Spec

-----------------------------------------------------------------------------
(* The hand-over. *)

StrandInv == TypeInv /\ OneDrainer /\ HandedOver /\ NoneStranded

LEMMA StrandInit == Init => StrandInv
<1> SUFFICES ASSUME Init PROVE StrandInv
  OBVIOUS
<1>1. HandedOver /\ NoneStranded
  BY DEF Init, HandedOver, NoneStranded
<1> QED BY <1>1, TypeInit, OneDrainerInit DEF StrandInv

LEMMA StrandStep == StrandInv /\ [Next]_vars => StrandInv'
<1> SUFFICES ASSUME StrandInv, [Next]_vars PROVE HandedOver' /\ NoneStranded'
  BY TypeStep, OneDrainerStep DEF StrandInv
<1> USE DEF StrandInv, TypeInv, TypeOK, OneDrainer, Inside, HandedOver, NoneStranded,
            Threads, Goto, pending, lock, job
<1>1. ASSUME NEW t \in Threads, Drain(t) PROVE HandedOver' /\ NoneStranded'
  <2>1. CASE Enter(t)
    BY <1>1, <2>1 DEF Enter
  <2>2. CASE PopEmpty(t)
    BY <1>1, <2>2 DEF PopEmpty
  <2>3. CASE Pop(t)
    BY <1>1, <2>3 DEF Pop
  <2>4. CASE Look(t)
    BY <1>1, <2>4 DEF Look
  <2>5. CASE Call(t)
    BY <1>1, <2>5 DEF Call
  <2>6. CASE PushFront(t)
    <3>1. HandedOver'
      BY <1>1, <2>6 DEF PushFront
    <3>2. Head(queue') = held[t]
      <4>1. held[t] \in Events
        BY <1>1, <2>6 DEF PushFront, HeldIsEvent, Holds
      <4> QED BY <2>6, <4>1 DEF PushFront
    <3>3. NoneStranded'
      BY <1>1, <2>6, <3>2 DEF PushFront
    <3> QED BY <3>1, <3>3
  <2> QED BY <1>1, <2>1, <2>2, <2>3, <2>4, <2>5, <2>6 DEF Drain
<1>2. ASSUME NEW batch \in Batches, Dispatch(batch) PROVE HandedOver' /\ NoneStranded'
  BY <1>2 DEF Dispatch
<1>3. ASSUME NEW kind \in Kinds, SetHook(kind) PROVE HandedOver' /\ NoneStranded'
  BY <1>3 DEF SetHook, HandlerAt
<1>4. ASSUME NEW mode \in {"read", "write"}, LockSessions(mode)
      PROVE  HandedOver' /\ NoneStranded'
  BY <1>4 DEF LockSessions
<1>5. CASE UnlockSessions
  BY <1>5 DEF UnlockSessions
<1>6. CASE OtherWaits \/ OtherGoesOn
  BY <1>6 DEF OtherWaits, OtherGoesOn
<1>7. CASE UNCHANGED vars
  BY <1>7 DEF vars
<1> QED BY <1>1, <1>2, <1>3, <1>4, <1>5, <1>6, <1>7 DEF Next, Handle

\* However a registration races the end of a drain, an event whose hook is set
\* is never left in front of the queue with nobody to take it.
THEOREM NoEventIsStranded == Spec => []NoneStranded
<1>1. StrandInv => NoneStranded
  BY DEF StrandInv
<1> QED BY <1>1, StrandInit, StrandStep, PTL DEF Spec

-----------------------------------------------------------------------------
(* Order. *)

SeqInv == TypeInv /\ OneDrainer /\ Numbered

LEMMA SeqInit == Init => SeqInv
<1> SUFFICES ASSUME Init PROVE SeqInv
  OBVIOUS
<1>1. Len(queue) = 0 /\ Len(delivered) = 0
  BY EmptySeq DEF Init
<1>2. Numbered
  BY <1>1 DEF Init, Numbered, Holds, Threads
<1> QED BY <1>2, TypeInit, OneDrainerInit DEF SeqInv

\* A step of the drain moves an event along without losing its place.
LEMMA SeqDrain ==
    ASSUME SeqInv, NEW t \in Threads, Drain(t)
    PROVE  Numbered'
<1> USE DEF SeqInv, TypeInv, TypeOK, Holds, Threads, Goto, pending, lock, job
<1>0. /\ Len(queue) \in Nat /\ Len(delivered) \in Nat
      /\ \A u \in Threads : u # t /\ Inside(t) => ~Holds(u)
  BY LenProperties DEF OneDrainer, Inside
<1>1. CASE Enter(t)
  BY <1>1 DEF Enter, Numbered
<1>2. CASE PopEmpty(t)
  BY <1>2 DEF PopEmpty, Numbered
<1>3. CASE Pop(t)
  <2>1. /\ Head(queue) = queue[1] /\ Len(queue) >= 1
        /\ Len(queue') = Len(queue) - 1
        /\ \A i \in 1..Len(queue') : queue'[i] = queue[i + 1]
    BY <1>0, <1>3, HeadTailProperties, EmptySeq DEF Pop
  <2>2. /\ \A i \in 1..Len(queue) : queue[i].sequence = Len(delivered) + i
        /\ sequence = Len(delivered) + Len(queue)
    BY <1>0, <1>3 DEF Pop, Numbered, Inside
  <2>3. /\ held'[t].sequence = Len(delivered) + 1
        /\ \A i \in 1..Len(queue') : queue'[i].sequence = Len(delivered) + 1 + i
        /\ sequence = Len(delivered) + 1 + Len(queue')
    BY <1>0, <1>3, <2>1, <2>2 DEF Pop
  <2>4. Holds(t)' /\ \A u \in Threads : u # t => ~Holds(u)'
    BY <1>0, <1>3 DEF Pop, Inside
  <2> QED BY <1>3, <2>3, <2>4 DEF Pop, Numbered
<1>4. CASE Look(t)
  BY <1>0, <1>4 DEF Look, Numbered
<1>5. CASE Call(t)
  <2>1. /\ held[t].sequence = Len(delivered) + 1
        /\ \A i \in 1..Len(queue) : queue[i].sequence = Len(delivered) + 1 + i
        /\ sequence = Len(delivered) + 1 + Len(queue)
    BY <1>5 DEF Call, Numbered
  <2>2. held[t].sequence \in 1..MaxEvents
    BY <1>5 DEF Call, HeldIsEvent, Events
  <2>3. /\ Len(delivered') = Len(delivered) + 1
        /\ \A i \in 1..Len(delivered) : delivered'[i] = delivered[i]
        /\ delivered'[Len(delivered) + 1] = held[t].sequence
    BY <1>0, <1>5, <2>2 DEF Call
  <2>4. \A i \in 1..Len(delivered') : delivered'[i] = i
    BY <1>0, <2>1, <2>3 DEF Numbered
  <2>5. \A u \in Threads : ~Holds(u)'
    BY <1>0, <1>5 DEF Call, Inside
  <2> QED BY <1>0, <1>5, <2>1, <2>3, <2>4, <2>5 DEF Call, Numbered
<1>6. CASE PushFront(t)
  <2>1. /\ held[t].sequence = Len(delivered) + 1
        /\ \A i \in 1..Len(queue) : queue[i].sequence = Len(delivered) + 1 + i
        /\ sequence = Len(delivered) + 1 + Len(queue)
    BY <1>6 DEF PushFront, Numbered
  <2>2. held[t] \in Events
    BY <1>6 DEF PushFront, HeldIsEvent
  <2>3. <<held[t]>> \in Seq(Events) /\ Len(<<held[t]>>) = 1 /\ <<held[t]>>[1] = held[t]
    BY <2>2
  <2>4. /\ Len(queue') = Len(queue) + 1
        /\ \A i \in 1..Len(queue') :
             queue'[i] = IF i <= 1 THEN <<held[t]>>[i] ELSE queue[i - 1]
    BY <1>0, <1>6, <2>3, ConcatProperties DEF PushFront
  <2>5. \A i \in 1..Len(queue') : queue'[i].sequence = Len(delivered) + i
    <3> SUFFICES ASSUME NEW i \in 1..Len(queue')
                 PROVE  queue'[i].sequence = Len(delivered) + i
      OBVIOUS
    <3>1. CASE i = 1
      BY <2>1, <2>3, <2>4, <3>1
    <3>2. CASE i # 1
      <4>1. i - 1 \in 1..Len(queue) /\ queue'[i] = queue[i - 1]
        BY <1>0, <2>4, <3>2
      <4> QED BY <1>0, <2>1, <4>1
    <3> QED BY <3>1, <3>2
  <2>6. \A u \in Threads : ~Holds(u)'
    BY <1>0, <1>6 DEF PushFront, Inside
  <2> QED BY <1>0, <1>6, <2>1, <2>4, <2>5, <2>6 DEF PushFront, Numbered
<1> QED BY <1>1, <1>2, <1>3, <1>4, <1>5, <1>6 DEF Drain

LEMMA SeqStep == SeqInv /\ [Next]_vars => SeqInv'
<1> SUFFICES ASSUME SeqInv, [Next]_vars PROVE Numbered'
  BY TypeStep, OneDrainerStep DEF SeqInv
<1>1. ASSUME NEW t \in Threads, Drain(t) PROVE Numbered'
  BY <1>1, SeqDrain
<1>2. ASSUME NEW batch \in Batches, Dispatch(batch) PROVE Numbered'
  <2> DEFINE new == Stamped(batch)
  <2>1. /\ Len(batch) \in Nat \ {0} /\ new \in Seq(Events) /\ Len(new) = Len(batch)
        /\ \A i \in 1..Len(batch) : new[i].sequence = sequence + i
    BY <1>2, StampedIsSeq DEF Dispatch, SeqInv, TypeInv
  <2>2. queue \in Seq(Events) /\ Len(queue) \in Nat /\ Len(delivered) \in Nat
    BY LenProperties DEF SeqInv, TypeInv, TypeOK
  <2>3. /\ Len(queue') = Len(queue) + Len(batch)
        /\ \A i \in 1..Len(queue') :
             queue'[i] = IF i <= Len(queue) THEN queue[i] ELSE new[i - Len(queue)]
    <3>1. queue' = queue \o new
      BY <1>2 DEF Dispatch
    <3> HIDE DEF new
    <3>2. /\ Len(queue \o new) = Len(queue) + Len(new)
          /\ \A i \in 1..Len(queue) + Len(new) :
               (queue \o new)[i] = IF i <= Len(queue) THEN queue[i] ELSE new[i - Len(queue)]
      BY <2>1, <2>2, ConcatProperties
    <3> QED BY <2>1, <3>1, <3>2
  <2>4. ASSUME NEW base \in Nat,
               \A i \in 1..Len(queue) : queue[i].sequence = base + i,
               sequence = base + Len(queue)
        PROVE  /\ \A i \in 1..Len(queue') : queue'[i].sequence = base + i
               /\ sequence' = base + Len(queue')
    <3>1. sequence' = base + Len(queue')
      BY <1>2, <2>1, <2>2, <2>3, <2>4 DEF Dispatch
    <3>2. ASSUME NEW i \in 1..Len(queue'), i <= Len(queue)
          PROVE  queue'[i].sequence = base + i
      BY <2>2, <2>3, <2>4, <3>2
    <3>3. ASSUME NEW i \in 1..Len(queue'), ~(i <= Len(queue))
          PROVE  queue'[i].sequence = base + i
      <4>1. i - Len(queue) \in 1..Len(batch) /\ queue'[i] = new[i - Len(queue)]
        BY <2>1, <2>2, <2>3, <3>3
      <4>2. queue'[i].sequence = sequence + (i - Len(queue))
        BY <2>1, <4>1
      <4> QED BY <2>2, <2>4, <4>1, <4>2
    <3> QED BY <3>1, <3>2, <3>3
  <2>5. UNCHANGED <<held, delivered>> /\ \A t \in Threads : Holds(t)' = Holds(t)
    BY <1>2 DEF Dispatch, Goto, Holds, Threads, SeqInv, TypeInv, TypeOK
  <2>6. CASE \E t \in Threads : Holds(t)
    <3>1. /\ \A i \in 1..Len(queue) : queue[i].sequence = (Len(delivered) + 1) + i
          /\ sequence = (Len(delivered) + 1) + Len(queue)
      BY <2>6 DEF SeqInv, Numbered
    <3>2. Len(delivered) + 1 \in Nat
      BY <2>2
    <3>3. /\ \A i \in 1..Len(queue') : queue'[i].sequence = (Len(delivered) + 1) + i
          /\ sequence' = (Len(delivered) + 1) + Len(queue')
      BY <2>4, <3>1, <3>2
    <3> QED BY <2>5, <2>6, <3>3 DEF SeqInv, Numbered
  <2>7. CASE \A t \in Threads : ~Holds(t)
    BY <2>2, <2>4, <2>5, <2>7 DEF SeqInv, Numbered
  <2> QED BY <2>6, <2>7
<1>3. ASSUME NEW kind \in Kinds, SetHook(kind) PROVE Numbered'
  BY <1>3 DEF SetHook, HandlerAt, Goto, pending, lock, SeqInv, TypeInv, TypeOK, Numbered,
              Holds, Threads
<1>4. ASSUME NEW mode \in {"read", "write"}, LockSessions(mode) PROVE Numbered'
  BY <1>4 DEF LockSessions, pending, SeqInv, Numbered, Holds
<1>5. CASE UnlockSessions
  BY <1>5 DEF UnlockSessions, pending, SeqInv, Numbered, Holds
<1>6. CASE OtherWaits \/ OtherGoesOn
  BY <1>6 DEF OtherWaits, OtherGoesOn, pending, SeqInv, Numbered, Holds
<1>7. CASE UNCHANGED vars
  BY <1>7 DEF vars, SeqInv, Numbered, Holds
<1> QED BY <1>1, <1>2, <1>3, <1>4, <1>5, <1>6, <1>7 DEF Next, Handle

\* Whoever drains, and however often an event goes back to the front, events
\* reach the hooks in the order of their numbers, each once and none left out.
THEOREM DeliveredInSequence == Spec => []InSequence
<1>1. SeqInv => InSequence
  BY DEF SeqInv, Numbered, InSequence
<1> QED BY <1>1, SeqInit, SeqStep, PTL DEF Spec
=============================================================================
