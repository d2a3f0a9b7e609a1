-------------------------- MODULE DirtyLatchProofs --------------------------
(***************************************************************************)
(* Proofs about DirtyLatch, for any subscribers, threads, panes, queue      *)
(* capacity and numbers of notifications.                                   *)
(*                                                                          *)
(* The argument for the order: a thread has each subscriber at most once in *)
(* the copy of the list it works through, and has put before those still in *)
(* it nothing as new as what it fans out now.  That the copy has nobody     *)
(* twice comes from pruning, which keeps records and their order; it is the *)
(* one fact here that takes an induction over data.                         *)
(***************************************************************************)
EXTENDS DirtyLatch, SequenceTheorems, WellFoundedInduction, TLAPS

NoneTwice(ss) == \A i, j \in 1..Len(ss) : ss[i] = ss[j] => i = j

\* Every member of the list has subscribed.
AllKnown(ss) == \A i \in 1..Len(ss) : state[ss[i]] # "absent"

TypeInv ==
    /\ subs \in Seq(Subs)
    /\ todo \in [Routers -> Seq(Subs)]
    /\ state \in [Subs -> {"absent", "open", "closed"}]
    /\ queue \in [Subs -> Seq(Note)]
    /\ latch \in [Subs -> SUBSET Panes]
    /\ note \in [Routers -> Note]
    /\ refused \in [Routers -> BOOLEAN]
    /\ count \in [Routers -> 0..MaxNotes]
    /\ offered \in [Subs -> [Routers -> 0..MaxNotes]]
    /\ got \in [Subs -> [Routers -> 0..MaxNotes]]
    /\ news \in [Subs -> SUBSET Panes]

\* The list and the threads' copies of it.
ListInv ==
    /\ NoneTwice(subs) /\ AllKnown(subs)
    /\ \A r \in Routers : NoneTwice(todo[r]) /\ AllKnown(todo[r])

\* Before it subscribes nothing reaches a subscriber.
AbsentInv ==
    \A s \in Subs : state[s] = "absent" =>
        queue[s] = <<>> /\ news[s] = {} /\ offered[s] = got[s]

\* A thread between a refused try_send and the latch.
RefusedInv ==
    \A r \in Routers : refused[r] => todo[r] # <<>> /\ note[r].kind = "dirty"

\* What a thread fans out is newer than what it has put before those it has
\* yet to reach.
NewerInv ==
    \A r \in Routers :
        /\ note[r].kind = "reliable" => note[r].from = r /\ note[r].id = count[r]
        /\ \A s \in Subs : offered[s][r] <= count[r]
        /\ note[r].kind = "reliable" =>
             \A i \in 1..Len(todo[r]) : offered[todo[r][i]][r] < count[r]

IInv == /\ TypeInv /\ ListInv /\ AbsentInv /\ RefusedInv /\ NewerInv
        /\ DirtyIsKept /\ ReliableInOrder

-----------------------------------------------------------------------------
(* Pruning. *)

\* One line of the definition of Retained.
Line(f, n) ==
    IF n = 0 THEN <<>>
    ELSE IF Open(subs[n]) THEN Append(f[n - 1], subs[n]) ELSE f[n - 1]

IsPruning(f, n) == f = [m \in 0..n |-> Line(f, m)]

\* A set of natural numbers that is not empty has a least one.
LEMMA LeastNumber ==
    ASSUME NEW T, T \subseteq Nat, T # {}
    PROVE  \E n \in T : \A m \in T : n <= m
<1>1. PICK n \in T : \A m \in T : ~(<<m, n>> \in OpToRel(<, Nat))
  BY WFMin, NatLessThanWellFounded
<1>2. \A m \in T : ~(m < n)   BY <1>1 DEF OpToRel
<1> QED BY <1>2

LEMMA PruningExists == \A n \in Nat : \E f : IsPruning(f, n)
<1> DEFINE T == {n \in Nat : \A f : ~IsPruning(f, n)}
<1> SUFFICES ASSUME T # {} PROVE FALSE   OBVIOUS
<1>1. PICK n \in T : \A m \in T : n <= m   BY LeastNumber
<1>2. n # 0
  <2> SUFFICES ASSUME n = 0 PROVE FALSE   OBVIOUS
  <2> DEFINE g == [m \in 0..0 |-> <<>>]
  <2>1. g = [m \in 0..0 |-> Line(g, m)]   BY DEF Line
  <2> QED BY <2>1 DEF IsPruning
<1>3. n - 1 \in Nat /\ n - 1 \notin T   BY <1>1, <1>2
<1>4. PICK f : IsPruning(f, n - 1)   BY <1>3
<1> DEFINE g == [m \in 0..n |-> IF m = n THEN Line(f, n) ELSE f[m]]
<1>5. \A m \in 0..n : g[m] = Line(g, m)
  <2> SUFFICES ASSUME NEW m \in 0..n PROVE g[m] = Line(g, m)   OBVIOUS
  <2>1. \A k \in 0..(n - 1) : g[k] = f[k]   BY <1>3
  <2>2. CASE m = n   BY <1>2, <1>3, <2>1, <2>2 DEF Line
  <2>3. CASE m # n
    <3>1. m \in 0..(n - 1) /\ f[m] = Line(f, m)   BY <1>4, <2>3, <1>3 DEF IsPruning
    <3>2. m # 0 => m - 1 \in 0..(n - 1)   BY <3>1
    <3> QED BY <2>1, <3>1, <3>2 DEF Line
  <2> QED BY <2>2, <2>3
<1>6. IsPruning(g, n)   BY <1>5 DEF IsPruning
<1> QED BY <1>6

\* What pruning leaves: open records of the list, none of them twice.
LEMMA PruningKeeps ==
    ASSUME subs \in Seq(Subs), NoneTwice(subs)
    PROVE  /\ Retained \in Seq(Subs)
           /\ NoneTwice(Retained)
           /\ \A i \in 1..Len(Retained) : Open(Retained[i])
<1>0. Len(subs) \in Nat   OBVIOUS
<1>1. PICK f : IsPruning(f, Len(subs)) /\ Retained = f[Len(subs)]
  <2> DEFINE P(f) == f = [n \in 0..Len(subs) |->
                           IF n = 0 THEN <<>>
                           ELSE IF Open(subs[n]) THEN Append(f[n - 1], subs[n]) ELSE f[n - 1]]
  <2>1. \E f : P(f)   BY <1>0, PruningExists DEF IsPruning, Line
  <2>2. P(CHOOSE f : P(f))   BY <2>1
  <2>3. Retained = (CHOOSE f : P(f))[Len(subs)]   BY DEF Retained
  <2> QED BY <2>2, <2>3 DEF IsPruning, Line
<1> DEFINE Good(n) ==
             /\ f[n] \in Seq(Subs)
             /\ \A i \in 1..Len(f[n]) :
                  Open(f[n][i]) /\ \E j \in 1..n : f[n][i] = subs[j]
             /\ NoneTwice(f[n])
           T == {n \in 0..Len(subs) : ~Good(n)}
<1>2. \A n \in 0..Len(subs) : f[n] = Line(f, n)   BY <1>1 DEF IsPruning
<1>3. T = {}
  <2> SUFFICES ASSUME T # {} PROVE FALSE   OBVIOUS
  <2>1. PICK n \in T : \A m \in T : n <= m
    <3>1. T \subseteq Nat   BY <1>0
    <3> HIDE DEF T
    <3> QED BY <3>1, LeastNumber
  <2>2. n \in 0..Len(subs) /\ ~Good(n)   OBVIOUS
  <2>3. CASE n = 0
    <3>1. f[n] = <<>>   BY <1>2, <2>2, <2>3 DEF Line
    <3> QED BY <2>2, <3>1 DEF NoneTwice
  <2>4. CASE n # 0
    <3>1. n - 1 \in 0..Len(subs) /\ Good(n - 1)
      <4> HIDE DEF Good
      <4> QED BY <1>0, <2>1, <2>2, <2>4
    <3>2. subs[n] \in Subs   BY <2>2, <2>4
    <3>3. CASE ~Open(subs[n])
      <4>1. f[n] = f[n - 1]   BY <1>2, <2>2, <2>4, <3>3 DEF Line
      <4>2. \A j \in 1..(n - 1) : j \in 1..n   BY <2>2
      <4> QED BY <2>2, <3>1, <4>1, <4>2
    <3>4. CASE Open(subs[n])
      <4> DEFINE g == f[n - 1]
      <4>1. f[n] = Append(g, subs[n])   BY <1>2, <2>2, <2>4, <3>4 DEF Line
      <4>2. g \in Seq(Subs) /\ Len(g) \in Nat   BY <3>1
      <4> HIDE DEF g
      <4>3. /\ f[n] \in Seq(Subs) /\ Len(f[n]) = Len(g) + 1
            /\ \A i \in 1..Len(g) : f[n][i] = g[i]
            /\ f[n][Len(g) + 1] = subs[n]
        BY <3>2, <4>1, <4>2
      <4>4. \A i \in 1..Len(g) : Open(g[i]) /\ \E j \in 1..(n - 1) : g[i] = subs[j]
        BY <3>1 DEF g
      <4>5. \A i \in 1..Len(g) : g[i] # subs[n]
        BY <2>2, <4>4 DEF NoneTwice
      <4>6. NoneTwice(g)   BY <3>1 DEF g
      <4>7. NoneTwice(f[n])
        <5> SUFFICES ASSUME NEW i \in 1..Len(f[n]), NEW j \in 1..Len(f[n]), f[n][i] = f[n][j]
                     PROVE  i = j
          BY DEF NoneTwice
        <5>1. i \in 1..Len(g) \/ i = Len(g) + 1   BY <4>2, <4>3
        <5>2. j \in 1..Len(g) \/ j = Len(g) + 1   BY <4>2, <4>3
        <5> QED BY <4>3, <4>5, <4>6, <5>1, <5>2 DEF NoneTwice
      <4>8. \A i \in 1..Len(f[n]) : Open(f[n][i]) /\ \E j \in 1..n : f[n][i] = subs[j]
        <5> SUFFICES ASSUME NEW i \in 1..Len(f[n])
                     PROVE  Open(f[n][i]) /\ \E j \in 1..n : f[n][i] = subs[j]
          OBVIOUS
        <5>1. CASE i \in 1..Len(g)   BY <2>2, <4>3, <4>4, <5>1
        <5>2. CASE i = Len(g) + 1   BY <2>2, <2>4, <3>4, <4>3, <5>2
        <5> QED BY <4>2, <4>3, <5>1, <5>2
      <4> QED BY <2>2, <4>3, <4>7, <4>8
    <3> QED BY <3>3, <3>4
  <2> QED BY <2>3, <2>4
<1>4. Good(Len(subs))   
  <2> HIDE DEF Good
  <2> QED BY <1>0, <1>3
<1> QED BY <1>1, <1>4

-----------------------------------------------------------------------------
(* Notifications and queues. *)

LEMMA NoteKinds ==
    /\ \A n \in Note : n.kind \in {"reliable", "dirty", "output"}
    /\ \A n \in Note : n.kind = "reliable" => n.from \in Routers /\ n.id \in 1..MaxNotes
    /\ \A n \in Note : n.kind = "dirty" => n.pane \in Panes /\ n = Dirty(n.pane)
    /\ \A p \in Panes : Dirty(p) \in Note /\ Dirty(p).kind = "dirty" /\ Dirty(p).pane = p
    /\ Output \in Note /\ Output.kind = "output"
    /\ \A r \in Routers, n \in 1..MaxNotes :
         Reliable(r, n) \in Note /\ Reliable(r, n).kind = "reliable"
         /\ Reliable(r, n).from = r /\ Reliable(r, n).id = n
BY DEF Note, Dirty, Output, Reliable

LEMMA Appended ==
    ASSUME NEW S, NEW q \in Seq(S), NEW e \in S
    PROVE  /\ Append(q, e) \in Seq(S) /\ Len(q) \in Nat
           /\ Len(Append(q, e)) = Len(q) + 1
           /\ \A i \in 1..Len(q) : Append(q, e)[i] = q[i]
           /\ Append(q, e)[Len(q) + 1] = e
OBVIOUS

LEMMA Shifted ==
    ASSUME NEW S, NEW q \in Seq(S), q # <<>>
    PROVE  /\ Head(q) = q[1] /\ Head(q) \in S
           /\ Tail(q) \in Seq(S) /\ Len(q) \in Nat \ {0} /\ Len(Tail(q)) = Len(q) - 1
           /\ \A i \in 1..Len(Tail(q)) : Tail(q)[i] = q[i + 1]
           /\ \A i \in 1..Len(q) : i = 1 \/ i - 1 \in 1..Len(Tail(q))
OBVIOUS

LEMMA ShiftedList ==
    ASSUME TypeInv, NEW r \in Routers, todo[r] # <<>>, NoneTwice(todo[r]), AllKnown(todo[r])
    PROVE  /\ NoneTwice(Tail(todo[r])) /\ AllKnown(Tail(todo[r]))
           /\ Head(todo[r]) \in Subs /\ state[Head(todo[r])] # "absent"
           /\ \A i \in 1..Len(Tail(todo[r])) : Tail(todo[r])[i] # Head(todo[r])
<1>1. /\ Head(todo[r]) = todo[r][1] /\ Head(todo[r]) \in Subs
      /\ Len(todo[r]) \in Nat \ {0} /\ Len(Tail(todo[r])) = Len(todo[r]) - 1
      /\ \A i \in 1..Len(Tail(todo[r])) : Tail(todo[r])[i] = todo[r][i + 1]
  BY Shifted DEF TypeInv
<1> QED BY <1>1 DEF NoneTwice, AllKnown

-----------------------------------------------------------------------------
(* The steps. *)

LEMMA InitHolds == Init => IInv
<1> SUFFICES ASSUME Init PROVE IInv   OBVIOUS
<1>1. TypeInv   BY NoteKinds, MaxNotesAssumption DEF Init, TypeInv
<1>2. ListInv /\ AbsentInv /\ RefusedInv
  BY DEF Init, ListInv, AbsentInv, RefusedInv, NoneTwice, AllKnown
<1>3. NewerInv   BY NoteKinds DEF Init, NewerInv
<1>4. DirtyIsKept /\ ReliableInOrder   BY DEF Init, DirtyIsKept, ReliableInOrder, Open
<1> QED BY <1>1, <1>2, <1>3, <1>4 DEF IInv

LEMMA StutterStep == ASSUME IInv, UNCHANGED vars PROVE IInv'
<1>1. UNCHANGED <<subs, state, queue, latch, todo, note, refused, count, offered, got, news>>
  BY DEF vars, router
<1>2. TypeInv' /\ ListInv'   BY <1>1 DEF IInv, TypeInv, ListInv, NoneTwice, AllKnown
<1>3. AbsentInv' /\ RefusedInv' /\ NewerInv'
  BY <1>1 DEF IInv, AbsentInv, RefusedInv, NewerInv
<1>4. DirtyIsKept' /\ ReliableInOrder'
  BY <1>1 DEF IInv, DirtyIsKept, ReliableInOrder, Waiting, Open
<1> QED BY <1>2, <1>3, <1>4 DEF IInv

\* A subscriber that comes brings nothing; one that goes is asked for nothing.
LEMMA SubscribeStep == ASSUME IInv, NEW s \in Subs, Subscribe(s) PROVE IInv'
<1>1. /\ state[s] = "absent" /\ state' = [state EXCEPT ![s] = "open"]
      /\ subs' = Append(subs, s)
      /\ UNCHANGED <<queue, latch, at, todo, note, refused, count, offered, got, news>>
  BY DEF Subscribe, router
<1>2. TypeInv'   BY <1>1 DEF IInv, TypeInv
<1>3. /\ subs' \in Seq(Subs) /\ Len(subs) \in Nat /\ Len(subs') = Len(subs) + 1
      /\ \A i \in 1..Len(subs) : subs'[i] = subs[i] /\ subs[i] \in Subs
      /\ subs'[Len(subs) + 1] = s
  BY <1>1, Appended DEF IInv, TypeInv
<1>4. \A i \in 1..Len(subs) : subs[i] # s   BY <1>1 DEF IInv, ListInv, AllKnown
<1>5. \A u \in Subs : state[u] # "absent" => state'[u] = state[u]
  BY <1>1 DEF IInv, TypeInv
<1>6. NoneTwice(subs)' /\ AllKnown(subs)'
  <2>1. NoneTwice(subs)'
    <3> SUFFICES ASSUME NEW i \in 1..Len(subs'), NEW j \in 1..Len(subs'), subs'[i] = subs'[j]
                 PROVE  i = j
      BY DEF NoneTwice
    <3>1. i \in 1..Len(subs) \/ i = Len(subs) + 1   BY <1>3
    <3>2. j \in 1..Len(subs) \/ j = Len(subs) + 1   BY <1>3
    <3> QED BY <1>3, <1>4, <3>1, <3>2 DEF IInv, ListInv, NoneTwice
  <2>2. AllKnown(subs)'
    <3> SUFFICES ASSUME NEW i \in 1..Len(subs') PROVE state'[subs'[i]] # "absent"
      BY DEF AllKnown
    <3>1. CASE i \in 1..Len(subs)   BY <1>3, <1>5, <3>1 DEF IInv, ListInv, AllKnown
    <3>2. CASE i = Len(subs) + 1   BY <1>1, <1>3, <3>2 DEF IInv, TypeInv
    <3> QED BY <1>3, <3>1, <3>2
  <2> QED BY <2>1, <2>2
<1>7. ListInv'
  <2>1. \A r \in Routers : \A i \in 1..Len(todo[r]) : todo[r][i] \in Subs   BY DEF IInv, TypeInv
  <2> QED BY <1>1, <1>5, <1>6, <2>1 DEF IInv, ListInv, NoneTwice, AllKnown
<1>8. AbsentInv' /\ RefusedInv' /\ NewerInv'
  BY <1>1 DEF IInv, TypeInv, AbsentInv, RefusedInv, NewerInv
<1>9. queue[s] = <<>> /\ news[s] = {} /\ offered[s] = got[s] /\ Len(queue[s]) = 0
  BY <1>1 DEF IInv, AbsentInv
<1>10. \A u \in Subs \ {s} : Open(u)' <=> Open(u)   BY <1>1 DEF IInv, TypeInv, Open
<1>11. DirtyIsKept'   BY <1>1, <1>9, <1>10 DEF IInv, DirtyIsKept
<1>12. ReliableInOrder'   BY <1>1, <1>9, <1>10 DEF IInv, ReliableInOrder, Waiting
<1> QED BY <1>2, <1>7, <1>8, <1>11, <1>12 DEF IInv

LEMMA DropStep == ASSUME IInv, NEW s \in Subs, Drop(s) PROVE IInv'
<1>1. /\ Open(s) /\ state' = [state EXCEPT ![s] = "closed"]
      /\ UNCHANGED <<subs, queue, latch, at, todo, note, refused, count, offered, got, news>>
  BY DEF Drop, router
<1>2. \A u \in Subs : /\ state'[u] = "absent" <=> state[u] = "absent"
                      /\ Open(u)' => Open(u)
  BY <1>1 DEF IInv, TypeInv, Open
<1>3. TypeInv'   BY <1>1 DEF IInv, TypeInv
<1>4. ListInv'
  <2>1. \A i \in 1..Len(subs) : subs[i] \in Subs   BY DEF IInv, TypeInv
  <2>2. \A r \in Routers : \A i \in 1..Len(todo[r]) : todo[r][i] \in Subs   BY DEF IInv, TypeInv
  <2> QED BY <1>1, <1>2, <2>1, <2>2 DEF IInv, ListInv, NoneTwice, AllKnown
<1>5. AbsentInv' /\ RefusedInv' /\ NewerInv'
  BY <1>1, <1>2 DEF IInv, AbsentInv, RefusedInv, NewerInv
<1>6. DirtyIsKept' /\ ReliableInOrder'
  BY <1>1, <1>2 DEF IInv, DirtyIsKept, ReliableInOrder, Waiting
<1> QED BY <1>3, <1>4, <1>5, <1>6 DEF IInv

\* A fan-out starts: the copy of the list is the pruned list.
LEMMA RouteStep == ASSUME IInv, NEW r \in Routers, Route(r) PROVE IInv'
<1>1. PICK n \in Sends(r) :
        /\ todo[r] = <<>> /\ count[r] < IF r = Reconnector THEN MaxBroadcasts ELSE MaxNotes
        /\ subs' = Retained /\ todo' = [todo EXCEPT ![r] = subs']
        /\ note' = [note EXCEPT ![r] = n] /\ count' = [count EXCEPT ![r] = @ + 1]
        /\ UNCHANGED <<state, queue, latch, at, refused, offered, got, news>>
  BY DEF Route
<1>2. /\ subs' \in Seq(Subs) /\ NoneTwice(subs') /\ \A i \in 1..Len(subs') : Open(subs'[i])
  BY <1>1, PruningKeeps DEF IInv, TypeInv, ListInv
<1>3. count[r] + 1 \in 1..MaxNotes /\ count[r] \in Nat
  BY <1>1, MaxNotesAssumption DEF IInv, TypeInv
<1>4. n \in Note /\ (n.kind = "reliable" => n.from = r /\ n.id = count[r] + 1)
  BY <1>3, NoteKinds DEF Sends
<1>5. TypeInv'   BY <1>1, <1>2, <1>3, <1>4 DEF IInv, TypeInv
<1>6. ListInv'
  <2>2. \A q \in Routers : todo'[q] = IF q = r THEN subs' ELSE todo[q]
    BY <1>1 DEF IInv, TypeInv
  <2>3. NoneTwice(subs)' /\ AllKnown(subs)'   BY <1>1, <1>2 DEF NoneTwice, AllKnown, Open
  <2>4. \A q \in Routers : NoneTwice(todo'[q])
    BY <1>2, <2>2 DEF IInv, ListInv
  <2>5. \A q \in Routers : \A i \in 1..Len(todo'[q]) : state'[todo'[q][i]] # "absent"
    BY <1>1, <1>2, <2>2 DEF IInv, ListInv, AllKnown, Open
  <2> QED BY <2>3, <2>4, <2>5 DEF ListInv, NoneTwice, AllKnown
<1>7. ~refused[r]   BY <1>1 DEF IInv, RefusedInv
<1>8. \A q \in Routers \ {r} : todo'[q] = todo[q] /\ note'[q] = note[q] /\ count'[q] = count[q]
  BY <1>1 DEF IInv, TypeInv
<1>9. note'[r] = n /\ count'[r] = count[r] + 1   BY <1>1 DEF IInv, TypeInv
<1>10. AbsentInv' /\ RefusedInv'
  BY <1>1, <1>7, <1>8 DEF IInv, AbsentInv, RefusedInv
<1>11. NewerInv'
  <2>1. \A s \in Subs : offered[s][r] <= count[r] /\ offered[s][r] \in Nat
    BY DEF IInv, NewerInv, TypeInv
  <2>2. todo'[r] = subs'   BY <1>1 DEF IInv, TypeInv
  <2>3. \A s \in Subs : offered'[s][r] < count'[r]   BY <1>1, <1>3, <1>9, <2>1
  <2>4. \A s \in Subs : offered'[s][r] <= count'[r]   BY <1>1, <1>3, <1>9, <2>1
  <2>5. \A i \in 1..Len(todo'[r]) : offered'[todo'[r][i]][r] < count'[r]
    BY <1>2, <2>2, <2>3
  <2>6. \A q \in Routers \ {r} :
          /\ note'[q].kind = "reliable" => note'[q].from = q /\ note'[q].id = count'[q]
          /\ \A s \in Subs : offered'[s][q] <= count'[q]
          /\ note'[q].kind = "reliable" =>
               \A i \in 1..Len(todo'[q]) : offered'[todo'[q][i]][q] < count'[q]
    BY <1>1, <1>8 DEF IInv, NewerInv
  <2> QED BY <1>4, <1>9, <2>4, <2>5, <2>6 DEF NewerInv
<1>12. DirtyIsKept'
  BY <1>1, <1>7, <1>8 DEF IInv, DirtyIsKept, Open
<1>13. ReliableInOrder'   BY <1>1 DEF IInv, ReliableInOrder, Waiting, Open
<1> QED BY <1>5, <1>6, <1>10, <1>11, <1>12, <1>13 DEF IInv

\* What every step of a fan-out past a subscriber does to the lists.
LEMMA Advanced ==
    ASSUME IInv, NEW r \in Routers, todo[r] # <<>>, Advance(r),
           UNCHANGED <<subs, state, note, count>>
    PROVE  /\ todo' \in [Routers -> Seq(Subs)]
           /\ todo'[r] = Tail(todo[r]) /\ \A q \in Routers \ {r} : todo'[q] = todo[q]
           /\ ListInv'
           /\ \A i \in 1..Len(todo'[r]) : todo'[r][i] \in Subs \ {Head(todo[r])}
           /\ \A i \in 1..Len(todo'[r]) : \E j \in 1..Len(todo[r]) : todo'[r][i] = todo[r][j]
<1>1. /\ todo'[r] = Tail(todo[r]) /\ \A q \in Routers \ {r} : todo'[q] = todo[q]
      /\ Tail(todo[r]) \in Seq(Subs) /\ todo' \in [Routers -> Seq(Subs)]
  BY Shifted DEF Advance, IInv, TypeInv
<1>2. /\ NoneTwice(Tail(todo[r])) /\ AllKnown(Tail(todo[r]))
      /\ \A i \in 1..Len(Tail(todo[r])) : Tail(todo[r])[i] # Head(todo[r])
  BY ShiftedList DEF IInv, ListInv
<1>3. \A q \in Routers : NoneTwice(todo'[q])   BY <1>1, <1>2 DEF IInv, ListInv
<1>4. \A q \in Routers : \A i \in 1..Len(todo'[q]) : state'[todo'[q][i]] # "absent"
  BY <1>1, <1>2 DEF IInv, ListInv, AllKnown
<1>5. ListInv'
  BY <1>3, <1>4 DEF IInv, ListInv, NoneTwice, AllKnown
<1>6. \A i \in 1..Len(todo'[r]) : \E j \in 1..Len(todo[r]) : todo'[r][i] = todo[r][j]
  <2>1. /\ Len(todo[r]) \in Nat \ {0} /\ Len(Tail(todo[r])) = Len(todo[r]) - 1
        /\ \A i \in 1..Len(Tail(todo[r])) : Tail(todo[r])[i] = todo[r][i + 1]
    BY Shifted DEF IInv, TypeInv
  <2> SUFFICES ASSUME NEW i \in 1..Len(todo'[r])
               PROVE  \E j \in 1..Len(todo[r]) : todo'[r][i] = todo[r][j]
    OBVIOUS
  <2>2. i + 1 \in 1..Len(todo[r]) /\ todo'[r][i] = todo[r][i + 1]   BY <1>1, <2>1
  <2> QED BY <2>2
<1> QED BY <1>1, <1>2, <1>5, <1>6

\* What a turn of a fan-out records.
LEMMA Recorded ==
    ASSUME IInv, NEW r \in Routers, Offer(r)
    PROVE  /\ Head(todo[r]) \in Subs /\ state[Head(todo[r])] # "absent" /\ todo[r] # <<>> /\ ~refused[r]
           /\ offered' \in [Subs -> [Routers -> 0..MaxNotes]]
           /\ \A u \in Subs, q \in Routers :
                offered'[u][q] = IF u = Head(todo[r]) /\ q = r /\ note[r].kind = "reliable"
                                 THEN count[r] ELSE offered[u][q]
           /\ news' \in [Subs -> SUBSET Panes]
           /\ \A u \in Subs : news'[u] = IF u = Head(todo[r]) /\ note[r].kind = "dirty"
                                         THEN news[u] \union {note[r].pane} ELSE news[u]
           /\ UNCHANGED <<subs, state, latch, at, note, count, got>>
           /\ note[r] \in Note /\ note[r].kind \in {"reliable", "dirty", "output"}
<1> DEFINE s == Head(todo[r])
<1>1. /\ todo[r] # <<>> /\ ~refused[r]
      /\ offered' = IF note[r].kind = "reliable"
                    THEN [offered EXCEPT ![s][r] = note[r].id] ELSE offered
      /\ news' = IF note[r].kind = "dirty"
                 THEN [news EXCEPT ![s] = @ \union {note[r].pane}] ELSE news
      /\ UNCHANGED <<subs, state, latch, at, note, count, got>>
  BY DEF Offer
<1>2. s \in Subs /\ state[s] # "absent"   BY <1>1, ShiftedList DEF IInv, ListInv
<1>3. note[r] \in Note /\ note[r].kind \in {"reliable", "dirty", "output"}
  BY NoteKinds DEF IInv, TypeInv
<1>4. /\ note[r].kind = "reliable" => note[r].id = count[r] /\ count[r] \in 0..MaxNotes
      /\ note[r].kind = "dirty" => note[r].pane \in Panes
  BY <1>3, NoteKinds DEF IInv, NewerInv, TypeInv
<1>5. /\ offered' \in [Subs -> [Routers -> 0..MaxNotes]]
      /\ \A u \in Subs, q \in Routers :
           offered'[u][q] = IF u = s /\ q = r /\ note[r].kind = "reliable"
                            THEN count[r] ELSE offered[u][q]
  BY <1>1, <1>2, <1>4 DEF IInv, TypeInv
<1>6. /\ news' \in [Subs -> SUBSET Panes]
      /\ \A u \in Subs : news'[u] = IF u = s /\ note[r].kind = "dirty"
                                    THEN news[u] \union {note[r].pane} ELSE news[u]
  BY <1>1, <1>2, <1>4 DEF IInv, TypeInv
<1> QED BY <1>1, <1>2, <1>3, <1>5, <1>6

\* A turn that goes on keeps what is said of the numbers.
LEMMA NewerStays ==
    ASSUME IInv, NEW r \in Routers, Offer(r), Advance(r)
    PROVE  NewerInv'
<1> DEFINE s == Head(todo[r])
<1>1. /\ s \in Subs /\ todo[r] # <<>>
      /\ \A u \in Subs, q \in Routers :
           offered'[u][q] = IF u = s /\ q = r /\ note[r].kind = "reliable"
                            THEN count[r] ELSE offered[u][q]
      /\ UNCHANGED <<subs, state, note, count>>
  BY Recorded
<1>2. /\ \A q \in Routers \ {r} : todo'[q] = todo[q]
      /\ \A i \in 1..Len(todo'[r]) : todo'[r][i] \in Subs \ {s}
      /\ \A i \in 1..Len(todo'[r]) : \E j \in 1..Len(todo[r]) : todo'[r][i] = todo[r][j]
  BY <1>1, Advanced
<1>3. \A q \in Routers : count[q] \in Nat   BY DEF IInv, TypeInv
<1>4. \A q \in Routers : \A u \in Subs : offered'[u][q] <= count'[q]
  BY <1>1, <1>3 DEF IInv, NewerInv
<1>5. \A q \in Routers : note'[q].kind = "reliable" =>
        \A i \in 1..Len(todo'[q]) : offered'[todo'[q][i]][q] < count'[q]
  <2> SUFFICES ASSUME NEW q \in Routers, note'[q].kind = "reliable",
                      NEW i \in 1..Len(todo'[q])
               PROVE  offered'[todo'[q][i]][q] < count'[q]
    OBVIOUS
  <2>1. CASE q = r
    <3>1. PICK j \in 1..Len(todo[r]) : todo'[r][i] = todo[r][j]   BY <1>2, <2>1
    <3>2. todo'[r][i] \in Subs \ {s}   BY <1>2, <2>1
    <3>3. offered[todo[r][j]][r] < count[r]   BY <1>1, <2>1 DEF IInv, NewerInv
    <3> QED BY <1>1, <2>1, <3>1, <3>2, <3>3
  <2>2. CASE q # r
    <3>1. todo'[q] = todo[q] /\ todo[q][i] \in Subs   BY <1>2, <2>2 DEF IInv, TypeInv
    <3>2. offered[todo[q][i]][q] < count[q]   BY <1>1, <3>1 DEF IInv, NewerInv
    <3> QED BY <1>1, <2>2, <3>1, <3>2
  <2> QED BY <2>1, <2>2
<1>6. \A q \in Routers :
        note'[q].kind = "reliable" => note'[q].from = q /\ note'[q].id = count'[q]
  BY <1>1 DEF IInv, NewerInv
<1> QED BY <1>4, <1>5, <1>6 DEF NewerInv

\* The order of one thread's notifications in one queue, as ReliableInOrder
\* states it of queue[s], r, got[s][r] and offered[s][r].
Places(q, r) == {i \in 1..Len(q) : q[i].kind = "reliable" /\ q[i].from = r}

InOrder(q, r, g, o) ==
    /\ \A i \in Places(q, r) : q[i].id > g
    /\ \A i, j \in Places(q, r) : i < j => q[i].id < q[j].id
    /\ Places(q, r) = {} => o = g
    /\ \A i \in Places(q, r) : (\A j \in Places(q, r) : j <= i) => o = q[i].id

\* The last one offered is the newest: nothing queued or received is above it.
LEMMA NewestLast ==
    ASSUME NEW q \in Seq(Note), NEW r, NEW g \in Nat, NEW o \in Nat, InOrder(q, r, g, o)
    PROVE  /\ \A i \in Places(q, r) : i \in 1..Len(q) /\ q[i].id \in Nat /\ q[i].id <= o
           /\ g <= o
<1> DEFINE w == Places(q, r)
<1>1. /\ \A i \in w : q[i].id > g
      /\ \A i, j \in w : i < j => q[i].id < q[j].id
      /\ w = {} => o = g
      /\ \A i \in w : (\A j \in w : j <= i) => o = q[i].id
  BY DEF InOrder
<1>2. \A i \in w : i \in 1..Len(q) /\ q[i].id \in Nat   BY NoteKinds DEF Places
<1>3. Len(q) \in Nat   OBVIOUS
<1> HIDE DEF w
<1>4. CASE w = {}   BY <1>1, <1>4 DEF w
<1>5. CASE w # {}
  <2> DEFINE T == {Len(q) - i : i \in w}
  <2>1. T \subseteq Nat /\ T # {}   BY <1>2, <1>3, <1>5
  <2>2. PICK m \in T : \A k \in T : m <= k
    <3> HIDE DEF T
    <3> QED BY <2>1, LeastNumber
  <2>3. PICK i \in w : m = Len(q) - i   OBVIOUS
  <2>4. \A j \in w : j <= i
    <3> SUFFICES ASSUME NEW j \in w PROVE j <= i   OBVIOUS
    <3>1. m <= Len(q) - j   BY <2>2
    <3> QED BY <1>2, <1>3, <2>3, <3>1
  <2>5. o = q[i].id   BY <1>1, <2>4
  <2>6. \A j \in w : q[j].id <= q[i].id
    <3> SUFFICES ASSUME NEW j \in w PROVE q[j].id <= q[i].id   OBVIOUS
    <3>1. j < i \/ j = i   BY <1>2, <2>4
    <3> QED BY <1>1, <1>2, <3>1
  <2> QED BY <1>1, <1>2, <2>3, <2>5, <2>6 DEF w
<1> QED BY <1>4, <1>5

\* What others append does not matter to a thread's order.
LEMMA OthersAppend ==
    ASSUME NEW q \in Seq(Note), NEW e \in Note, NEW r, NEW g, NEW o, InOrder(q, r, g, o),
           ~(e.kind = "reliable" /\ e.from = r)
    PROVE  InOrder(Append(q, e), r, g, o)
<1> DEFINE a == Append(q, e)
<1>1. /\ Len(q) \in Nat /\ Len(a) = Len(q) + 1 /\ a[Len(q) + 1] = e
      /\ \A i \in 1..Len(q) : a[i] = q[i]
  BY Appended
<1> HIDE DEF a
<1>2. Places(a, r) = Places(q, r)   BY <1>1 DEF Places
<1>3. \A i \in Places(q, r) : a[i] = q[i]   BY <1>1 DEF Places
<1>4. InOrder(a, r, g, o)   BY <1>2, <1>3 DEF InOrder
<1> QED BY <1>4 DEF a

\* A thread appends only what is newer than all it has offered.
LEMMA NewerAppends ==
    ASSUME NEW q \in Seq(Note), NEW e \in Note, NEW r, NEW g \in Nat, NEW o \in Nat,
           InOrder(q, r, g, o), e.kind = "reliable", e.from = r, o < e.id
    PROVE  InOrder(Append(q, e), r, g, e.id)
<1> DEFINE a == Append(q, e)
           n == Len(q)
<1>1. /\ n \in Nat /\ Len(a) = n + 1 /\ a[n + 1] = e
      /\ \A i \in 1..n : a[i] = q[i]
  BY Appended
<1>2. \A i \in Places(q, r) : i \in 1..n /\ q[i].id \in Nat /\ q[i].id <= o   BY NewestLast
<1>3. g <= o   BY NewestLast
<1>4. e.id \in Nat   BY NoteKinds
<1> HIDE DEF a, n
<1>5. Places(a, r) = Places(q, r) \union {n + 1}   BY <1>1 DEF Places, n
<1>6. \A i \in Places(q, r) : a[i] = q[i]   BY <1>1, <1>2
<1>7. \A i \in Places(a, r) : a[i].id > g
  <2> SUFFICES ASSUME NEW i \in Places(a, r) PROVE a[i].id > g   OBVIOUS
  <2>1. CASE i \in Places(q, r)   BY <1>6, <2>1 DEF InOrder
  <2>2. CASE i = n + 1   BY <1>1, <1>3, <1>4, <2>2
  <2> QED BY <1>5, <2>1, <2>2
<1>8. \A i, j \in Places(a, r) : i < j => a[i].id < a[j].id
  <2> SUFFICES ASSUME NEW i \in Places(a, r), NEW j \in Places(a, r), i < j
               PROVE  a[i].id < a[j].id
    OBVIOUS
  <2>1. i \in Places(q, r)   BY <1>1, <1>2, <1>5
  <2>2. CASE j \in Places(q, r)   BY <1>6, <2>1, <2>2 DEF InOrder
  <2>3. CASE j = n + 1
    <3>1. a[i] = q[i] /\ q[i].id \in Nat /\ q[i].id <= o   BY <1>2, <1>6, <2>1
    <3>2. q[i].id < e.id   BY <1>4, <3>1
    <3> QED BY <1>1, <2>3, <3>1, <3>2
  <2> QED BY <1>5, <2>2, <2>3
<1>9. \A i \in Places(a, r) : (\A j \in Places(a, r) : j <= i) => i = n + 1
  <2> SUFFICES ASSUME NEW i \in Places(a, r), \A j \in Places(a, r) : j <= i
               PROVE  i = n + 1
    OBVIOUS
  <2>1. n + 1 <= i   BY <1>5
  <2>2. CASE i \in Places(q, r)
    <3>1. i \in 1..n   BY <1>2, <2>2
    <3> QED BY <1>1, <2>1, <3>1
  <2> QED BY <1>5, <2>2
<1>10. InOrder(a, r, g, e.id)   BY <1>1, <1>5, <1>7, <1>8, <1>9 DEF InOrder
<1> QED BY <1>10 DEF a

\* Taking the head moves every place down by one.
LEMMA PlacesInTail ==
    ASSUME NEW q \in Seq(Note), q # <<>>, NEW r
    PROVE  /\ \A i \in Places(Tail(q), r) :
                /\ i \in Nat \ {0} /\ i + 1 \in Places(q, r) /\ Tail(q)[i] = q[i + 1]
           /\ \A i \in Places(q, r) :
                \/ i = 1 /\ Head(q).kind = "reliable" /\ Head(q).from = r
                \/ i > 1 /\ i - 1 \in Places(Tail(q), r)
<1> DEFINE t == Tail(q)
<1>1. /\ Head(q) = q[1] /\ Len(q) \in Nat \ {0} /\ Len(t) = Len(q) - 1
      /\ \A i \in 1..Len(t) : t[i] = q[i + 1]
  BY Shifted
<1> HIDE DEF t
<1>2. \A i \in Places(t, r) : i \in Nat \ {0} /\ i + 1 \in Places(q, r) /\ t[i] = q[i + 1]
  BY <1>1 DEF Places
<1>3. ASSUME NEW i \in Places(q, r)
      PROVE  \/ i = 1 /\ Head(q).kind = "reliable" /\ Head(q).from = r
             \/ i > 1 /\ i - 1 \in Places(t, r)
  <2>1. i \in 1..Len(q) /\ q[i].kind = "reliable" /\ q[i].from = r   BY DEF Places
  <2>2. CASE i = 1   BY <1>1, <2>1, <2>2
  <2>3. CASE i # 1
    <3>1. i - 1 \in 1..Len(t) /\ (i - 1) + 1 = i   BY <1>1, <2>1, <2>3
    <3>2. t[i - 1] = q[i]   BY <1>1, <3>1
    <3> QED BY <2>1, <2>3, <3>1, <3>2 DEF Places
  <2> QED BY <2>2, <2>3
<1> QED BY <1>2, <1>3 DEF t

\* The receiver takes another thread's notification, or none that counts.
LEMMA OthersTaken ==
    ASSUME NEW q \in Seq(Note), q # <<>>, NEW r, NEW g, NEW o, InOrder(q, r, g, o),
           ~(Head(q).kind = "reliable" /\ Head(q).from = r)
    PROVE  InOrder(Tail(q), r, g, o)
<1> DEFINE t == Tail(q)
<1>1. \A i \in Places(t, r) : i \in Nat \ {0} /\ i + 1 \in Places(q, r) /\ t[i] = q[i + 1]
  BY PlacesInTail
<1>2. \A i \in Places(q, r) : i > 1 /\ i - 1 \in Places(t, r)   BY PlacesInTail
<1>3. \A i \in Places(q, r) : i \in Nat   BY DEF Places
<1> HIDE DEF t
<1>4. \A i \in Places(t, r) : t[i].id > g   BY <1>1 DEF InOrder
<1>5. \A i, j \in Places(t, r) : i < j => t[i].id < t[j].id
  <2> SUFFICES ASSUME NEW i \in Places(t, r), NEW j \in Places(t, r), i < j
               PROVE  t[i].id < t[j].id
    OBVIOUS
  <2>1. i + 1 \in Places(q, r) /\ j + 1 \in Places(q, r) /\ i + 1 < j + 1   BY <1>1
  <2>2. q[i + 1].id < q[j + 1].id   BY <2>1 DEF InOrder
  <2> QED BY <1>1, <2>2
<1>6. Places(t, r) = {} => o = g   BY <1>2 DEF InOrder
<1>7. ASSUME NEW i \in Places(t, r), \A j \in Places(t, r) : j <= i PROVE o = t[i].id
  <2>1. i + 1 \in Places(q, r) /\ i \in Nat   BY <1>1
  <2>2. \A j \in Places(q, r) : j <= i + 1
    <3> SUFFICES ASSUME NEW j \in Places(q, r) PROVE j <= i + 1   OBVIOUS
    <3>1. j - 1 <= i /\ j \in Nat   BY <1>2, <1>3, <1>7
    <3> QED BY <2>1, <3>1
  <2>3. o = q[i + 1].id   BY <2>1, <2>2 DEF InOrder
  <2> QED BY <1>1, <2>3
<1>8. InOrder(t, r, g, o)   BY <1>4, <1>5, <1>6, <1>7 DEF InOrder
<1> QED BY <1>8 DEF t

\* It takes one of r: the rest is newer than that one.
LEMMA OwnTaken ==
    ASSUME NEW q \in Seq(Note), q # <<>>, NEW r, NEW g, NEW o, InOrder(q, r, g, o),
           Head(q).kind = "reliable", Head(q).from = r
    PROVE  InOrder(Tail(q), r, Head(q).id, o)
<1> DEFINE t == Tail(q)
           h == Head(q).id
<1>1. \A i \in Places(t, r) : i \in Nat \ {0} /\ i + 1 \in Places(q, r) /\ t[i] = q[i + 1]
  BY PlacesInTail
<1>2. \A i \in Places(q, r) : i = 1 \/ (i > 1 /\ i - 1 \in Places(t, r))   BY PlacesInTail
<1>3. \A i \in Places(q, r) : i \in Nat   BY DEF Places
<1>4. 1 \in Places(q, r) /\ q[1].id = h
  <2>1. Head(q) = q[1] /\ Len(q) \in Nat \ {0}   BY Shifted
  <2> QED BY <2>1 DEF Places
<1> HIDE DEF t, h
<1>5. ASSUME NEW i \in Places(t, r) PROVE t[i].id > h
  <2>1. i + 1 \in Places(q, r) /\ 1 < i + 1 /\ t[i] = q[i + 1]   BY <1>1
  <2>2. q[1].id < q[i + 1].id   BY <1>4, <2>1 DEF InOrder
  <2>3. q[1].id \in Nat /\ q[i + 1].id \in Nat   BY <1>4, <2>1, NoteKinds DEF Places
  <2> QED BY <1>4, <2>1, <2>2, <2>3
<1>6. \A i, j \in Places(t, r) : i < j => t[i].id < t[j].id
  <2> SUFFICES ASSUME NEW i \in Places(t, r), NEW j \in Places(t, r), i < j
               PROVE  t[i].id < t[j].id
    OBVIOUS
  <2>1. i + 1 \in Places(q, r) /\ j + 1 \in Places(q, r) /\ i + 1 < j + 1   BY <1>1
  <2>2. q[i + 1].id < q[j + 1].id   BY <2>1 DEF InOrder
  <2> QED BY <1>1, <2>2
<1>7. ASSUME Places(t, r) = {} PROVE o = h
  <2>1. \A j \in Places(q, r) : j <= 1   BY <1>2, <1>7
  <2> QED BY <1>4, <2>1 DEF InOrder
<1>8. ASSUME NEW i \in Places(t, r), \A j \in Places(t, r) : j <= i PROVE o = t[i].id
  <2>1. i + 1 \in Places(q, r) /\ i \in Nat   BY <1>1
  <2>2. \A j \in Places(q, r) : j <= i + 1
    <3> SUFFICES ASSUME NEW j \in Places(q, r) PROVE j <= i + 1   OBVIOUS
    <3>1. CASE j = 1   BY <2>1, <3>1
    <3>2. CASE j # 1
      <4>1. j - 1 <= i /\ j \in Nat   BY <1>2, <1>3, <1>8, <3>2
      <4> QED BY <2>1, <4>1
    <3> QED BY <3>1, <3>2
  <2>3. o = q[i + 1].id   BY <2>1, <2>2 DEF InOrder
  <2> QED BY <1>1, <2>3
<1>9. InOrder(t, r, h, o)   BY <1>5, <1>6, <1>7, <1>8 DEF InOrder
<1> QED BY <1>9 DEF t, h

\* The queue holds a PaneDirty of p.
HasDirty(q, p) == \E i \in 1..Len(q) : q[i] = Dirty(p)

LEMMA DirtyAppended ==
    ASSUME NEW q \in Seq(Note), NEW e \in Note, NEW p
    PROVE  /\ HasDirty(q, p) => HasDirty(Append(q, e), p)
           /\ e = Dirty(p) => HasDirty(Append(q, e), p)
<1> DEFINE a == Append(q, e)
<1>1. /\ Len(q) \in Nat /\ Len(a) = Len(q) + 1 /\ a[Len(q) + 1] = e
      /\ \A i \in 1..Len(q) : a[i] = q[i]
  BY Appended
<1> HIDE DEF a
<1>2. 1..Len(q) \subseteq 1..Len(a) /\ Len(q) + 1 \in 1..Len(a)   BY <1>1
<1>3. /\ HasDirty(q, p) => HasDirty(a, p)
      /\ e = Dirty(p) => HasDirty(a, p)
  BY <1>1, <1>2 DEF HasDirty
<1> QED BY <1>3 DEF a

LEMMA DirtyTaken ==
    ASSUME NEW q \in Seq(Note), q # <<>>, NEW p, HasDirty(q, p), Head(q) # Dirty(p)
    PROVE  HasDirty(Tail(q), p)
<1> DEFINE t == Tail(q)
<1>1. /\ Head(q) = q[1] /\ Len(q) \in Nat \ {0} /\ Len(t) = Len(q) - 1
      /\ \A i \in 1..Len(t) : t[i] = q[i + 1]
  BY Shifted
<1> HIDE DEF t
<1>2. PICK i \in 1..Len(q) : q[i] = Dirty(p)   BY DEF HasDirty
<1>3. i - 1 \in 1..Len(t) /\ (i - 1) + 1 = i   BY <1>1, <1>2
<1>4. t[i - 1] = Dirty(p)   BY <1>1, <1>2, <1>3
<1>5. HasDirty(t, p)   BY <1>3, <1>4 DEF HasDirty
<1> QED BY <1>5 DEF t

LEMMA OrderIs ==
    /\ ReliableInOrder <=>
         \A s \in Subs, r \in Routers :
           Open(s) => InOrder(queue[s], r, got[s][r], offered[s][r])
    /\ ReliableInOrder' <=>
         \A s \in Subs, r \in Routers :
           Open(s)' => InOrder(queue'[s], r, got'[s][r], offered'[s][r])
BY DEF ReliableInOrder, InOrder, Waiting, Places

\* Where the news of p for s is.
Kept(s, p) ==
    \/ p \in latch[s]
    \/ HasDirty(queue[s], p)
    \/ \E r \in Routers : refused[r] /\ Head(todo[r]) = s /\ note[r] = Dirty(p)

LEMMA KeptIs ==
    /\ DirtyIsKept <=> \A s \in Subs : Open(s) => \A p \in news[s] : Kept(s, p)
    /\ DirtyIsKept' <=> \A s \in Subs : Open(s)' => \A p \in news'[s] : Kept(s, p)'
BY DEF DirtyIsKept, Kept, HasDirty

LEMMA AbsentStays ==
    ASSUME IInv, NEW r \in Routers, Offer(r),
           \A u \in Subs \ {Head(todo[r])} : queue'[u] = queue[u]
    PROVE  AbsentInv'
<1> DEFINE s == Head(todo[r])
<1>1. /\ s \in Subs /\ state[s] # "absent" /\ UNCHANGED <<state, got>>
      /\ offered' \in [Subs -> [Routers -> 0..MaxNotes]]
      /\ \A u \in Subs, q \in Routers :
           offered'[u][q] = IF u = s /\ q = r /\ note[r].kind = "reliable"
                            THEN count[r] ELSE offered[u][q]
      /\ \A u \in Subs : news'[u] = IF u = s /\ note[r].kind = "dirty"
                                    THEN news[u] \union {note[r].pane} ELSE news[u]
  BY Recorded
<1> HIDE DEF s
<1> SUFFICES ASSUME NEW u \in Subs, state[u] = "absent"
             PROVE  queue'[u] = <<>> /\ news'[u] = {} /\ offered'[u] = got'[u]
  BY <1>1 DEF AbsentInv
<1>2. u # s   BY <1>1
<1>3. queue[u] = <<>> /\ news[u] = {} /\ offered[u] = got[u]   BY DEF IInv, AbsentInv
<1>4. \A q \in Routers : offered'[u][q] = offered[u][q]   BY <1>1, <1>2
<1>5. offered'[u] = offered[u]   BY <1>1, <1>4 DEF IInv, TypeInv
<1> QED BY <1>1, <1>2, <1>3, <1>5 DEF s

\* The queue has room.
LEMMA EnqueueStep ==
    ASSUME IInv, NEW r \in Routers, Offer(r), Enqueue(r, Head(todo[r]))
    PROVE  IInv'
<1> DEFINE s == Head(todo[r])
<1>1. /\ s \in Subs /\ state[s] # "absent" /\ todo[r] # <<>> /\ ~refused[r]
      /\ offered' \in [Subs -> [Routers -> 0..MaxNotes]]
      /\ \A u \in Subs, q \in Routers :
           offered'[u][q] = IF u = s /\ q = r /\ note[r].kind = "reliable"
                            THEN count[r] ELSE offered[u][q]
      /\ news' \in [Subs -> SUBSET Panes]
      /\ \A u \in Subs : news'[u] = IF u = s /\ note[r].kind = "dirty"
                                    THEN news[u] \union {note[r].pane} ELSE news[u]
      /\ UNCHANGED <<subs, state, latch, at, note, count, got>>
      /\ note[r] \in Note
  BY Recorded
<1>2. /\ Open(s) /\ queue' = [queue EXCEPT ![s] = Append(@, note[r])]
      /\ Advance(r) /\ refused' = refused
  BY DEF Enqueue
<1>3. /\ todo' \in [Routers -> Seq(Subs)] /\ ListInv'
      /\ \A q \in Routers \ {r} : todo'[q] = todo[q]
  BY <1>1, <1>2, Advanced
<1>4. /\ queue' \in [Subs -> Seq(Note)] /\ queue[s] \in Seq(Note)
      /\ \A u \in Subs \ {s} : queue'[u] = queue[u]
      /\ queue'[s] = Append(queue[s], note[r])
  BY <1>1, <1>2, Appended DEF IInv, TypeInv
<1>6. AbsentInv'   BY <1>4, AbsentStays
<1>8. NewerInv'   BY <1>2, NewerStays
<1>11. note[r].kind = "reliable" => offered[s][r] < count[r]
  <2>1. 1 \in 1..Len(todo[r]) /\ todo[r][1] = s   BY <1>1, Shifted DEF IInv, TypeInv
  <2> QED BY <2>1 DEF IInv, NewerInv
<1> HIDE DEF s
<1>5. TypeInv'   BY <1>1, <1>2, <1>3, <1>4 DEF IInv, TypeInv
<1>7. RefusedInv'
  <2> SUFFICES ASSUME NEW q \in Routers, refused[q]
               PROVE  todo'[q] # <<>> /\ note'[q].kind = "dirty"
    BY <1>2 DEF RefusedInv
  <2> QED BY <1>1, <1>3 DEF IInv, RefusedInv
<1>9. DirtyIsKept'
  <2> SUFFICES ASSUME NEW u \in Subs, Open(u)', NEW p \in news'[u] PROVE Kept(u, p)'
    BY KeptIs
  <2>0. Open(u)   BY <1>1 DEF Open
  <2>1. HasDirty(queue[u], p) => HasDirty(queue'[u], p)
    BY <1>1, <1>4, DirtyAppended
  <2>2. CASE p \in news[u]
    <3>1. Kept(u, p)   BY <2>0, <2>2, KeptIs DEF IInv
    <3>2. \A q \in Routers : refused[q] => q # r   BY <1>1
    <3> QED BY <1>1, <1>2, <1>3, <2>1, <3>1, <3>2 DEF Kept
  <2>3. CASE p \notin news[u]
    <3>1. u = s /\ note[r].kind = "dirty" /\ p = note[r].pane   BY <1>1, <2>3
    <3>2. note[r] = Dirty(p)   BY <1>1, <3>1, NoteKinds
    <3>3. HasDirty(Append(queue[s], note[r]), p)   BY <1>1, <1>4, <3>2, DirtyAppended
    <3> QED BY <1>4, <3>1, <3>3 DEF Kept
  <2> QED BY <2>2, <2>3
<1>10. ReliableInOrder'
  <2> SUFFICES ASSUME NEW u \in Subs, NEW q \in Routers, Open(u)'
               PROVE  InOrder(queue'[u], q, got'[u][q], offered'[u][q])
    BY OrderIs
  <2>0. Open(u)   BY <1>1 DEF Open
  <2>1. InOrder(queue[u], q, got[u][q], offered[u][q])   BY <2>0, OrderIs DEF IInv
  <2>2. CASE u # s   BY <1>1, <1>4, <2>1, <2>2
  <2>3. CASE u = s /\ ~(note[r].kind = "reliable" /\ q = r)
    <3>1. ~(note[r].kind = "reliable" /\ note[r].from = q)   BY <2>3 DEF IInv, NewerInv
    <3>2. offered'[u][q] = offered[u][q]   BY <1>1, <2>3
    <3>3. InOrder(Append(queue[u], note[r]), q, got[u][q], offered[u][q])
      BY <1>1, <1>4, <2>1, <2>3, <3>1, OthersAppend
    <3> QED BY <1>1, <1>4, <2>3, <3>2, <3>3
  <2>4. CASE u = s /\ note[r].kind = "reliable" /\ q = r
    <3>1. note[r].from = r /\ note[r].id = count[r] /\ count[r] \in Nat
      BY <2>4 DEF IInv, NewerInv, TypeInv
    <3>2. got[u][q] \in Nat /\ offered[u][q] \in Nat   BY DEF IInv, TypeInv
    <3>3. offered[u][q] < note[r].id   BY <1>11, <2>4, <3>1
    <3>4. InOrder(Append(queue[u], note[r]), q, got[u][q], note[r].id)
      BY <1>1, <1>4, <2>1, <2>4, <3>1, <3>2, <3>3, NewerAppends
    <3>5. offered'[u][q] = note[r].id   BY <1>1, <2>4, <3>1
    <3> QED BY <1>1, <1>4, <2>4, <3>4, <3>5
  <2> QED BY <2>2, <2>3, <2>4
<1> QED BY <1>3, <1>5, <1>6, <1>7, <1>8, <1>9, <1>10 DEF IInv

\* Its receiver is gone: what it should have had is asked for no more.
LEMMA SkipClosedStep ==
    ASSUME IInv, NEW r \in Routers, Offer(r), SkipClosed(r, Head(todo[r]))
    PROVE  IInv'
<1> DEFINE s == Head(todo[r])
<1>1. /\ s \in Subs /\ todo[r] # <<>> /\ ~refused[r]
      /\ offered' \in [Subs -> [Routers -> 0..MaxNotes]]
      /\ \A u \in Subs, q \in Routers :
           offered'[u][q] = IF u = s /\ q = r /\ note[r].kind = "reliable"
                            THEN count[r] ELSE offered[u][q]
      /\ news' \in [Subs -> SUBSET Panes]
      /\ \A u \in Subs : news'[u] = IF u = s /\ note[r].kind = "dirty"
                                    THEN news[u] \union {note[r].pane} ELSE news[u]
      /\ UNCHANGED <<subs, state, latch, at, note, count, got>>
  BY Recorded
<1>2. ~Open(s) /\ Advance(r) /\ UNCHANGED <<queue, refused>>   BY DEF SkipClosed
<1>3. /\ todo' \in [Routers -> Seq(Subs)] /\ ListInv'
      /\ \A q \in Routers \ {r} : todo'[q] = todo[q]
  BY <1>1, <1>2, Advanced
<1>4. AbsentInv' /\ NewerInv'   BY <1>2, AbsentStays, NewerStays
<1> HIDE DEF s
<1>5. TypeInv'   BY <1>1, <1>2, <1>3 DEF IInv, TypeInv
<1>6. RefusedInv'
  <2> SUFFICES ASSUME NEW q \in Routers, refused[q]
               PROVE  todo'[q] # <<>> /\ note'[q].kind = "dirty"
    BY <1>2 DEF RefusedInv
  <2> QED BY <1>1, <1>3 DEF IInv, RefusedInv
<1>7. DirtyIsKept'
  <2> SUFFICES ASSUME NEW u \in Subs, Open(u)', NEW p \in news'[u] PROVE Kept(u, p)'
    BY KeptIs
  <2>1. Open(u)   BY <1>1 DEF Open
  <2>2. p \in news[u]   BY <1>1, <1>2, <2>1
  <2>3. Kept(u, p)   BY <2>1, <2>2, KeptIs DEF IInv
  <2>4. \A q \in Routers : refused[q] => q # r   BY <1>1
  <2> QED BY <1>1, <1>2, <1>3, <2>3, <2>4 DEF Kept
<1>8. ReliableInOrder'
  <2> SUFFICES ASSUME NEW u \in Subs, NEW q \in Routers, Open(u)'
               PROVE  InOrder(queue'[u], q, got'[u][q], offered'[u][q])
    BY OrderIs
  <2>1. Open(u)   BY <1>1 DEF Open
  <2>2. InOrder(queue[u], q, got[u][q], offered[u][q])   BY <2>1, OrderIs DEF IInv
  <2>3. offered'[u][q] = offered[u][q]   BY <1>1, <1>2, <2>1
  <2> QED BY <1>1, <1>2, <2>2, <2>3
<1> QED BY <1>3, <1>4, <1>5, <1>6, <1>7, <1>8 DEF IInv

\* Full, and the notification is a PaneDirty: the thread is about to latch it.
LEMMA RefuseDirtyStep ==
    ASSUME IInv, NEW r \in Routers, Offer(r), Refuse(r, Head(todo[r])), note[r].kind = "dirty"
    PROVE  IInv'
<1> DEFINE s == Head(todo[r])
<1>1. /\ s \in Subs /\ todo[r] # <<>> /\ note[r] \in Note
      /\ offered' \in [Subs -> [Routers -> 0..MaxNotes]]
      /\ \A u \in Subs, q \in Routers : offered'[u][q] = offered[u][q]
      /\ news' \in [Subs -> SUBSET Panes]
      /\ \A u \in Subs : news'[u] = IF u = s THEN news[u] \union {note[r].pane} ELSE news[u]
      /\ UNCHANGED <<subs, state, latch, at, note, count, got>>
  BY Recorded
<1>2. refused' = [refused EXCEPT ![r] = TRUE] /\ UNCHANGED <<queue, todo>>
  BY DEF Refuse
<1>3. AbsentInv'   BY <1>2, AbsentStays
<1>4. note[r] = Dirty(note[r].pane)   BY <1>1, NoteKinds
<1>5. s = Head(todo'[r])   BY <1>2
<1> HIDE DEF s
<1>6. TypeInv'   BY <1>1, <1>2 DEF IInv, TypeInv
<1>7. ListInv'   BY <1>1, <1>2 DEF IInv, ListInv, NoneTwice, AllKnown
<1>8. \A q \in Routers : refused'[q] <=> refused[q] \/ q = r   BY <1>2 DEF IInv, TypeInv
<1>9. RefusedInv'   BY <1>1, <1>2, <1>8 DEF IInv, RefusedInv
<1>10. NewerInv'
  <2>1. \A q \in Routers : \A i \in 1..Len(todo[q]) : todo[q][i] \in Subs
    BY DEF IInv, TypeInv
  <2>2. \A q \in Routers : note'[q].kind = "reliable" =>
          \A i \in 1..Len(todo'[q]) : offered'[todo'[q][i]][q] < count'[q]
    <3> SUFFICES ASSUME NEW q \in Routers, note'[q].kind = "reliable",
                        NEW i \in 1..Len(todo'[q])
                 PROVE  offered'[todo'[q][i]][q] < count'[q]
      OBVIOUS
    <3>1. todo[q][i] \in Subs /\ todo'[q][i] = todo[q][i]   BY <1>2, <2>1
    <3>2. offered[todo[q][i]][q] < count[q]   BY <1>1, <1>2 DEF IInv, NewerInv
    <3> QED BY <1>1, <3>1, <3>2
  <2>3. \A q \in Routers :
          /\ note'[q].kind = "reliable" => note'[q].from = q /\ note'[q].id = count'[q]
          /\ \A u \in Subs : offered'[u][q] <= count'[q]
    BY <1>1 DEF IInv, NewerInv
  <2> QED BY <2>2, <2>3 DEF NewerInv
<1>11. DirtyIsKept'
  <2> SUFFICES ASSUME NEW u \in Subs, Open(u)', NEW p \in news'[u] PROVE Kept(u, p)'
    BY KeptIs
  <2>1. Open(u)   BY <1>1 DEF Open
  <2>2. CASE p \in news[u]
    <3>1. Kept(u, p)   BY <2>1, <2>2, KeptIs DEF IInv
    <3> QED BY <1>1, <1>2, <1>8, <3>1 DEF Kept
  <2>3. CASE p \notin news[u]
    <3>1. u = s /\ p = note[r].pane   BY <1>1, <2>3
    <3>2. refused'[r] /\ Head(todo'[r]) = u /\ note'[r] = Dirty(p)
      BY <1>1, <1>4, <1>5, <1>8, <3>1
    <3> QED BY <3>2 DEF Kept
  <2> QED BY <2>2, <2>3
<1>12. ReliableInOrder'
  <2> SUFFICES ASSUME NEW u \in Subs, NEW q \in Routers, Open(u)'
               PROVE  InOrder(queue'[u], q, got'[u][q], offered'[u][q])
    BY OrderIs
  <2>1. Open(u)   BY <1>1 DEF Open
  <2>2. InOrder(queue[u], q, got[u][q], offered[u][q])   BY <2>1, OrderIs DEF IInv
  <2> QED BY <1>1, <1>2, <2>2
<1> QED BY <1>3, <1>6, <1>7, <1>9, <1>10, <1>11, <1>12 DEF IInv

\* Full, and the notification may be lost.
LEMMA RefuseOutputStep ==
    ASSUME IInv, NEW r \in Routers, Offer(r), Refuse(r, Head(todo[r])), note[r].kind # "dirty"
    PROVE  IInv'
<1>1. note[r].kind # "reliable" /\ Advance(r) /\ UNCHANGED <<queue, refused>>
  BY DEF Refuse
<1>2. /\ todo[r] # <<>> /\ ~refused[r]
      /\ offered' \in [Subs -> [Routers -> 0..MaxNotes]]
      /\ \A u \in Subs, q \in Routers : offered'[u][q] = offered[u][q]
      /\ news' \in [Subs -> SUBSET Panes]
      /\ \A u \in Subs : news'[u] = news[u]
      /\ UNCHANGED <<subs, state, latch, at, note, count, got>>
  BY <1>1, Recorded
<1>3. /\ todo' \in [Routers -> Seq(Subs)] /\ ListInv'
      /\ \A q \in Routers \ {r} : todo'[q] = todo[q]
  BY <1>1, <1>2, Advanced
<1>4. AbsentInv' /\ NewerInv'   BY <1>1, AbsentStays, NewerStays
<1>5. TypeInv'   BY <1>1, <1>2, <1>3 DEF IInv, TypeInv
<1>6. RefusedInv'
  <2> SUFFICES ASSUME NEW q \in Routers, refused[q]
               PROVE  todo'[q] # <<>> /\ note'[q].kind = "dirty"
    BY <1>1 DEF RefusedInv
  <2> QED BY <1>2, <1>3 DEF IInv, RefusedInv
<1>7. DirtyIsKept'
  <2> SUFFICES ASSUME NEW u \in Subs, Open(u)', NEW p \in news'[u] PROVE Kept(u, p)'
    BY KeptIs
  <2>1. Open(u) /\ p \in news[u]   BY <1>2 DEF Open
  <2>2. Kept(u, p)   BY <2>1, KeptIs DEF IInv
  <2>3. \A q \in Routers : refused[q] => q # r   BY <1>2
  <2> QED BY <1>1, <1>2, <1>3, <2>2, <2>3 DEF Kept
<1>8. ReliableInOrder'
  <2> SUFFICES ASSUME NEW u \in Subs, NEW q \in Routers, Open(u)'
               PROVE  InOrder(queue'[u], q, got'[u][q], offered'[u][q])
    BY OrderIs
  <2>1. Open(u)   BY <1>2 DEF Open
  <2>2. InOrder(queue[u], q, got[u][q], offered[u][q])   BY <2>1, OrderIs DEF IInv
  <2> QED BY <1>1, <1>2, <2>2
<1> QED BY <1>3, <1>4, <1>5, <1>6, <1>7, <1>8 DEF IInv

LEMMA OfferStep == ASSUME IInv, NEW r \in Routers, Offer(r) PROVE IInv'
<1>1. \/ Enqueue(r, Head(todo[r])) \/ SkipClosed(r, Head(todo[r])) \/ Refuse(r, Head(todo[r]))
  BY DEF Offer
<1> QED BY <1>1, EnqueueStep, SkipClosedStep, RefuseDirtyStep, RefuseOutputStep

\* The latch takes over what the thread held.
LEMMA SetLatchStep == ASSUME IInv, NEW r \in Routers, SetLatch(r) PROVE IInv'
<1> DEFINE s == Head(todo[r])
<1>1. /\ refused[r] /\ latch' = [latch EXCEPT ![s] = @ \union {note[r].pane}]
      /\ refused' = [refused EXCEPT ![r] = FALSE] /\ Advance(r)
      /\ UNCHANGED <<subs, state, queue, at, note, count, offered, got, news>>
  BY DEF SetLatch
<1>2. todo[r] # <<>> /\ note[r].kind = "dirty"   BY <1>1 DEF IInv, RefusedInv
<1>3. s \in Subs   BY <1>2, ShiftedList DEF IInv, ListInv
<1>4. note[r].pane \in Panes   BY <1>2, NoteKinds DEF IInv, TypeInv
<1>5. /\ todo' \in [Routers -> Seq(Subs)] /\ ListInv'
      /\ \A q \in Routers \ {r} : todo'[q] = todo[q]
  BY <1>1, <1>2, Advanced
<1>6. \A p : Dirty(p).pane = p   BY DEF Dirty
<1>7. \A q \in Routers, u \in Subs : refused[q] /\ Head(todo[q]) = u => q # r \/ u = s
  OBVIOUS
<1> HIDE DEF s
<1>8. TypeInv'   BY <1>1, <1>3, <1>4, <1>5 DEF IInv, TypeInv
<1>9. AbsentInv'   BY <1>1 DEF IInv, AbsentInv
<1>10. \A q \in Routers : refused'[q] <=> refused[q] /\ q # r   BY <1>1 DEF IInv, TypeInv
<1>11. RefusedInv'   BY <1>1, <1>5, <1>10 DEF IInv, RefusedInv
<1>12. NewerInv'   BY <1>1, <1>2, <1>5 DEF IInv, NewerInv
<1>13. \A u \in Subs : latch'[u] = IF u = s THEN latch[u] \union {note[r].pane} ELSE latch[u]
  BY <1>1, <1>3 DEF IInv, TypeInv
<1>14. DirtyIsKept'
  <2> SUFFICES ASSUME NEW u \in Subs, Open(u)', NEW p \in news'[u] PROVE Kept(u, p)'
    BY KeptIs
  <2>1. Open(u) /\ p \in news[u]   BY <1>1 DEF Open
  <2>2. Kept(u, p)   BY <2>1, KeptIs DEF IInv
  <2>3. CASE p \in latch[u] \/ HasDirty(queue[u], p)   BY <1>1, <1>13, <2>3 DEF Kept
  <2>4. ASSUME NEW q \in Routers, refused[q], Head(todo[q]) = u, note[q] = Dirty(p)
        PROVE  Kept(u, p)'
    <3>1. CASE q = r
      <4>1. u = s /\ p = note[r].pane   BY <1>6, <1>7, <2>4, <3>1
      <4>2. p \in latch'[u]   BY <1>13, <4>1
      <4> QED BY <4>2 DEF Kept
    <3>2. CASE q # r
      <4>1. refused'[q] /\ Head(todo'[q]) = u /\ note'[q] = Dirty(p)
        BY <1>1, <1>5, <1>10, <2>4, <3>2
      <4> QED BY <4>1 DEF Kept
    <3> QED BY <3>1, <3>2
  <2> QED BY <2>2, <2>3, <2>4 DEF Kept
<1>15. ReliableInOrder'
  BY <1>1 DEF IInv, ReliableInOrder, Waiting, Open
<1> QED BY <1>5, <1>8, <1>9, <1>11, <1>12, <1>14, <1>15 DEF IInv

\* The receiver takes from the queue.
LEMMA TakeQueuedStep == ASSUME IInv, NEW s \in Subs, TakeQueued(s) PROVE IInv'
<1> DEFINE n == Head(queue[s])
<1>1. /\ Open(s) /\ queue[s] # <<>> /\ queue' = [queue EXCEPT ![s] = Tail(@)]
      /\ got' = IF n.kind = "reliable" THEN [got EXCEPT ![s][n.from] = n.id] ELSE got
      /\ news' = IF n.kind = "dirty" THEN [news EXCEPT ![s] = @ \ {n.pane}] ELSE news
      /\ UNCHANGED <<subs, state, latch, todo, note, refused, count, offered>>
  BY DEF TakeQueued, Receive, router
<1>2. queue[s] \in Seq(Note)   BY DEF IInv, TypeInv
<1>3. n \in Note /\ Tail(queue[s]) \in Seq(Note)   BY <1>1, <1>2, Shifted
<1>4. /\ n.kind = "reliable" => n.from \in Routers /\ n.id \in 0..MaxNotes
      /\ n.kind = "dirty" => n = Dirty(n.pane)
  BY <1>3, NoteKinds
<1>5. /\ queue' \in [Subs -> Seq(Note)] /\ queue'[s] = Tail(queue[s])
      /\ \A u \in Subs \ {s} : queue'[u] = queue[u]
  BY <1>1, <1>3 DEF IInv, TypeInv
<1> HIDE DEF n
<1>6. /\ got' \in [Subs -> [Routers -> 0..MaxNotes]]
      /\ \A u \in Subs, q \in Routers :
           got'[u][q] = IF u = s /\ n.kind = "reliable" /\ q = n.from THEN n.id ELSE got[u][q]
      /\ \A u \in Subs \ {s} : got'[u] = got[u]
  BY <1>1, <1>4 DEF IInv, TypeInv
<1>7. /\ news' \in [Subs -> SUBSET Panes]
      /\ \A u \in Subs : news'[u] = IF u = s /\ n.kind = "dirty"
                                    THEN news[u] \ {n.pane} ELSE news[u]
  BY <1>1 DEF IInv, TypeInv
<1>8. TypeInv'   BY <1>1, <1>5, <1>6, <1>7 DEF IInv, TypeInv
<1>9. ListInv' /\ RefusedInv' /\ NewerInv'
  BY <1>1 DEF IInv, ListInv, NoneTwice, AllKnown, RefusedInv, NewerInv
<1>10. AbsentInv'
  BY <1>1, <1>5, <1>6, <1>7 DEF IInv, AbsentInv, Open
<1>11. DirtyIsKept'
  <2> SUFFICES ASSUME NEW u \in Subs, Open(u)', NEW p \in news'[u] PROVE Kept(u, p)'
    BY KeptIs
  <2>1. Open(u) /\ p \in news[u]   BY <1>1, <1>7 DEF Open
  <2>2. Kept(u, p)   BY <2>1, KeptIs DEF IInv
  <2>3. HasDirty(queue[u], p) => HasDirty(queue'[u], p)
    <3>1. CASE u # s   BY <1>5, <3>1
    <3>2. CASE u = s
      <4>1. n # Dirty(p)   BY <1>7, <3>2 DEF Dirty
      <4>2. HasDirty(queue[s], p) => HasDirty(Tail(queue[s]), p)
        BY <1>1, <1>2, <4>1, DirtyTaken DEF n
      <4> QED BY <1>5, <3>2, <4>2
    <3> QED BY <3>1, <3>2
  <2> QED BY <1>1, <2>2, <2>3 DEF Kept
<1>12. ReliableInOrder'
  <2> SUFFICES ASSUME NEW u \in Subs, NEW q \in Routers, Open(u)'
               PROVE  InOrder(queue'[u], q, got'[u][q], offered'[u][q])
    BY OrderIs
  <2>1. Open(u)   BY <1>1 DEF Open
  <2>2. InOrder(queue[u], q, got[u][q], offered[u][q])   BY <2>1, OrderIs DEF IInv
  <2>3. CASE u # s   BY <1>1, <1>5, <1>6, <2>2, <2>3
  <2>4. CASE u = s /\ n.kind = "reliable" /\ n.from = q
    <3>1. InOrder(Tail(queue[s]), q, n.id, offered[s][q])
      BY <1>1, <1>2, <2>2, <2>4, OwnTaken DEF n
    <3>2. got'[s][q] = n.id   BY <1>6, <2>4
    <3> QED BY <1>1, <1>5, <2>4, <3>1, <3>2
  <2>5. CASE u = s /\ ~(n.kind = "reliable" /\ n.from = q)
    <3>1. InOrder(Tail(queue[s]), q, got[s][q], offered[s][q])
      BY <1>1, <1>2, <2>2, <2>5, OthersTaken DEF n
    <3>2. got'[s][q] = got[s][q]   BY <1>6, <2>5
    <3> QED BY <1>1, <1>5, <2>5, <3>1, <3>2
  <2> QED BY <2>3, <2>4, <2>5
<1> QED BY <1>8, <1>9, <1>10, <1>11, <1>12 DEF IInv

\* The receiver takes from the latch.
LEMMA TakeLatchedStep == ASSUME IInv, NEW s \in Subs, TakeLatched(s) PROVE IInv'
<1>1. PICK p \in latch[s] :
        /\ latch' = [latch EXCEPT ![s] = @ \ {p}]
        /\ news' = [news EXCEPT ![s] = @ \ {p}]
        /\ UNCHANGED <<subs, state, queue, todo, note, refused, count, offered, got>>
  BY DEF TakeLatched, Receive, router, Dirty
<1>2. \A u \in Subs : /\ news'[u] = IF u = s THEN news[u] \ {p} ELSE news[u]
                      /\ latch'[u] = IF u = s THEN latch[u] \ {p} ELSE latch[u]
  BY <1>1 DEF IInv, TypeInv
<1>3. TypeInv'   BY <1>1 DEF IInv, TypeInv
<1>4. ListInv' /\ RefusedInv' /\ NewerInv'
  BY <1>1 DEF IInv, ListInv, NoneTwice, AllKnown, RefusedInv, NewerInv
<1>5. AbsentInv'   BY <1>1, <1>2 DEF IInv, AbsentInv
<1>6. DirtyIsKept'
  <2> SUFFICES ASSUME NEW u \in Subs, Open(u)', NEW k \in news'[u] PROVE Kept(u, k)'
    BY KeptIs
  <2>1. Open(u) /\ k \in news[u] /\ (u = s => k # p)   BY <1>1, <1>2 DEF Open
  <2>2. Kept(u, k)   BY <2>1, KeptIs DEF IInv
  <2> QED BY <1>1, <1>2, <2>1, <2>2 DEF Kept
<1>7. ReliableInOrder'   BY <1>1 DEF IInv, ReliableInOrder, Waiting, Open
<1> QED BY <1>3, <1>4, <1>5, <1>6, <1>7 DEF IInv

\* The receiver's other steps only move it.
LEMMA WaitStep ==
    ASSUME IInv, NEW s \in Subs, FindEmpty(s) \/ FindUnlatched(s)
    PROVE  IInv'
<1>1. UNCHANGED <<subs, state, queue, latch, todo, note, refused, count, offered, got, news>>
  BY DEF FindEmpty, FindUnlatched, router
<1>2. TypeInv' /\ ListInv'   BY <1>1 DEF IInv, TypeInv, ListInv, NoneTwice, AllKnown
<1>3. AbsentInv' /\ RefusedInv' /\ NewerInv'
  BY <1>1 DEF IInv, AbsentInv, RefusedInv, NewerInv
<1>4. DirtyIsKept' /\ ReliableInOrder'
  BY <1>1 DEF IInv, DirtyIsKept, ReliableInOrder, Waiting, Open
<1> QED BY <1>2, <1>3, <1>4 DEF IInv

LEMMA Invariance == Spec => []IInv
<1>1. IInv /\ [Next]_vars => IInv'
  <2> SUFFICES ASSUME IInv, [Next]_vars PROVE IInv'   OBVIOUS
  <2>1. CASE UNCHANGED vars   BY <2>1, StutterStep
  <2>2. ASSUME NEW s \in Subs, Subscribe(s) \/ Drop(s) \/ Recv(s) PROVE IInv'
    BY <2>2, SubscribeStep, DropStep, TakeQueuedStep, TakeLatchedStep, WaitStep DEF Recv
  <2>3. ASSUME NEW r \in Routers, Route(r) \/ FanOut(r) PROVE IInv'
    BY <2>3, RouteStep, OfferStep, SetLatchStep DEF FanOut
  <2> QED BY <2>1, <2>2, <2>3 DEF Next
<1> QED BY <1>1, InitHolds, PTL DEF Spec

\* The bound of the queues, and where the receivers may be.
BoundInv ==
    /\ at \in [Subs -> {"outside", "recv", "try_recv", "waiting"}]
    /\ \A s \in Subs : Len(queue[s]) <= QueueCapacity

LEMMA BoundStep == ASSUME IInv, BoundInv, [Next]_vars PROVE BoundInv'
<1>0. QueueCapacity \in Nat   BY CapacityAssumption
<1>1. CASE UNCHANGED vars   BY <1>1 DEF vars, BoundInv
<1>2. ASSUME NEW s \in Subs, Subscribe(s) \/ Drop(s) PROVE BoundInv'
  BY <1>2 DEF Subscribe, Drop, BoundInv
<1>3. ASSUME NEW s \in Subs, TakeQueued(s) PROVE BoundInv'
  <2>1. /\ queue[s] # <<>> /\ queue' = [queue EXCEPT ![s] = Tail(@)]
        /\ at' = [at EXCEPT ![s] = "outside"]
    BY <1>3 DEF TakeQueued
  <2>2. queue[s] \in Seq(Note)   BY DEF IInv, TypeInv
  <2>3. Len(queue[s]) \in Nat \ {0} /\ Len(Tail(queue[s])) = Len(queue[s]) - 1
    BY <2>1, <2>2, Shifted
  <2>4. \A u \in Subs : queue'[u] = IF u = s THEN Tail(queue[s]) ELSE queue[u]
    BY <2>1 DEF IInv, TypeInv
  <2> QED BY <1>0, <2>1, <2>3, <2>4 DEF BoundInv
<1>4. ASSUME NEW s \in Subs, FindEmpty(s) PROVE BoundInv'   BY <1>4 DEF FindEmpty, BoundInv
<1>5. ASSUME NEW s \in Subs, FindUnlatched(s) PROVE BoundInv'
  BY <1>5 DEF FindUnlatched, BoundInv
<1>6. ASSUME NEW s \in Subs, TakeLatched(s) PROVE BoundInv'   BY <1>6 DEF TakeLatched, BoundInv
<1>7. ASSUME NEW r \in Routers, Route(r) \/ SetLatch(r) PROVE BoundInv'
  BY <1>7 DEF Route, SetLatch, BoundInv
<1>8. ASSUME NEW r \in Routers, Offer(r) PROVE BoundInv'
  <2> DEFINE s == Head(todo[r])
  <2>1. at' = at /\ s \in Subs /\ note[r] \in Note   BY <1>8, Recorded
  <2>2. Enqueue(r, s) \/ queue' = queue   BY <1>8 DEF Offer, SkipClosed, Refuse
  <2> HIDE DEF s
  <2>3. CASE Enqueue(r, s)
    <3>1. Len(queue[s]) < QueueCapacity /\ queue' = [queue EXCEPT ![s] = Append(@, note[r])]
      BY <2>3 DEF Enqueue
    <3>2. queue[s] \in Seq(Note)   BY <2>1 DEF IInv, TypeInv
    <3>3. Len(queue[s]) \in Nat /\ Len(Append(queue[s], note[r])) = Len(queue[s]) + 1
      BY <2>1, <3>2, Appended
    <3>4. \A u \in Subs : queue'[u] = IF u = s THEN Append(queue[s], note[r]) ELSE queue[u]
      BY <2>1, <3>1 DEF IInv, TypeInv
    <3> QED BY <1>0, <2>1, <3>1, <3>3, <3>4 DEF BoundInv
  <2>4. CASE queue' = queue   BY <2>1, <2>4 DEF BoundInv
  <2> QED BY <2>2, <2>3, <2>4
<1> QED
  BY <1>1, <1>2, <1>3, <1>4, <1>5, <1>6, <1>7, <1>8 DEF Next, Recv, FanOut

-----------------------------------------------------------------------------
(* The theorems. *)

\* A pane that fan_out_notification marked dirty for a live subscriber, and that
\* the subscriber has not heard of since, is in its queue, in its latch, or in
\* the hands of a thread that was refused and will set the latch: for any number
\* of fanning-out threads and however recv's two reads fall between try_send and
\* the latch.
THEOREM DirtyIsNeverLost == Spec => []DirtyIsKept
<1>1. IInv => DirtyIsKept   BY DEF IInv
<1> QED BY <1>1, Invariance, PTL

\* The reliable notifications of one thread reach a live subscriber in the order
\* of the fan-outs and none is skipped: what is queued is newer than what was
\* received, in order, and ends with the last one offered.  It is the blocking
\* send, and the copy of the pruned list having nobody twice, that give it.
THEOREM ReliableStaysInOrder == Spec => []ReliableInOrder
<1>1. IInv => ReliableInOrder   BY DEF IInv
<1> QED BY <1>1, Invariance, PTL

\* Types, and the bound on memory: no interleaving of threads that test a queue
\* for room and append to it takes it past NOTIFICATION_QUEUE_CAPACITY.
THEOREM TypeCorrect == Spec => []TypeOK
<1>1. Init => BoundInv   BY CapacityAssumption DEF Init, BoundInv
<1>2. IInv /\ BoundInv /\ [Next]_vars => BoundInv'   BY BoundStep
<1>3. IInv /\ BoundInv => TypeOK   BY DEF IInv, TypeInv, BoundInv, TypeOK
<1> QED BY <1>1, <1>2, <1>3, Invariance, PTL DEF Spec
=============================================================================
