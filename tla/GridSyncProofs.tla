--------------------------- MODULE GridSyncProofs ---------------------------
(***************************************************************************)
(* Proofs about GridSync, for every set of texts, sizes and render states, *)
(* every ring capacity and every bound.                                    *)
(*                                                                         *)
(* The argument: the ring is contiguous up to the published generation; a  *)
(* row's last entry carries its current text unless the row waits in the   *)
(* synchronized-update window; entries after the last full one fit the     *)
(* emulator's size.  From these, an answer of fetch_update never leaves a  *)
(* view with a difference that no later fetch repairs.                     *)
(***************************************************************************)
EXTENDS GridSync, WellFoundedInduction, TLAPS

-----------------------------------------------------------------------------
(* The inductive invariant. *)

\* The entries of ring rg are the last generations up to current.
ContiguousIn(rg, current) ==
    /\ Len(rg) <= Capacity
    /\ current > 0 => Len(rg) > 0
    /\ \A i \in 1..Len(rg) : rg[i].gen = current - (Len(rg) - i)

EntriesIn(rg) ==
    /\ rg \in Seq({rg[i] : i \in DOMAIN rg})
    /\ \A i \in 1..Len(rg) : IsEntry(rg[i])

\* The last entry with row r carries the row's text, unless r waits in rows.
RowsCurrentIn(t, rg, rows) ==
    \A i \in 1..Len(rg) : \A r \in DOMAIN rg[i].rows :
        (/\ r \in 1..t.rows /\ r \notin rows
         /\ \A j \in 1..Len(rg) : j > i => r \notin DOMAIN rg[j].rows)
        => rg[i].rows[r].text = t.cells[r]

\* Entries not followed by a full one fit the emulator's size.
EntriesFitIn(t, rg) ==
    \A i \in 1..Len(rg) :
        (\A j \in 1..Len(rg) : j > i => ~rg[j].full) =>
            \A r \in DOMAIN rg[i].rows :
                r \in 1..t.rows /\ rg[i].rows[r].cols = t.cols

-----------------------------------------------------------------------------
(* Facts about natural numbers and sequences. *)

\* A non-empty set of natural numbers has a least element.
LEMMA NatMin ==
    ASSUME NEW T, T \subseteq Nat, T # {}
    PROVE  \E x \in T : \A y \in T : x <= y
<1>1. PICK x \in T : \A y \in T : ~ (<<y, x>> \in OpToRel(<, Nat))
  BY WFMin, NatLessThanWellFounded
<1>2. \A y \in T : ~ (y < x)
  BY <1>1 DEF OpToRel
<1> QED BY <1>2

\* A non-empty set of positions has a last one.
LEMMA IntervalMax ==
    ASSUME NEW n \in Nat, NEW S, S \subseteq 1..n, S # {}
    PROVE  \E m \in S : \A x \in S : x <= m
<1> DEFINE T == {n - x : x \in S}
<1>1. T \subseteq Nat
  OBVIOUS
<1>2. T # {}
  <2>1. PICK x \in S : TRUE
    OBVIOUS
  <2>2. n - x \in T
    BY <2>1
  <2> QED BY <2>2
<1>3. PICK t \in T : \A y \in T : t <= y
  <2> HIDE DEF T
  <2> QED BY <1>1, <1>2, NatMin
<1>4. PICK m \in S : t = n - m
  OBVIOUS
<1>5. \A x \in S : n - m <= n - x
  BY <1>3, <1>4
<1> QED BY <1>5

\* push_entry: the entries move down by d, and the new one comes last.
LEMMA PushShape ==
    ASSUME NEW rg, NEW e, NEW current \in Nat,
           EntriesIn(rg), ContiguousIn(rg, current), IsEntry(e)
    PROVE  LET rg2 == PushEntry(rg, e)
           IN  /\ EntriesIn(rg2)
               /\ Len(rg2) \in 1..Capacity
               /\ \E d \in {0, 1} :
                    /\ d <= Len(rg)
                    /\ Len(rg2) = Len(rg) + 1 - d
                    /\ \A k \in 1..Len(rg2) :
                         rg2[k] = IF k + d = Len(rg) + 1 THEN e ELSE rg[k + d]
<1> DEFINE S == {rg[i] : i \in DOMAIN rg} \cup {e}
           all == Append(rg, e)
           rg2 == PushEntry(rg, e)
<1>1. rg \in Seq(S) /\ Len(rg) \in Nat /\ Len(rg) <= Capacity
  BY DEF EntriesIn, ContiguousIn
<1>2. /\ all \in Seq(S) /\ Len(all) = Len(rg) + 1
      /\ \A k \in 1..Len(all) : all[k] = IF k = Len(rg) + 1 THEN e ELSE rg[k]
  BY <1>1
<1>3. PICK d \in {0, 1} :
        /\ d <= Len(rg)
        /\ rg2 \in Seq(S)
        /\ Len(rg2) = Len(rg) + 1 - d
        /\ Len(rg2) \in 1..Capacity
        /\ \A k \in 1..Len(rg2) :
              rg2[k] = IF k + d = Len(rg) + 1 THEN e ELSE rg[k + d]
  <2> HIDE DEF S
  <2>1. CASE Len(all) > Capacity
    <3>1. rg2 = Tail(all)
      BY <2>1 DEF PushEntry
    <3>2. /\ Tail(all) \in Seq(S) /\ Len(Tail(all)) = Len(all) - 1
          /\ \A k \in 1..Len(Tail(all)) : Tail(all)[k] = all[k + 1]
      BY <1>1, <1>2
    <3>3. Len(rg) = Capacity /\ Len(rg) >= 1
      BY <1>1, <1>2, <2>1, CapacityAssumption
    <3> HIDE DEF all, rg2
    <3> QED BY <1>1, <1>2, <3>1, <3>2, <3>3, CapacityAssumption
  <2>2. CASE ~(Len(all) > Capacity)
    <3>1. rg2 = all
      BY <2>2 DEF PushEntry
    <3> HIDE DEF all, rg2
    <3> QED BY <1>1, <1>2, <2>2, <3>1, CapacityAssumption
  <2> QED BY <2>1, <2>2
<1>4. \A k \in 1..Len(rg2) : IsEntry(rg2[k])
  <2> HIDE DEF rg2, S
  <2> QED BY <1>1, <1>3 DEF EntriesIn
<1>5. rg2 \in Seq({rg2[i] : i \in DOMAIN rg2})
  <2> HIDE DEF rg2, S
  <2> QED BY <1>3
<1> HIDE DEF rg2, S
<1> QED BY <1>3, <1>4, <1>5 DEF EntriesIn, rg2

-----------------------------------------------------------------------------
(* What publishing a generation does to the ring. *)

\* push_entry keeps the ring's generations consecutive and within its capacity.
LEMMA PushContiguous ==
    ASSUME NEW rg, NEW e, NEW current \in Nat,
           EntriesIn(rg), ContiguousIn(rg, current), IsEntry(e),
           e.gen = current + 1
    PROVE  ContiguousIn(PushEntry(rg, e), current + 1)
<1> DEFINE rg2 == PushEntry(rg, e)
<1>0. /\ Len(rg2) \in 1..Capacity
      /\ \E d \in {0, 1} :
            /\ d <= Len(rg)
            /\ Len(rg2) = Len(rg) + 1 - d
            /\ \A k \in 1..Len(rg2) :
                 rg2[k] = IF k + d = Len(rg) + 1 THEN e ELSE rg[k + d]
  BY PushShape, SMTT(60)
<1>1. PICK d \in {0, 1} :
        /\ Len(rg2) \in 1..Capacity /\ Len(rg2) = Len(rg) + 1 - d
        /\ \A k \in 1..Len(rg2) :
              rg2[k] = IF k + d = Len(rg) + 1 THEN e ELSE rg[k + d]
  <2> HIDE DEF rg2
  <2> QED BY <1>0
<1>2. Len(rg) \in Nat /\ \A i \in 1..Len(rg) : rg[i].gen = current - (Len(rg) - i)
  BY DEF ContiguousIn, EntriesIn
<1> HIDE DEF rg2
<1>3. \A k \in 1..Len(rg2) : rg2[k].gen = current + 1 - (Len(rg2) - k)
  <2> TAKE k \in 1..Len(rg2)
  <2>1. CASE k + d = Len(rg) + 1
    BY <1>1, <1>2, <2>1
  <2>2. CASE k + d # Len(rg) + 1
    <3>1. k + d \in 1..Len(rg) /\ rg2[k] = rg[k + d]
      BY <1>1, <1>2, <2>2
    <3> QED BY <1>1, <1>2, <3>1
  <2> QED BY <2>1, <2>2
<1>4. Len(rg2) <= Capacity /\ Len(rg2) > 0
  BY <1>1
<1> QED BY <1>3, <1>4 DEF ContiguousIn, rg2

\* An unseen entry stays in the ring, or its loss makes the next fetch full.
LEMMA PushKeepsUnseen ==
    ASSUME NEW rg, NEW e, NEW current \in Nat, NEW g \in Nat, g <= current,
           EntriesIn(rg), ContiguousIn(rg, current), IsEntry(e),
           e.gen = current + 1,
           ~NeedsFull(PushEntry(rg, e), g, current + 1)
    PROVE  LET rg2 == PushEntry(rg, e)
           IN  /\ g # 0
               /\ \A i \in Newer(rg, g) : \E k \in Newer(rg2, g) : rg2[k] = rg[i]
               /\ \E k \in Newer(rg2, g) : rg2[k] = e
               /\ ~NeedsFull(rg, g, current)
               /\ ~e.full
<1> DEFINE rg2 == PushEntry(rg, e)
<1>0. /\ Len(rg2) \in 1..Capacity
      /\ \E d \in {0, 1} :
            /\ d <= Len(rg)
            /\ Len(rg2) = Len(rg) + 1 - d
            /\ \A k \in 1..Len(rg2) :
                 rg2[k] = IF k + d = Len(rg) + 1 THEN e ELSE rg[k + d]
  BY PushShape, SMTT(60)
<1>1. PICK d \in {0, 1} :
        /\ Len(rg2) \in 1..Capacity /\ Len(rg2) = Len(rg) + 1 - d
        /\ \A k \in 1..Len(rg2) :
              rg2[k] = IF k + d = Len(rg) + 1 THEN e ELSE rg[k + d]
  <2> HIDE DEF rg2
  <2> QED BY <1>0
<1>2. Len(rg) \in Nat /\ \A i \in 1..Len(rg) : rg[i].gen = current - (Len(rg) - i)
  BY DEF ContiguousIn, EntriesIn
<1>3. ContiguousIn(rg2, current + 1)
  BY PushContiguous
<1>4. \A k \in 1..Len(rg2) : rg2[k].gen = current + 1 - (Len(rg2) - k)
  BY <1>3 DEF ContiguousIn
<1>5. /\ g # 0 /\ rg2 # <<>> /\ ~(g + 1 < rg2[1].gen)
      /\ \A i \in Newer(rg2, g) : ~rg2[i].full
  BY <1>1 DEF NeedsFull
<1> HIDE DEF rg2
<1>6. \A i \in Newer(rg, g) : i - d \in Newer(rg2, g) /\ rg2[i - d] = rg[i]
  <2> SUFFICES ASSUME NEW i \in Newer(rg, g)
               PROVE  i - d \in Newer(rg2, g) /\ rg2[i - d] = rg[i]
    OBVIOUS
  <2>1. i \in 1..Len(rg) /\ rg[i].gen > g
    BY DEF Newer
  <2>2. i - d >= 1
    <3> SUFFICES ASSUME d = 1, i = 1 PROVE FALSE
      BY <1>1, <1>2, <2>1
    <3>1. rg2[1].gen = current + 1 - (Len(rg) - 1)
      BY <1>1, <1>2, <1>4
    <3>2. rg[1].gen = current - (Len(rg) - 1)
      BY <1>2, <2>1
    <3> QED BY <1>2, <1>5, <2>1, <3>1, <3>2
  <2>3. i - d \in 1..Len(rg2) /\ rg2[i - d] = rg[i]
    BY <1>1, <1>2, <2>1, <2>2
  <2> QED BY <2>1, <2>3 DEF Newer
<1>7. Len(rg2) \in Newer(rg2, g) /\ rg2[Len(rg2)] = e
  BY <1>1, <1>2 DEF Newer
<1>8. ~e.full
  BY <1>5, <1>7
<1>9. ~NeedsFull(rg, g, current)
  <2>1. \A i \in Newer(rg, g) : ~rg[i].full
    BY <1>5, <1>6
  <2>2. ~(rg # <<>> /\ g + 1 < rg[1].gen)
    <3> SUFFICES ASSUME Len(rg) >= 1 PROVE ~(g + 1 < rg[1].gen)
      BY <1>2 DEF EntriesIn
    <3>1. rg2[1].gen = current + 1 - (Len(rg2) - 1)
      BY <1>1, <1>4
    <3>2. rg[1].gen = current - (Len(rg) - 1)
      BY <1>2
    <3> QED BY <1>1, <1>2, <1>5, <3>1, <3>2
  <2> QED BY <1>5, <2>1, <2>2 DEF NeedsFull
<1> QED BY <1>5, <1>6, <1>7, <1>8, <1>9 DEF rg2

\* A published change is covered for every view, whatever it has seen.
LEMMA PushCovers ==
    ASSUME NEW rg, NEW e, NEW current \in Nat, NEW g \in Nat, g <= current,
           EntriesIn(rg), ContiguousIn(rg, current), IsEntry(e),
           e.gen = current + 1,
           NEW s, NEW t, NEW t2, NEW rows, NEW rows2,
           NEW full \in BOOLEAN, NEW full2 \in BOOLEAN,
           CoversIn(g, s, t, current, rg, rows, full),
           e.full \/ /\ t2.rows = t.rows /\ t2.cols = t.cols
                     /\ full => full2
                     /\ full2 \/ (t2.meta = t.meta /\ HistoryOf(t2) = HistoryOf(t)),
           \A r \in 1..t2.rows :
                r \in DOMAIN e.rows \/ r \in rows2
                \/ (t2.cells[r] = t.cells[r] /\ r \notin rows)
    PROVE  CoversIn(g, s, t2, current + 1, PushEntry(rg, e), rows2, full2)
<1> DEFINE rg2 == PushEntry(rg, e)
<1> SUFFICES ASSUME ~NeedsFull(rg2, g, current + 1)
             PROVE  CoversIn(g, s, t2, current + 1, rg2, rows2, full2)
  BY DEF CoversIn
<1>1. /\ \A i \in Newer(rg, g) : \E k \in Newer(rg2, g) : rg2[k] = rg[i]
      /\ \E k \in Newer(rg2, g) : rg2[k] = e
      /\ ~NeedsFull(rg, g, current)
      /\ ~e.full
  BY PushKeepsUnseen
<1> HIDE DEF rg2
<1>2. /\ s.rows = t.rows /\ s.cols = t.cols
      /\ full \/ (HistoryOf(s) = HistoryOf(t) /\ s.meta = t.meta)
      /\ \A r \in 1..t.rows :
            \/ s.cells[r] = t.cells[r]
            \/ r \in rows
            \/ \E i \in Newer(rg, g) : r \in DOMAIN rg[i].rows
  BY <1>1 DEF CoversIn
<1>3. \A r \in 1..t2.rows :
            \/ s.cells[r] = t2.cells[r]
            \/ r \in rows2
            \/ \E i \in Newer(rg2, g) : r \in DOMAIN rg2[i].rows
  <2> TAKE r \in 1..t2.rows
  <2>1. CASE r \in DOMAIN e.rows
    BY <1>1, <2>1
  <2>2. CASE r \in rows2
    BY <2>2
  <2>3. CASE t2.cells[r] = t.cells[r] /\ r \notin rows
    <3>1. r \in 1..t.rows
      BY <1>1
    <3> QED BY <1>1, <1>2, <2>3, <3>1
  <2> QED BY <2>1, <2>2, <2>3
<1>4. full2 \/ (HistoryOf(s) = HistoryOf(t2) /\ s.meta = t2.meta)
  BY <1>1, <1>2
<1> QED BY <1>1, <1>2, <1>3, <1>4 DEF CoversIn

\* A change kept in the synchronized-update window is covered by the window.
LEMMA WindowCovers ==
    ASSUME NEW rg, NEW current, NEW g,
           NEW s, NEW t, NEW t2, NEW rows, NEW rows2,
           NEW full \in BOOLEAN, NEW full2 \in BOOLEAN,
           CoversIn(g, s, t, current, rg, rows, full),
           t2.rows = t.rows, t2.cols = t.cols,
           full => full2,
           full2 \/ (t2.meta = t.meta /\ HistoryOf(t2) = HistoryOf(t)),
           \A r \in 1..t2.rows :
                r \in rows2 \/ (t2.cells[r] = t.cells[r] /\ r \notin rows)
    PROVE  CoversIn(g, s, t2, current, rg, rows2, full2)
<1> SUFFICES ASSUME ~NeedsFull(rg, g, current)
             PROVE  CoversIn(g, s, t2, current, rg, rows2, full2)
  BY DEF CoversIn
<1>1. /\ s.rows = t.rows /\ s.cols = t.cols
      /\ full \/ (HistoryOf(s) = HistoryOf(t) /\ s.meta = t.meta)
      /\ \A r \in 1..t.rows :
            \/ s.cells[r] = t.cells[r]
            \/ r \in rows
            \/ \E i \in Newer(rg, g) : r \in DOMAIN rg[i].rows
  BY DEF CoversIn
<1>2. \A r \in 1..t2.rows :
            \/ s.cells[r] = t2.cells[r]
            \/ r \in rows2
            \/ \E i \in Newer(rg, g) : r \in DOMAIN rg[i].rows
  BY <1>1
<1>3. full2 \/ (HistoryOf(s) = HistoryOf(t2) /\ s.meta = t2.meta)
  BY <1>1
<1> QED BY <1>1, <1>2, <1>3 DEF CoversIn

\* Publishing keeps the last entry of every row current.
LEMMA PushRowsCurrent ==
    ASSUME NEW rg, NEW e, NEW current \in Nat,
           EntriesIn(rg), ContiguousIn(rg, current), IsEntry(e),
           NEW t, NEW t2, NEW rows, NEW rows2,
           RowsCurrentIn(t, rg, rows),
           \A r \in DOMAIN e.rows : e.rows[r].text = t2.cells[r],
           \A r \in 1..t2.rows :
                r \in DOMAIN e.rows \/ r \in rows2
                \/ (r \in 1..t.rows /\ t2.cells[r] = t.cells[r] /\ r \notin rows)
    PROVE  RowsCurrentIn(t2, PushEntry(rg, e), rows2)
<1> DEFINE rg2 == PushEntry(rg, e)
<1>0. /\ Len(rg2) \in 1..Capacity
      /\ \E d \in {0, 1} :
            /\ d <= Len(rg)
            /\ Len(rg2) = Len(rg) + 1 - d
            /\ \A k \in 1..Len(rg2) :
                 rg2[k] = IF k + d = Len(rg) + 1 THEN e ELSE rg[k + d]
  BY PushShape, SMTT(60)
<1>1. PICK d \in {0, 1} :
        /\ Len(rg2) \in 1..Capacity /\ Len(rg2) = Len(rg) + 1 - d
        /\ \A k \in 1..Len(rg2) :
              rg2[k] = IF k + d = Len(rg) + 1 THEN e ELSE rg[k + d]
  <2> HIDE DEF rg2
  <2> QED BY <1>0
<1>2. Len(rg) \in Nat
  BY DEF EntriesIn
<1> HIDE DEF rg2
<1>3. SUFFICES ASSUME NEW k \in 1..Len(rg2), NEW r \in DOMAIN rg2[k].rows,
                      r \in 1..t2.rows, r \notin rows2,
                      \A j \in 1..Len(rg2) : j > k => r \notin DOMAIN rg2[j].rows
               PROVE  rg2[k].rows[r].text = t2.cells[r]
  BY DEF RowsCurrentIn, rg2
<1>4. CASE k + d = Len(rg) + 1
  BY <1>1, <1>3, <1>4
<1>5. CASE k + d # Len(rg) + 1
  <2>1. k + d \in 1..Len(rg) /\ rg2[k] = rg[k + d] /\ Len(rg2) > k
    BY <1>1, <1>2, <1>5
  <2>2. rg2[Len(rg2)] = e
    BY <1>1, <1>2
  <2>3. r \notin DOMAIN e.rows
    BY <1>1, <1>3, <2>1, <2>2
  <2>4. r \in 1..t.rows /\ t2.cells[r] = t.cells[r] /\ r \notin rows
    BY <1>3, <2>3
  <2>5. \A j \in 1..Len(rg) : j > k + d => r \notin DOMAIN rg[j].rows
    <3> SUFFICES ASSUME NEW j \in 1..Len(rg), j > k + d
                 PROVE  r \notin DOMAIN rg[j].rows
      OBVIOUS
    <3>1. j - d \in 1..Len(rg2) /\ rg2[j - d] = rg[j] /\ j - d > k
      BY <1>1, <1>2
    <3> QED BY <1>3, <3>1
  <2> QED BY <1>3, <2>1, <2>4, <2>5 DEF RowsCurrentIn
<1> QED BY <1>4, <1>5

\* Publishing keeps the entries after the last full one at the grid's size.
LEMMA PushEntriesFit ==
    ASSUME NEW rg, NEW e, NEW current \in Nat,
           EntriesIn(rg), ContiguousIn(rg, current), IsEntry(e),
           NEW t, NEW t2, EntriesFitIn(t, rg),
           \A r \in DOMAIN e.rows : r \in 1..t2.rows /\ e.rows[r].cols = t2.cols,
           e.full \/ (t2.rows = t.rows /\ t2.cols = t.cols)
    PROVE  EntriesFitIn(t2, PushEntry(rg, e))
<1> DEFINE rg2 == PushEntry(rg, e)
<1>0. /\ Len(rg2) \in 1..Capacity
      /\ \E d \in {0, 1} :
            /\ d <= Len(rg)
            /\ Len(rg2) = Len(rg) + 1 - d
            /\ \A k \in 1..Len(rg2) :
                 rg2[k] = IF k + d = Len(rg) + 1 THEN e ELSE rg[k + d]
  BY PushShape, SMTT(60)
<1>1. PICK d \in {0, 1} :
        /\ Len(rg2) \in 1..Capacity /\ Len(rg2) = Len(rg) + 1 - d
        /\ \A k \in 1..Len(rg2) :
              rg2[k] = IF k + d = Len(rg) + 1 THEN e ELSE rg[k + d]
  <2> HIDE DEF rg2
  <2> QED BY <1>0
<1>2. Len(rg) \in Nat
  BY DEF EntriesIn
<1> HIDE DEF rg2
<1>3. SUFFICES ASSUME NEW k \in 1..Len(rg2),
                      \A j \in 1..Len(rg2) : j > k => ~rg2[j].full,
                      NEW r \in DOMAIN rg2[k].rows
               PROVE  r \in 1..t2.rows /\ rg2[k].rows[r].cols = t2.cols
  BY DEF EntriesFitIn, rg2
<1>4. CASE k + d = Len(rg) + 1
  BY <1>1, <1>3, <1>4
<1>5. CASE k + d # Len(rg) + 1
  <2>1. k + d \in 1..Len(rg) /\ rg2[k] = rg[k + d] /\ Len(rg2) > k
    BY <1>1, <1>2, <1>5
  <2>2. rg2[Len(rg2)] = e
    BY <1>1, <1>2
  <2>3. ~e.full
    BY <1>1, <1>3, <2>1, <2>2
  <2>4. \A j \in 1..Len(rg) : j > k + d => ~rg[j].full
    <3> SUFFICES ASSUME NEW j \in 1..Len(rg), j > k + d
                 PROVE  ~rg[j].full
      OBVIOUS
    <3>1. j - d \in 1..Len(rg2) /\ rg2[j - d] = rg[j] /\ j - d > k
      BY <1>1, <1>2
    <3> QED BY <1>3, <3>1
  <2> QED BY <1>3, <2>1, <2>3, <2>4 DEF EntriesFitIn
<1> QED BY <1>4, <1>5

-----------------------------------------------------------------------------
(* What fetch_update answers. *)

\* Every merged row comes from the last unseen entry that has it.
LEMMA LastWithExists ==
    ASSUME NEW rg, EntriesIn(rg), NEW g, NEW i0 \in Newer(rg, g),
           NEW r \in DOMAIN rg[i0].rows
    PROVE  LET i == LastWith(rg, g, r)
           IN  /\ i \in Newer(rg, g) /\ r \in DOMAIN rg[i].rows
               /\ \A j \in Newer(rg, g) : r \in DOMAIN rg[j].rows => j <= i
<1> DEFINE S == {i \in Newer(rg, g) : r \in DOMAIN rg[i].rows}
<1>1. Len(rg) \in Nat /\ S \subseteq 1..Len(rg) /\ S # {}
  BY DEF EntriesIn, Newer
<1>2. \E m \in S : \A x \in S : x <= m
  <2> HIDE DEF S
  <2> QED BY <1>1, IntervalMax
<1> QED BY <1>2 DEF LastWith

\* A diff fits the view that asked for it and leaves nothing uncovered.
LEMMA FetchDiff ==
    ASSUME NEW rg, EntriesIn(rg), NEW current \in Nat, ContiguousIn(rg, current),
           NEW t, NEW s, IsSnapshot(t), IsSnapshot(s), NEW rows,
           NEW full \in BOOLEAN, NEW g \in Nat,
           RowsCurrentIn(t, rg, rows), EntriesFitIn(t, rg),
           ~NeedsFull(rg, g, current),
           CoversIn(g, s, t, current, rg, rows, full)
    PROVE  LET d == MergedRows(rg, g)
           IN  /\ IsDiff(d)
               /\ DiffFits(s, d)
               /\ CoversIn(current, WithRows(s, d), t, current, rg, rows, full)
<1> DEFINE d == MergedRows(rg, g)
<1>1. /\ s.rows = t.rows /\ s.cols = t.cols
      /\ full \/ (HistoryOf(s) = HistoryOf(t) /\ s.meta = t.meta)
      /\ \A r \in 1..t.rows :
            \/ s.cells[r] = t.cells[r]
            \/ r \in rows
            \/ \E i \in Newer(rg, g) : r \in DOMAIN rg[i].rows
  BY DEF CoversIn
<1>2. /\ \A r : r \in DOMAIN d <=> \E i \in Newer(rg, g) : r \in DOMAIN rg[i].rows
      /\ \A r \in DOMAIN d : d[r] = rg[LastWith(rg, g, r)].rows[r]
      /\ d = [r \in DOMAIN d |-> d[r]]
  BY DEF MergedRows
<1> HIDE DEF d
<1>3. \A i \in Newer(rg, g) : i \in 1..Len(rg) /\ ~rg[i].full /\ IsEntry(rg[i])
  BY DEF NeedsFull, Newer, EntriesIn
<1>4. ASSUME NEW r \in DOMAIN d
      PROVE  /\ r \in 1..t.rows /\ r \in Nat
             /\ d[r] \in RowChange /\ d[r].cols = t.cols
             /\ r \in rows \/ d[r].text = t.cells[r]
  <2> DEFINE i == LastWith(rg, g, r)
  <2>1. /\ i \in Newer(rg, g) /\ r \in DOMAIN rg[i].rows
        /\ \A j \in Newer(rg, g) : r \in DOMAIN rg[j].rows => j <= i
    BY <1>2, LastWithExists
  <2>2. d[r] = rg[i].rows[r]
    BY <1>2
  <2> HIDE DEF i
  <2>3. i \in 1..Len(rg) /\ Len(rg) \in Nat
    BY <1>3, <2>1 DEF EntriesIn
  <2>4. \A j \in 1..Len(rg) : j > i => j \in Newer(rg, g)
    BY <2>1, <2>3 DEF Newer, ContiguousIn
  <2>5. \A j \in 1..Len(rg) : j > i => ~rg[j].full /\ r \notin DOMAIN rg[j].rows
    BY <1>3, <2>1, <2>3, <2>4
  <2>6. r \in 1..t.rows /\ rg[i].rows[r].cols = t.cols
    BY <2>1, <2>3, <2>5 DEF EntriesFitIn
  <2>7. r \in rows \/ rg[i].rows[r].text = t.cells[r]
    BY <2>1, <2>3, <2>5, <2>6 DEF RowsCurrentIn
  <2>8. rg[i].rows[r] \in RowChange /\ r \in Nat
    BY <1>3, <2>1 DEF IsEntry, IsDiff
  <2> QED BY <2>2, <2>6, <2>7, <2>8
<1>5. IsDiff(d)
  BY <1>2, <1>4 DEF IsDiff
<1>6. DiffFits(s, d)
  BY <1>1, <1>4 DEF DiffFits
<1>7. /\ WithRows(s, d).rows = s.rows /\ WithRows(s, d).cols = s.cols
      /\ WithRows(s, d).meta = s.meta
      /\ HistoryOf(WithRows(s, d)) = HistoryOf(s)
      /\ \A r \in 1..s.rows : WithRows(s, d).cells[r] =
            IF r \in DOMAIN d THEN d[r].text ELSE s.cells[r]
  BY DEF WithRows, HistoryOf, IsSnapshot
<1>8. \A r \in 1..t.rows : WithRows(s, d).cells[r] = t.cells[r] \/ r \in rows
  BY <1>1, <1>2, <1>4, <1>7
<1> QED BY <1>1, <1>5, <1>6, <1>7, <1>8 DEF CoversIn, d

-----------------------------------------------------------------------------
(* The invariant of the composed system, and its preservation. *)

\* The window's record is empty when nothing is pending.
PendingOK == ~pSync => pRows = {} /\ ~pFull

\* The view's generation, history and response stay between its past and the
\* server's present; what the fetch task holds matches where it is.
ClientOK ==
    /\ cgen <= gen /\ csnap.hver <= term.hver
    /\ chist = HistoryOf(csnap)
    /\ phase \in {"idle", "request", "retry", "gaveup"} => resp = NoResp
    /\ phase = "response" => resp # NoResp
    /\ phase \in {"history", "confirm"} => resp.kind = "full"
    /\ resp # NoResp => cgen <= resp.to /\ resp.to <= gen
    /\ resp.kind = "full" => /\ csnap.hver <= resp.snap.hver
                             /\ resp.snap.hver <= term.hver

RowsCurrent == RowsCurrentIn(term, ring, pRows)
EntriesFit  == EntriesFitIn(term, ring)

IInv == /\ TypeOK
        /\ RingContiguous
        /\ PendingOK
        /\ RowsCurrent
        /\ EntriesFit
        /\ ClientOK
        /\ DiffAlwaysFits
        /\ NoLostUpdate

\* diff_from_dirty yields an entry of the emulator's size and content.
LEMMA DiffFromDirtyFits ==
    ASSUME NEW t, IsSnapshot(t), NEW dirty
    PROVE  LET d == DiffFromDirty(t, dirty)
           IN  /\ IsDiff(d)
               /\ DOMAIN d = dirty \cap (1..t.rows)
               /\ \A r \in DOMAIN d : d[r].text = t.cells[r] /\ d[r].cols = t.cols
<1> DEFINE d == DiffFromDirty(t, dirty)
<1>1. /\ DOMAIN d = dirty \cap (1..t.rows)
      /\ \A r \in DOMAIN d : d[r] = [cols |-> t.cols, text |-> t.cells[r]]
      /\ d = [r \in DOMAIN d |-> d[r]]
  BY DEF DiffFromDirty
<1>2. t.rows \in Nat /\ t.cols \in Nat /\ \A r \in 1..t.rows : t.cells[r] \in Texts
  BY DEF IsSnapshot
<1> HIDE DEF d
<1>3. ASSUME NEW r \in DOMAIN d
      PROVE  r \in Nat /\ d[r] \in RowChange
  <2>1. r \in 1..t.rows /\ d[r] = [cols |-> t.cols, text |-> t.cells[r]]
    BY <1>1
  <2>2. t.cols \in Nat /\ t.cells[r] \in Texts /\ r \in Nat
    BY <1>2, <2>1
  <2> QED BY <2>1, <2>2 DEF RowChange
<1>4. IsDiff(d)
  BY <1>1, <1>3 DEF IsDiff
<1>5. ASSUME NEW r \in DOMAIN d
      PROVE  d[r].text = t.cells[r] /\ d[r].cols = t.cols
  <2>1. d[r] = [cols |-> t.cols, text |-> t.cells[r]]
    BY <1>1
  <2> QED BY <2>1
<1> QED BY <1>1, <1>4, <1>5 DEF d

\* A step that publishes the emulator's new state keeps the invariant when
\* what the entry does not carry stays as it was or in the window.
LEMMA PublishStep ==
    ASSUME IInv, NEW dirty, NEW full \in BOOLEAN,
           IsSnapshot(term'), term'.hver >= term.hver,
           Publish(term', dirty, full),
           UNCHANGED client,
           inSync' \in BOOLEAN, pSync' \in BOOLEAN, pFull' \in BOOLEAN,
           pRows' \subseteq Nat, owes' \subseteq {"reader", "rpc"},
           wake' \subseteq {"queue", "latch"},
           PendingOK',
           full \/ /\ term'.rows = term.rows /\ term'.cols = term.cols
                   /\ pFull => pFull'
                   /\ pFull' \/ /\ term'.meta = term.meta
                                /\ HistoryOf(term') = HistoryOf(term),
           \A r \in 1..term'.rows :
                r \in dirty \/ r \in pRows'
                \/ /\ r \in 1..term.rows
                   /\ term'.cells[r] = term.cells[r]
                   /\ r \notin pRows
    PROVE  IInv'
<1> DEFINE e == [gen |-> gen + 1, full |-> full, rows |-> DiffFromDirty(term', dirty)]
<1>1. /\ ring' = PushEntry(ring, e) /\ gen' = gen + 1
      /\ gen \in Nat /\ pFull \in BOOLEAN
      /\ EntriesIn(ring) /\ ContiguousIn(ring, gen)
  BY DEF IInv, TypeOK, RingContiguous, Publish, EntriesIn, ContiguousIn
<1>2. /\ cgen' = cgen /\ csnap' = csnap /\ chist' = chist /\ phase' = phase
      /\ resp' = resp /\ nextRow' = nextRow /\ fpend' = fpend /\ faults' = faults
  BY DEF client
<1>3. /\ IsEntry(e) /\ e.gen = gen + 1 /\ e.full = full
      /\ DOMAIN e.rows = dirty \cap (1..term'.rows)
      /\ \A r \in DOMAIN e.rows : /\ e.rows[r].text = term'.cells[r]
                                  /\ e.rows[r].cols = term'.cols
  <2>1. /\ IsDiff(e.rows) /\ DOMAIN e.rows = dirty \cap (1..term'.rows)
        /\ \A r \in DOMAIN e.rows : /\ e.rows[r].text = term'.cells[r]
                                    /\ e.rows[r].cols = term'.cols
    <3> DEFINE d == DiffFromDirty(term', dirty)
    <3>1. /\ IsDiff(d) /\ DOMAIN d = dirty \cap (1..term'.rows)
          /\ \A r \in DOMAIN d : d[r].text = term'.cells[r] /\ d[r].cols = term'.cols
      <4>1. IsSnapshot(term')
        OBVIOUS
      <4> QED BY ONLY <4>1, DiffFromDirtyFits
    <3>2. e.rows = d
      OBVIOUS
    <3> HIDE DEF d, e
    <3> QED BY <3>1, <3>2
  <2>2. e.gen = gen + 1 /\ e.full = full /\ gen + 1 \in Nat
    BY <1>1
  <2>3. e = [gen |-> e.gen, full |-> e.full, rows |-> e.rows]
    OBVIOUS
  <2> HIDE DEF e
  <2> QED BY <2>1, <2>2, <2>3 DEF IsEntry
<1> HIDE DEF e
<1>4. EntriesIn(ring') /\ ContiguousIn(ring', gen')
  BY <1>1, <1>3, PushShape, PushContiguous
<1>5. RowsCurrentIn(term', ring', pRows')
  <2>1. \A r \in 1..term'.rows :
          r \in DOMAIN e.rows \/ r \in pRows'
          \/ (r \in 1..term.rows /\ term'.cells[r] = term.cells[r] /\ r \notin pRows)
    BY <1>3
  <2> QED BY <1>1, <1>3, <2>1, PushRowsCurrent DEF IInv, RowsCurrent
<1>6. EntriesFitIn(term', ring')
  BY <1>1, <1>3, PushEntriesFit DEF IInv, EntriesFit
<1>7. ASSUME NEW g \in Nat, g <= gen, NEW s,
             CoversIn(g, s, term, gen, ring, pRows, pFull)
      PROVE  CoversIn(g, s, term', gen', ring', pRows', pFull')
  <2>1. \A r \in 1..term'.rows :
          r \in DOMAIN e.rows \/ r \in pRows'
          \/ (term'.cells[r] = term.cells[r] /\ r \notin pRows)
    BY <1>3
  <2> QED BY <1>1, <1>3, <1>7, <2>1, PushCovers
<1>8. TypeOK'
  BY <1>1, <1>2, <1>4 DEF IInv, TypeOK, EntriesIn
<1>9. RingContiguous'
  BY <1>4 DEF RingContiguous, ContiguousIn
<1>10. ClientOK'
  <2>1. /\ gen \in Nat /\ cgen \in Nat
        /\ term.hver \in Nat /\ term'.hver \in Nat /\ csnap.hver \in Nat
    BY DEF IInv, TypeOK, IsSnapshot
  <2>2. resp # NoResp => resp.to \in Nat
    BY DEF IInv, TypeOK, IsResponse
  <2>3. resp.kind = "full" => resp.snap.hver \in Nat
    <3>1. resp.kind = "full" => IsSnapshot(resp.snap)
      BY DEF IInv, TypeOK, IsResponse, NoResp
    <3> QED BY <3>1 DEF IsSnapshot
  <2>4. ClientOK
    BY DEF IInv
  <2> QED BY <1>1, <1>2, <2>1, <2>2, <2>3, <2>4 DEF ClientOK
<1>11. DiffAlwaysFits'
  BY <1>2 DEF IInv, DiffAlwaysFits
<1>12. NoLostUpdate'
  <2>1. /\ cgen \in Nat /\ cgen <= gen
        /\ resp.kind \in {"full", "diff"} => resp.to \in Nat /\ resp.to <= gen
    BY DEF IInv, TypeOK, ClientOK, IsResponse, NoResp
  <2>2. /\ CoversIn(cgen, csnap, term, gen, ring, pRows, pFull)
        /\ resp.kind = "full" =>
              CoversIn(resp.to, resp.snap, term, gen, ring, pRows, pFull)
        /\ resp.kind = "diff" =>
              CoversIn(resp.to, WithRows(csnap, resp.rows), term, gen, ring, pRows, pFull)
    BY DEF IInv, NoLostUpdate, Covers
  <2>3. /\ CoversIn(cgen, csnap, term', gen', ring', pRows', pFull')
        /\ resp.kind = "full" =>
              CoversIn(resp.to, resp.snap, term', gen', ring', pRows', pFull')
        /\ resp.kind = "diff" =>
              CoversIn(resp.to, WithRows(csnap, resp.rows), term', gen', ring', pRows', pFull')
    BY <1>7, <2>1, <2>2
  <2> QED BY <1>2, <2>3 DEF NoLostUpdate, Covers
<1> QED BY <1>5, <1>6, <1>8, <1>9, <1>10, <1>11, <1>12
        DEF IInv, RowsCurrent, EntriesFit

\* A step of the reader that keeps its change in the window, or changes
\* nothing, keeps the invariant.
LEMMA WindowStep ==
    ASSUME IInv, UNCHANGED <<gen, ring, client>>,
           IsSnapshot(term'), term'.hver >= term.hver,
           term'.rows = term.rows, term'.cols = term.cols,
           inSync' \in BOOLEAN, pSync' \in BOOLEAN, pFull' \in BOOLEAN,
           pRows' \subseteq Nat, owes' \subseteq {"reader", "rpc"},
           wake' \subseteq {"queue", "latch"},
           PendingOK',
           pFull => pFull',
           pFull' \/ (term'.meta = term.meta /\ HistoryOf(term') = HistoryOf(term)),
           \A r \in 1..term'.rows :
                r \in pRows' \/ (term'.cells[r] = term.cells[r] /\ r \notin pRows)
    PROVE  IInv'
<1>1. /\ cgen' = cgen /\ csnap' = csnap /\ chist' = chist /\ phase' = phase
      /\ resp' = resp /\ nextRow' = nextRow /\ fpend' = fpend /\ faults' = faults
      /\ gen' = gen /\ ring' = ring
  BY DEF client
<1>2. gen \in Nat /\ pFull \in BOOLEAN
  BY DEF IInv, TypeOK
<1>3. RowsCurrentIn(term', ring, pRows')
  BY DEF IInv, RowsCurrent, RowsCurrentIn
<1>4. EntriesFitIn(term', ring)
  BY DEF IInv, EntriesFit, EntriesFitIn
<1>5. ASSUME NEW g, NEW s,
             CoversIn(g, s, term, gen, ring, pRows, pFull)
      PROVE  CoversIn(g, s, term', gen, ring, pRows', pFull')
  BY <1>2, <1>5, WindowCovers
<1>6. TypeOK'
  BY <1>1 DEF IInv, TypeOK
<1>7. RingContiguous'
  BY <1>1 DEF IInv, RingContiguous
<1>8. ClientOK'
  <2>1. /\ gen \in Nat /\ cgen \in Nat
        /\ term.hver \in Nat /\ term'.hver \in Nat /\ csnap.hver \in Nat
    BY DEF IInv, TypeOK, IsSnapshot
  <2>2. resp.kind = "full" => resp.snap.hver \in Nat
    <3>1. resp.kind = "full" => IsSnapshot(resp.snap)
      BY DEF IInv, TypeOK, IsResponse, NoResp
    <3> QED BY <3>1 DEF IsSnapshot
  <2>3. ClientOK
    BY DEF IInv
  <2> QED BY <1>1, <2>1, <2>2, <2>3 DEF ClientOK
<1>9. DiffAlwaysFits'
  BY <1>1 DEF IInv, DiffAlwaysFits
<1>10. NoLostUpdate'
  <2>1. /\ CoversIn(cgen, csnap, term, gen, ring, pRows, pFull)
        /\ resp.kind = "full" =>
              CoversIn(resp.to, resp.snap, term, gen, ring, pRows, pFull)
        /\ resp.kind = "diff" =>
              CoversIn(resp.to, WithRows(csnap, resp.rows), term, gen, ring, pRows, pFull)
    BY DEF IInv, NoLostUpdate, Covers
  <2>2. /\ CoversIn(cgen, csnap, term', gen, ring, pRows', pFull')
        /\ resp.kind = "full" =>
              CoversIn(resp.to, resp.snap, term', gen, ring, pRows', pFull')
        /\ resp.kind = "diff" =>
              CoversIn(resp.to, WithRows(csnap, resp.rows), term', gen, ring, pRows', pFull')
    BY <1>5, <2>1
  <2> QED BY <1>1, <2>2 DEF NoLostUpdate, Covers
<1> QED BY <1>1, <1>3, <1>4, <1>6, <1>7, <1>8, <1>9, <1>10
        DEF IInv, RowsCurrent, EntriesFit

-----------------------------------------------------------------------------
(* The publishers. *)

\* A PTY batch (process_pty_bytes), published or held back.
LEMMA ProcessPtyBytesStep == ASSUME IInv, ProcessPtyBytes PROVE IInv'
<1>1. PICK dirty \in SUBSET (1..term.rows), meta \in Metas, hlen \in 0..MaxHistory,
           hist \in BOOLEAN, media \in BOOLEAN, ended \in BOOLEAN, sync \in BOOLEAN :
        Batch(dirty, meta, hist, hlen, media, ended, sync)
  BY DEF ProcessPtyBytes
<1> DEFINE stateChanged == meta # term.meta \/ hist
           changed == dirty # {} \/ stateChanged \/ media
<1>2. PICK cells \in [1..term.rows -> Texts] :
        /\ \A r \in 1..term.rows : cells[r] # term.cells[r] => r \in dirty
        /\ hlen # term.hlen => hist
        /\ term' = [rows |-> term.rows, cols |-> term.cols, cells |-> cells,
                    meta |-> meta, hlen |-> hlen,
                    hver |-> IF hist THEN term.hver + 1 ELSE term.hver]
  BY <1>1 DEF Batch, Advance
<1>3. /\ IsSnapshot(term) /\ term.hver \in Nat /\ term.rows \in Nat
      /\ pSync \in BOOLEAN /\ pFull \in BOOLEAN /\ pRows \subseteq Nat
      /\ owes \subseteq {"reader", "rpc"} /\ wake \subseteq {"queue", "latch"}
  BY DEF IInv, TypeOK, IsSnapshot
<1>4. /\ IsSnapshot(term') /\ term'.hver >= term.hver
      /\ term'.rows = term.rows /\ term'.cols = term.cols
      /\ term'.cells = cells /\ term'.meta = meta
      /\ ~hist => HistoryOf(term') = HistoryOf(term)
  <2>1. hlen \in Nat
    BY BoundsAssumption
  <2>2. /\ term.rows \in Nat /\ term.cols \in Nat /\ term.hver \in Nat
        /\ <<term.rows, term.cols>> \in Sizes
    BY <1>3 DEF IsSnapshot
  <2> QED BY <1>2, <2>1, <2>2 DEF IsSnapshot, HistoryOf
<1>5. /\ inSync' \in BOOLEAN /\ owes' \subseteq {"reader", "rpc"}
      /\ wake' \subseteq {"queue", "latch"} /\ UNCHANGED client
      /\ dirty \subseteq Nat
  BY <1>1, <1>3 DEF Batch
<1>6. CASE /\ sync /\ ~ended
           /\ pSync' = (pSync \/ changed)
           /\ pRows' = (IF changed THEN pRows \cup dirty ELSE pRows)
           /\ pFull' = (pFull \/ stateChanged)
           /\ UNCHANGED <<gen, ring>>
  <2>1. pRows' = pRows \cup dirty
    BY <1>6
  <2>2. /\ pSync' \in BOOLEAN /\ pFull' \in BOOLEAN /\ pRows' \subseteq Nat
        /\ pFull => pFull'
    BY <1>3, <1>5, <1>6, <2>1
  <2>3. PendingOK'
    BY <1>3, <1>6, <2>1 DEF IInv, PendingOK
  <2>4. pFull' \/ (term'.meta = term.meta /\ HistoryOf(term') = HistoryOf(term))
    BY <1>4, <1>6
  <2>5. \A r \in 1..term'.rows :
           r \in pRows' \/ (term'.cells[r] = term.cells[r] /\ r \notin pRows)
    BY <1>2, <1>4, <2>1
  <2> QED BY <1>4, <1>5, <1>6, <2>2, <2>3, <2>4, <2>5, WindowStep
<1>7. CASE /\ Publish(term', pRows \cup dirty, pFull \/ stateChanged)
           /\ pSync' = FALSE /\ pRows' = {} /\ pFull' = FALSE
  <2>1. /\ pSync' \in BOOLEAN /\ pFull' \in BOOLEAN /\ pRows' \subseteq Nat
        /\ PendingOK'
    BY <1>7 DEF PendingOK
  <2>2. (pFull \/ stateChanged)
        \/ /\ term'.rows = term.rows /\ term'.cols = term.cols
           /\ pFull => pFull'
           /\ pFull' \/ (term'.meta = term.meta /\ HistoryOf(term') = HistoryOf(term))
    BY <1>4
  <2>3. \A r \in 1..term'.rows :
           r \in pRows \cup dirty \/ r \in pRows'
           \/ (r \in 1..term.rows /\ term'.cells[r] = term.cells[r] /\ r \notin pRows)
    BY <1>2, <1>4
  <2>4. (pFull \/ stateChanged) \in BOOLEAN
    BY <1>3
  <2> HIDE DEF stateChanged
  <2> QED BY <1>4, <1>5, <1>7, <2>1, <2>2, <2>3, <2>4, PublishStep
<1>8. CASE ~changed /\ UNCHANGED <<gen, ring, pSync, pRows, pFull>>
  <2>1. /\ pSync' \in BOOLEAN /\ pFull' \in BOOLEAN /\ pRows' \subseteq Nat
        /\ pFull => pFull'
        /\ PendingOK'
    BY <1>3, <1>8 DEF IInv, PendingOK
  <2>2. term'.meta = term.meta /\ HistoryOf(term') = HistoryOf(term)
    BY <1>4, <1>8
  <2>3. \A r \in 1..term'.rows :
           r \in pRows' \/ (term'.cells[r] = term.cells[r] /\ r \notin pRows)
    BY <1>2, <1>4, <1>8
  <2> QED BY <1>4, <1>5, <1>8, <2>1, <2>2, <2>3, WindowStep
<1> QED BY <1>1, <1>6, <1>7, <1>8 DEF Batch

\* The forced flush of a synchronized update that timed out.
LEMMA BsuTimeoutStep == ASSUME IInv, BsuTimeout PROVE IInv'
<1>1. /\ IsSnapshot(term) /\ IsSnapshot(term') /\ term' = term /\ term.hver \in Nat
      /\ pSync \in BOOLEAN /\ pFull \in BOOLEAN /\ pRows \subseteq Nat
      /\ inSync' \in BOOLEAN /\ owes' \subseteq {"reader", "rpc"}
      /\ wake' \subseteq {"queue", "latch"} /\ UNCHANGED client
  BY DEF IInv, TypeOK, IsSnapshot, BsuTimeout
<1>2. CASE pSync
  <2>1. /\ Publish(term', pRows, pFull)
        /\ pSync' = FALSE /\ pRows' = {} /\ pFull' = FALSE
    BY <1>1, <1>2 DEF BsuTimeout
  <2>2. PendingOK' /\ pSync' \in BOOLEAN /\ pFull' \in BOOLEAN /\ pRows' \subseteq Nat
    BY <2>1 DEF PendingOK
  <2>3. pFull \/ /\ term'.rows = term.rows /\ term'.cols = term.cols
                 /\ pFull => pFull'
                 /\ pFull' \/ /\ term'.meta = term.meta
                              /\ HistoryOf(term') = HistoryOf(term)
    BY <1>1
  <2>4. \A r \in 1..term'.rows :
           r \in pRows \/ r \in pRows'
           \/ (r \in 1..term.rows /\ term'.cells[r] = term.cells[r] /\ r \notin pRows)
    BY <1>1
  <2>5. term'.hver >= term.hver
    BY <1>1
  <2> QED BY <1>1, <2>1, <2>2, <2>3, <2>4, <2>5, PublishStep
<1>3. CASE ~pSync
  <2>1. UNCHANGED <<gen, ring, pSync, pRows, pFull>>
    BY <1>3 DEF BsuTimeout
  <2>2. PendingOK' /\ pRows' = {} /\ pRows = {}
    BY <1>3, <2>1 DEF IInv, PendingOK
  <2>3. pFull' \in BOOLEAN /\ pSync' \in BOOLEAN /\ (pFull => pFull')
    BY <1>1, <2>1
  <2> QED BY <1>1, <2>1, <2>2, <2>3, WindowStep
<1> QED BY <1>1, <1>2, <1>3

\* Pane::resize: a generation that only a full snapshot can bring.
LEMMA ResizeStep == ASSUME IInv, Resize PROVE IInv'
<1>1. PICK s \in Sizes, meta \in Metas, hlen \in 0..MaxHistory :
        \E cells \in [1..s[1] -> Texts] :
            /\ term' = [rows |-> s[1], cols |-> s[2], cells |-> cells,
                        meta |-> meta, hver |-> term.hver + 1, hlen |-> hlen]
            /\ Publish(term', 1..s[1], TRUE)
            /\ owes' = owes \cup {"rpc"}
            /\ UNCHANGED <<inSync, pSync, pRows, pFull, wake, client>>
  BY DEF Resize
<1>2. PICK cells \in [1..s[1] -> Texts] :
            /\ term' = [rows |-> s[1], cols |-> s[2], cells |-> cells,
                        meta |-> meta, hver |-> term.hver + 1, hlen |-> hlen]
            /\ Publish(term', 1..s[1], TRUE)
            /\ owes' = owes \cup {"rpc"}
            /\ UNCHANGED <<inSync, pSync, pRows, pFull, wake, client>>
  BY <1>1
<1>3. /\ s[1] \in Nat /\ s[2] \in Nat /\ <<s[1], s[2]>> \in Sizes /\ hlen \in Nat
      /\ term.hver \in Nat
  <2>1. s \in Nat \X Nat
    BY SizesAssumption
  <2>2. s = <<s[1], s[2]>> /\ s[1] \in Nat /\ s[2] \in Nat
    BY <2>1
  <2>3. hlen \in Nat
    BY BoundsAssumption
  <2>4. term.hver \in Nat
    BY DEF IInv, TypeOK, IsSnapshot
  <2> QED BY <2>2, <2>3, <2>4
<1>4. IsSnapshot(term') /\ term'.hver >= term.hver /\ term'.rows = s[1]
  BY <1>2, <1>3 DEF IsSnapshot
<1>5. /\ inSync' \in BOOLEAN /\ pSync' \in BOOLEAN /\ pFull' \in BOOLEAN
      /\ pRows' \subseteq Nat /\ owes' \subseteq {"reader", "rpc"}
      /\ wake' \subseteq {"queue", "latch"} /\ UNCHANGED client /\ PendingOK'
  BY <1>2 DEF IInv, TypeOK, PendingOK
<1> QED BY <1>2, <1>4, <1>5, PublishStep

\* set_scrollback_capacity: a new history version and a full snapshot.
LEMMA SetScrollbackCapacityStep ==
    ASSUME IInv, SetScrollbackCapacity PROVE IInv'
<1>1. PICK hlen \in 0..term.hlen :
        /\ term' = [term EXCEPT !.hver = @ + 1, !.hlen = hlen]
        /\ Publish(term', 1..term.rows, TRUE)
        /\ owes' = owes \cup {"rpc"}
        /\ UNCHANGED <<inSync, pSync, pRows, pFull, wake, client>>
  BY DEF SetScrollbackCapacity
<1>2. IsSnapshot(term) /\ term.hver \in Nat /\ term.hlen \in Nat
  BY DEF IInv, TypeOK, IsSnapshot
<1>3. hlen \in Nat
  BY <1>2
<1>4. IsSnapshot(term') /\ term'.hver >= term.hver /\ term'.rows = term.rows
  <2>1. term' = [rows |-> term.rows, cols |-> term.cols, cells |-> term.cells,
                 meta |-> term.meta, hver |-> term.hver + 1, hlen |-> hlen]
    BY <1>1, <1>2 DEF IsSnapshot
  <2> QED BY <1>2, <1>3, <2>1 DEF IsSnapshot
<1>5. /\ inSync' \in BOOLEAN /\ pSync' \in BOOLEAN /\ pFull' \in BOOLEAN
      /\ pRows' \subseteq Nat /\ owes' \subseteq {"reader", "rpc"}
      /\ wake' \subseteq {"queue", "latch"} /\ UNCHANGED client /\ PendingOK'
  BY <1>1 DEF IInv, TypeOK, PendingOK
<1> QED BY <1>1, <1>4, <1>5, PublishStep

\* set_title publishes past rows a synchronized update holds back.
LEMMA SetTitleStep == ASSUME IInv, SetTitle PROVE IInv'
<1>1. PICK who \in {"reader", "rpc"} :
        /\ Publish(term, 1..term.rows, FALSE)
        /\ owes' = owes \cup {who}
        /\ UNCHANGED <<term, inSync, pSync, pRows, pFull, wake, client>>
  BY DEF SetTitle
<1>2. /\ IsSnapshot(term') /\ term' = term /\ term.hver \in Nat
      /\ inSync' \in BOOLEAN /\ pSync' \in BOOLEAN /\ pFull' \in BOOLEAN
      /\ pRows' \subseteq Nat /\ owes' \subseteq {"reader", "rpc"}
      /\ wake' \subseteq {"queue", "latch"} /\ UNCHANGED client
  BY <1>1 DEF IInv, TypeOK, IsSnapshot
<1>3. PendingOK' /\ pFull' = pFull /\ pRows' = pRows
  BY <1>1 DEF IInv, PendingOK
<1>4. Publish(term', 1..term.rows, FALSE)
  BY <1>1, <1>2
<1>5. \A r \in 1..term'.rows :
        r \in 1..term.rows \/ r \in pRows'
        \/ (r \in 1..term.rows /\ term'.cells[r] = term.cells[r] /\ r \notin pRows)
  BY <1>2
<1>6. /\ term'.rows = term.rows /\ term'.cols = term.cols
      /\ pFull => pFull'
      /\ pFull' \/ (term'.meta = term.meta /\ HistoryOf(term') = HistoryOf(term))
      /\ term'.hver >= term.hver
  BY <1>2, <1>3
<1> QED BY <1>2, <1>3, <1>4, <1>5, <1>6, PublishStep

-----------------------------------------------------------------------------
(* The client. *)

\* A step that leaves the server and the view's state alone, and keeps the
\* response or drops it, keeps the invariant.
LEMMA TaskStep ==
    ASSUME IInv, UNCHANGED <<server, cgen, csnap, chist>>,
           owes' \subseteq {"reader", "rpc"},
           wake' \subseteq {"queue", "latch"},
           phase' \in {"idle", "request", "response", "history", "confirm", "retry",
                       "gaveup"},
           nextRow' \in Nat, fpend' \in BOOLEAN, faults' \in Nat,
           \/ resp' = NoResp /\ phase' \in {"idle", "request", "retry", "gaveup"}
           \/ resp' = resp /\ phase' = phase
           \/ resp' = resp /\ resp.kind = "full" /\ phase' \in {"history", "confirm"}
           \/ /\ resp' = resp /\ phase \in {"idle", "retry", "gaveup"} /\ phase' = "request"
    PROVE  IInv'
<1>1. /\ term' = term /\ gen' = gen /\ ring' = ring /\ inSync' = inSync
      /\ pSync' = pSync /\ pRows' = pRows /\ pFull' = pFull
      /\ cgen' = cgen /\ csnap' = csnap /\ chist' = chist
  BY DEF server
<1>2. resp' = resp \/ resp' = NoResp
  OBVIOUS
<1>3. TypeOK'
  BY <1>1, <1>2 DEF IInv, TypeOK, IsResponse
<1>4. RingContiguous' /\ PendingOK' /\ RowsCurrent' /\ EntriesFit'
  BY <1>1 DEF IInv, RingContiguous, PendingOK, RowsCurrent, EntriesFit
<1>5. ClientOK'
  <2>1. ClientOK
    BY DEF IInv
  <2>2. "full" # NoResp.kind
    BY DEF NoResp
  <2> QED BY <1>1, <2>1, <2>2 DEF ClientOK
<1>6. DiffAlwaysFits'
  BY <1>1, <1>2 DEF IInv, DiffAlwaysFits, NoResp
<1>7. NoLostUpdate'
  BY <1>1, <1>2 DEF IInv, NoLostUpdate, Covers, NoResp
<1> QED BY <1>3, <1>4, <1>5, <1>6, <1>7 DEF IInv

\* A signal reaches the view and changes nothing else.
LEMMA BroadcastStep == ASSUME IInv, Broadcast PROVE IInv'
<1>1. /\ UNCHANGED <<server, cgen, csnap, chist>> /\ wake' \subseteq {"queue", "latch"}
      /\ owes' \subseteq {"reader", "rpc"}
      /\ resp' = resp /\ phase' = phase
      /\ nextRow' \in Nat /\ fpend' \in BOOLEAN /\ faults' \in Nat
      /\ phase' \in {"idle", "request", "response", "history", "confirm", "retry",
                       "gaveup"}
  BY DEF Broadcast, IInv, TypeOK, client
<1> QED BY <1>1, TaskStep

\* schedule_fetch starts a fetch or remembers the signal.
LEMMA NotifiedStep == ASSUME IInv, Notified PROVE IInv'
<1>1. /\ UNCHANGED <<server, cgen, csnap, chist>> /\ wake' \subseteq {"queue", "latch"}
      /\ owes' \subseteq {"reader", "rpc"}
      /\ resp' = resp
      /\ nextRow' \in Nat /\ fpend' \in BOOLEAN /\ faults' \in Nat
      /\ phase' \in {"idle", "request", "response", "history", "confirm", "retry",
                       "gaveup"}
      /\ phase' = phase \/ (phase \in {"idle", "retry", "gaveup"} /\ phase' = "request")
  BY DEF Notified, IInv, TypeOK, InFlight
<1> QED BY <1>1, TaskStep

\* The retry timer starts a fetch like a signal does.
LEMMA RetryFetchStep == ASSUME IInv, RetryFetch PROVE IInv'
<1>1. /\ UNCHANGED <<server, cgen, csnap, chist>> /\ wake' \subseteq {"queue", "latch"}
      /\ owes' \subseteq {"reader", "rpc"}
      /\ resp' = resp /\ phase = "retry" /\ phase' = "request"
      /\ nextRow' \in Nat /\ fpend' \in BOOLEAN /\ faults' \in Nat
  BY DEF RetryFetch, IInv, TypeOK
<1> QED BY <1>1, TaskStep

\* Ending the task without applying anything.
LEMMA FinishStep ==
    ASSUME IInv, NEW retry \in BOOLEAN, Finish(retry),
           UNCHANGED <<server, owes, wake, cgen, csnap, chist>>, faults' \in Nat
    PROVE  IInv'
<1>1. /\ wake' \subseteq {"queue", "latch"} /\ owes' \subseteq {"reader", "rpc"}
      /\ resp' = NoResp /\ phase' \in {"idle", "request", "retry", "gaveup"}
      /\ nextRow' \in Nat /\ fpend' \in BOOLEAN
  BY DEF Finish, IInv, TypeOK
<1> QED BY <1>1, TaskStep

\* Giving up likewise applies nothing.
LEMMA GiveUpStep ==
    ASSUME IInv, GiveUp,
           UNCHANGED <<server, owes, wake, cgen, csnap, chist>>, faults' \in Nat
    PROVE  IInv'
<1>1. /\ wake' \subseteq {"queue", "latch"} /\ owes' \subseteq {"reader", "rpc"}
      /\ resp' = NoResp /\ phase' \in {"idle", "request", "retry", "gaveup"}
      /\ nextRow' \in Nat /\ fpend' \in BOOLEAN
  BY DEF GiveUp, IInv, TypeOK
<1> QED BY <1>1, TaskStep

\* fetch_update answers from the ring: the response in flight is safe.
LEMMA ServeFetchStep == ASSUME IInv, ServeFetch PROVE IInv'
<1>1. /\ term' = term /\ gen' = gen /\ ring' = ring /\ inSync' = inSync
      /\ pSync' = pSync /\ pRows' = pRows /\ pFull' = pFull
      /\ owes' = owes /\ wake' = wake /\ nextRow' = nextRow
      /\ fpend' = fpend /\ faults' = faults
      /\ cgen' = cgen /\ csnap' = csnap /\ chist' = chist
      /\ phase' = "response" /\ resp' = FetchUpdate(ring, cgen, gen, term)
  BY DEF ServeFetch, server
<1>2. /\ IsSnapshot(term) /\ IsSnapshot(csnap) /\ gen \in Nat /\ cgen \in Nat
      /\ EntriesIn(ring) /\ ContiguousIn(ring, gen) /\ pFull \in BOOLEAN
      /\ RowsCurrentIn(term, ring, pRows) /\ EntriesFitIn(term, ring)
      /\ CoversIn(cgen, csnap, term, gen, ring, pRows, pFull)
      /\ cgen <= gen /\ csnap.hver <= term.hver /\ chist = HistoryOf(csnap)
  BY DEF IInv, TypeOK, RingContiguous, EntriesIn, ContiguousIn, RowsCurrent,
         EntriesFit, NoLostUpdate, Covers, ClientOK
<1>3. /\ RingContiguous' /\ PendingOK' /\ RowsCurrent' /\ EntriesFit'
      /\ Covers(cgen, csnap)'
  BY <1>1, <1>2 DEF IInv, RingContiguous, PendingOK, RowsCurrent, EntriesFit, Covers
<1>4. SUFFICES /\ IsResponse(resp') /\ resp' # NoResp /\ resp'.to = gen
               /\ resp'.kind = "full" =>
                    /\ resp'.snap = term
                    /\ CoversIn(gen, term, term, gen, ring, pRows, pFull)
               /\ resp'.kind = "diff" =>
                    /\ DiffFits(csnap, resp'.rows)
                    /\ CoversIn(gen, WithRows(csnap, resp'.rows), term, gen,
                                ring, pRows, pFull)
  <2>1. TypeOK'
    BY <1>1, <1>4 DEF IInv, TypeOK
  <2>2. ClientOK'
    <3>1. term.hver \in Nat
      BY <1>2 DEF IsSnapshot
    <3> QED BY <1>1, <1>2, <1>4, <3>1 DEF ClientOK
  <2>3. DiffAlwaysFits'
    BY <1>1, <1>2, <1>4 DEF DiffAlwaysFits
  <2>4. NoLostUpdate'
    BY <1>1, <1>3, <1>4 DEF NoLostUpdate, Covers
  <2> QED BY <1>3, <2>1, <2>2, <2>3, <2>4 DEF IInv
<1>5. CASE cgen # 0 /\ cgen = gen
  <2>1. resp' = [kind |-> "nochange", to |-> gen]
    BY <1>1, <1>5 DEF FetchUpdate
  <2> QED BY <1>2, <2>1 DEF IsResponse, NoResp
<1>6. CASE ~(cgen # 0 /\ cgen = gen) /\ NeedsFull(ring, cgen, gen)
  <2>1. resp' = [kind |-> "full", to |-> gen, snap |-> term]
    BY <1>1, <1>6 DEF FetchUpdate
  <2>2. CoversIn(gen, term, term, gen, ring, pRows, pFull)
    BY DEF CoversIn
  <2> QED BY <1>2, <2>1, <2>2 DEF IsResponse, NoResp
<1>7. CASE ~(cgen # 0 /\ cgen = gen) /\ ~NeedsFull(ring, cgen, gen)
  <2> DEFINE d == MergedRows(ring, cgen)
  <2>1. resp' = [kind |-> "diff", to |-> gen, rows |-> d]
    BY <1>1, <1>7 DEF FetchUpdate
  <2>2. /\ IsDiff(d) /\ DiffFits(csnap, d)
        /\ CoversIn(gen, WithRows(csnap, d), term, gen, ring, pRows, pFull)
    BY <1>2, <1>7, FetchDiff
  <2> HIDE DEF d
  <2> QED BY <1>2, <2>1, <2>2 DEF IsResponse, NoResp
<1> QED BY <1>5, <1>6, <1>7

\* A NoChange answer leaves the view as it is.
LEMMA ReceiveNoChangeStep == ASSUME IInv, ReceiveNoChange PROVE IInv'
<1>1. Finish(FALSE) /\ UNCHANGED <<server, owes, wake, cgen, csnap, chist>>
      /\ faults' \in Nat
  BY DEF ReceiveNoChange, IInv, TypeOK
<1> QED BY <1>1, FinishStep

\* apply_prepared_fetch_update of a covered snapshot that is not older.
LEMMA ApplyStep ==
    ASSUME IInv, NEW to \in Nat, NEW snap, IsSnapshot(snap),
           Apply(to, snap), Finish(FALSE),
           UNCHANGED <<server, owes, wake, faults>>,
           to <= gen, snap.hver <= term.hver,
           CoversIn(to, snap, term, gen, ring, pRows, pFull)
    PROVE  IInv'
<1>1. /\ term' = term /\ gen' = gen /\ ring' = ring /\ inSync' = inSync
      /\ pSync' = pSync /\ pRows' = pRows /\ pFull' = pFull
      /\ owes' = owes /\ wake' = wake /\ faults' = faults
      /\ cgen' = to /\ csnap' = snap /\ chist' = HistoryOf(snap)
      /\ resp' = NoResp /\ nextRow' = 0 /\ fpend' = FALSE
      /\ phase' \in {"idle", "request"}
  BY DEF Apply, Finish, server
<1>2. HistoryOf(snap) \in [cols: Nat, hver: Nat, hlen: Nat]
  BY DEF HistoryOf, IsSnapshot
<1>3. TypeOK'
  BY <1>1, <1>2 DEF IInv, TypeOK, IsResponse
<1>4. RingContiguous' /\ PendingOK' /\ RowsCurrent' /\ EntriesFit'
  BY <1>1 DEF IInv, RingContiguous, PendingOK, RowsCurrent, EntriesFit
<1>5. ClientOK' /\ DiffAlwaysFits'
  BY <1>1 DEF ClientOK, DiffAlwaysFits, NoResp
<1>6. NoLostUpdate'
  BY <1>1 DEF NoLostUpdate, Covers, NoResp
<1> QED BY <1>3, <1>4, <1>5, <1>6 DEF IInv

\* What a full response holds.
LEMMA FullResponse ==
    ASSUME IInv, resp.kind = "full"
    PROVE  /\ IsSnapshot(resp.snap) /\ resp.to \in Nat
           /\ cgen <= resp.to /\ resp.to <= gen
           /\ csnap.hver <= resp.snap.hver /\ resp.snap.hver <= term.hver
           /\ CoversIn(resp.to, resp.snap, term, gen, ring, pRows, pFull)
<1>1. resp # NoResp
  BY DEF NoResp
<1>2. IsSnapshot(resp.snap) /\ resp.to \in Nat
  BY DEF IInv, TypeOK, IsResponse, NoResp
<1> QED BY <1>1, <1>2 DEF IInv, ClientOK, NoLostUpdate, Covers

\* What a diff response holds.
LEMMA DiffResponse ==
    ASSUME IInv, resp.kind = "diff"
    PROVE  /\ IsSnapshot(WithRows(csnap, resp.rows)) /\ resp.to \in Nat
           /\ cgen <= resp.to /\ resp.to <= gen
           /\ WithRows(csnap, resp.rows).hver = csnap.hver
           /\ csnap.hver <= term.hver
           /\ DiffFits(csnap, resp.rows) /\ chist = HistoryOf(csnap)
           /\ CoversIn(resp.to, WithRows(csnap, resp.rows), term, gen,
                       ring, pRows, pFull)
<1>1. resp # NoResp
  BY DEF NoResp
<1>2. resp.to \in Nat /\ IsDiff(resp.rows) /\ IsSnapshot(csnap)
  BY DEF IInv, TypeOK, IsResponse, NoResp
<1>3. \A r \in DOMAIN resp.rows : resp.rows[r].text \in Texts
  BY <1>2 DEF IsDiff, RowChange
<1> DEFINE cells == [r \in DOMAIN csnap.cells |->
                IF r \in DOMAIN resp.rows THEN resp.rows[r].text ELSE csnap.cells[r]]
<1>4. cells \in [1..csnap.rows -> Texts]
  BY <1>2, <1>3 DEF IsSnapshot
<1>5. WithRows(csnap, resp.rows) =
        [rows |-> csnap.rows, cols |-> csnap.cols, cells |-> cells,
         meta |-> csnap.meta, hver |-> csnap.hver, hlen |-> csnap.hlen]
  BY <1>2 DEF WithRows, IsSnapshot
<1> HIDE DEF cells
<1>6. /\ IsSnapshot(WithRows(csnap, resp.rows))
      /\ WithRows(csnap, resp.rows).hver = csnap.hver
  BY <1>2, <1>4, <1>5 DEF IsSnapshot
<1> QED BY <1>1, <1>2, <1>6
        DEF IInv, ClientOK, NoLostUpdate, Covers, DiffAlwaysFits

\* A diff brings the view to the generation of the answer.
LEMMA ReceiveDiffStep == ASSUME IInv, ReceiveDiff PROVE IInv'
<1>1. /\ Apply(resp.to, WithRows(csnap, resp.rows)) /\ Finish(FALSE)
      /\ UNCHANGED <<server, owes, wake, faults>> /\ resp.kind = "diff"
  BY DiffResponse DEF ReceiveDiff
<1> QED BY <1>1, DiffResponse, ApplyStep

\* A snapshot with a usable history cache is applied, one without starts the paging.
LEMMA ReceiveFullStep == ASSUME IInv, ReceiveFull PROVE IInv'
<1>1. resp.kind = "full" /\ UNCHANGED <<server, owes, wake, faults>>
  BY DEF ReceiveFull
<1>2. CASE Apply(resp.to, resp.snap) /\ Finish(FALSE)
  BY <1>1, <1>2, FullResponse, ApplyStep
<1>3. CASE phase' = "history" /\ UNCHANGED <<cgen, csnap, chist, resp, nextRow, fpend>>
  <2>1. /\ UNCHANGED <<server, cgen, csnap, chist>> /\ wake' \subseteq {"queue", "latch"}
        /\ owes' \subseteq {"reader", "rpc"} /\ resp' = resp
        /\ nextRow' \in Nat /\ fpend' \in BOOLEAN /\ faults' \in Nat
    BY <1>1, <1>3 DEF IInv, TypeOK
  <2> QED BY <1>1, <1>3, <2>1, TaskStep
<1> QED BY <1>2, <1>3 DEF ReceiveFull

\* A history page is collected, or found to be of another version.
LEMMA FetchHistoryPageStep == ASSUME IInv, FetchHistoryPage PROVE IInv'
<1> DEFINE remaining == resp.snap.hlen - nextRow
           count == IF remaining < PageRows THEN remaining ELSE PageRows
<1>1. /\ phase = "history" /\ resp.kind = "full"
      /\ UNCHANGED <<server, owes, wake, cgen, csnap, chist, faults>>
      /\ faults' \in Nat
  BY DEF FetchHistoryPage, IInv, ClientOK, TypeOK
<1>2. CASE Finish(FALSE) \/ Finish(TRUE)
  BY <1>1, <1>2, FinishStep
<1>3. CASE /\ nextRow' = nextRow + count
           /\ phase' = IF count = remaining THEN "confirm" ELSE "history"
           /\ UNCHANGED <<resp, fpend>>
           /\ ~(term.hlen < nextRow + count)
  <2>1. nextRow + count \in Nat
    <3>1. resp.snap.hlen \in Nat /\ nextRow \in Nat
      BY <1>1, FullResponse DEF IInv, TypeOK, IsSnapshot
    <3> QED BY <3>1, PageAssumption
  <2>2. /\ UNCHANGED <<server, cgen, csnap, chist>> /\ wake' \subseteq {"queue", "latch"}
        /\ owes' \subseteq {"reader", "rpc"} /\ resp' = resp
        /\ nextRow' \in Nat /\ fpend' \in BOOLEAN /\ phase' \in {"history", "confirm"}
    BY <1>1, <1>3, <2>1 DEF IInv, TypeOK
  <2> QED BY <1>1, <2>2, TaskStep
<1> QED BY <1>2, <1>3 DEF FetchHistoryPage

\* The checkpoint is confirmed and applied, or dropped and retried.
LEMMA ConfirmCheckpointStep == ASSUME IInv, ConfirmCheckpoint PROVE IInv'
<1>1. resp.kind = "full" /\ UNCHANGED <<server, owes, wake, faults>> /\ faults' \in Nat
  BY DEF ConfirmCheckpoint, IInv, ClientOK, TypeOK
<1>2. CASE Apply(resp.to, resp.snap) /\ Finish(FALSE)
  BY <1>1, <1>2, FullResponse, ApplyStep
<1>3. CASE UNCHANGED <<cgen, csnap, chist>> /\ Finish(TRUE)
  BY <1>1, <1>3, FinishStep
<1> QED BY <1>2, <1>3 DEF ConfirmCheckpoint

\* A failing RPC leaves the view as it is.
LEMMA RpcFailsStep == ASSUME IInv, RpcFails PROVE IInv'
<1>1. /\ Finish(TRUE) \/ GiveUp
      /\ UNCHANGED <<server, owes, wake, cgen, csnap, chist>> /\ faults' \in Nat
  <2>1. faults \in Nat /\ faults > 0 /\ faults' = faults - 1
    BY DEF RpcFails, IInv, TypeOK
  <2>2. faults' \in Nat
    BY <2>1
  <2> QED BY <2>2 DEF RpcFails
<1>2. CASE Finish(TRUE)
  BY <1>1, <1>2, FinishStep
<1>3. CASE GiveUp
  BY <1>1, <1>3, GiveUpStep
<1> QED BY <1>1, <1>2, <1>3

-----------------------------------------------------------------------------
(* The theorems. *)

\* A new pane and a new view satisfy the inductive invariant.
LEMMA InitIInv == Init => IInv
<1> SUFFICES ASSUME Init PROVE IInv
  OBVIOUS
<1>1. ASSUME NEW s \in Sizes
      PROVE  IsSnapshot(Fresh(s)) /\ Fresh(s).hver = 0
  <2>1. s \in Nat \X Nat
    BY SizesAssumption
  <2>2. s = <<s[1], s[2]>> /\ s[1] \in Nat /\ s[2] \in Nat
    BY <2>1
  <2>3. [r \in 1..s[1] |-> Blank] \in [1..s[1] -> Texts]
    BY FreshAssumption
  <2> QED BY <2>2, <2>3, FreshAssumption DEF IsSnapshot, Fresh
<1>2. IsSnapshot(term) /\ IsSnapshot(csnap) /\ term.hver = 0 /\ csnap.hver = 0
  BY <1>1 DEF Init
<1>3. chist \in [cols: Nat, hver: Nat, hlen: Nat]
  BY <1>2 DEF Init, HistoryOf, IsSnapshot
<1>4. ring = <<>> /\ Len(ring) = 0 /\ ring \in Seq({ring[i] : i \in DOMAIN ring})
  BY DEF Init
<1>5. TypeOK
  <2>1. \A i \in 1..Len(ring) : IsEntry(ring[i])
    BY <1>4
  <2>2. IsResponse(resp) /\ faults \in Nat
    BY BoundsAssumption DEF Init, IsResponse
  <2> QED BY <1>2, <1>3, <1>4, <2>1, <2>2 DEF Init, TypeOK
<1>6. RingContiguous /\ PendingOK /\ RowsCurrent /\ EntriesFit
  BY <1>4, CapacityAssumption
     DEF Init, RingContiguous, PendingOK, RowsCurrent, EntriesFit,
         RowsCurrentIn, EntriesFitIn
<1>7. ClientOK /\ DiffAlwaysFits
  BY <1>2 DEF Init, ClientOK, DiffAlwaysFits, NoResp
<1>8. NoLostUpdate
  BY DEF Init, NoLostUpdate, Covers, CoversIn, NeedsFull, NoResp
<1> QED BY <1>5, <1>6, <1>7, <1>8 DEF IInv

\* Every step of the daemon and of the view keeps the inductive invariant.
LEMMA NextIInv == IInv /\ [Next]_vars => IInv'
<1> SUFFICES ASSUME IInv, [Next]_vars PROVE IInv'
  OBVIOUS
<1>1. CASE ServerNext
  BY <1>1, ProcessPtyBytesStep, BsuTimeoutStep, ResizeStep,
     SetScrollbackCapacityStep, SetTitleStep DEF ServerNext
<1>2. CASE ClientNext
  BY <1>2, ServeFetchStep, ReceiveNoChangeStep, ReceiveDiffStep, ReceiveFullStep,
     FetchHistoryPageStep, ConfirmCheckpointStep, RetryFetchStep DEF ClientNext
<1>3. CASE Broadcast \/ Notified \/ RpcFails
  BY <1>3, BroadcastStep, NotifiedStep, RpcFailsStep
<1>4. CASE UNCHANGED vars
  <2>1. /\ UNCHANGED <<server, cgen, csnap, chist>> /\ resp' = resp /\ phase' = phase
        /\ owes' \subseteq {"reader", "rpc"} /\ wake' \subseteq {"queue", "latch"}
        /\ nextRow' \in Nat /\ fpend' \in BOOLEAN /\ faults' \in Nat
        /\ phase' \in {"idle", "request", "response", "history", "confirm", "retry",
                       "gaveup"}
    BY <1>4 DEF vars, client, IInv, TypeOK
  <2> QED BY <2>1, TaskStep
<1> QED BY <1>1, <1>2, <1>3, <1>4 DEF Next

\* Every reachable state satisfies the inductive invariant.
THEOREM Invariance == Spec => []IInv
BY InitIInv, NextIInv, PTL DEF Spec

\* Types hold in every reachable state, for all constants.
THEOREM TypeCorrect == Spec => []TypeOK
<1>1. IInv => TypeOK
  BY DEF IInv
<1> QED BY <1>1, Invariance, PTL

\* The diff ring never has a gap (publish_generation under the commit lock).
THEOREM RingIsContiguous == Spec => []RingContiguous
<1>1. IInv => RingContiguous
  BY DEF IInv
<1> QED BY <1>1, Invariance, PTL

\* No interleaving of publishers, fetches, failures and synchronized updates
\* makes a view miss a change for good.
THEOREM NothingIsLost == Spec => []NoLostUpdate
<1>1. IInv => NoLostUpdate
  BY DEF IInv
<1> QED BY <1>1, Invariance, PTL

\* A diff is never refused by the view that asked for it.
THEOREM DiffsFit == Spec => []DiffAlwaysFits
<1>1. IInv => DiffAlwaysFits
  BY DEF IInv
<1> QED BY <1>1, Invariance, PTL

\* A view at the published generation outside a synchronized update is exact.
THEOREM CurrentIsExact == Spec => []CurrentViewIsExact
<1>1. IInv => CurrentViewIsExact
  <2> SUFFICES ASSUME IInv, cgen # 0, cgen = gen, ~pSync PROVE csnap = term
    BY DEF CurrentViewIsExact
  <2>1. /\ IsSnapshot(term) /\ IsSnapshot(csnap) /\ gen \in Nat /\ cgen \in Nat
        /\ Len(ring) \in Nat /\ pRows = {} /\ ~pFull
        /\ \A i \in 1..Len(ring) : ring[i].gen = gen - (Len(ring) - i)
    <3>1. TypeOK /\ PendingOK /\ RingContiguous
      BY DEF IInv
    <3>2. pRows = {} /\ ~pFull
      BY <3>1 DEF PendingOK
    <3>3. Len(ring) \in Nat
      BY <3>1 DEF TypeOK
    <3>4. IsSnapshot(term) /\ IsSnapshot(csnap) /\ gen \in Nat /\ cgen \in Nat
      BY <3>1, Zenon DEF TypeOK
    <3>5. \A i \in 1..Len(ring) : ring[i].gen = gen - (Len(ring) - i)
      BY <3>1, Zenon DEF RingContiguous
    <3> QED BY <3>2, <3>3, <3>4, <3>5
  <2>2. Newer(ring, cgen) = {}
    <3>1. ASSUME NEW i \in 1..Len(ring) PROVE ~(ring[i].gen > cgen)
      <4>1. ring[i].gen = gen - (Len(ring) - i)
        BY <2>1
      <4> QED BY ONLY <2>1, <4>1, cgen = gen, i \in 1..Len(ring)
    <3> QED BY <3>1 DEF Newer
  <2>3. ring # <<>> => Len(ring) >= 1
    BY <2>1 DEF IInv, TypeOK
  <2>4. ~NeedsFull(ring, cgen, gen)
    BY <2>1, <2>2, <2>3 DEF NeedsFull
  <2>5. /\ csnap.rows = term.rows /\ csnap.cols = term.cols
        /\ HistoryOf(csnap) = HistoryOf(term) /\ csnap.meta = term.meta
        /\ \A r \in 1..term.rows : csnap.cells[r] = term.cells[r]
    BY <2>1, <2>2, <2>4 DEF IInv, NoLostUpdate, Covers, CoversIn
  <2>6. csnap.hver = term.hver /\ csnap.hlen = term.hlen
    BY <2>5 DEF HistoryOf
  <2>7. csnap.cells = term.cells
    <3>1. /\ csnap.cells \in [1..term.rows -> Texts]
          /\ term.cells \in [1..term.rows -> Texts]
      BY <2>1, <2>5 DEF IsSnapshot
    <3>2. \A r \in 1..term.rows : csnap.cells[r] = term.cells[r]
      BY <2>5
    <3>3. /\ csnap.cells = [r \in 1..term.rows |-> csnap.cells[r]]
          /\ term.cells = [r \in 1..term.rows |-> term.cells[r]]
      BY <3>1
    <3> QED BY ONLY <3>2, <3>3, Zenon
  <2>8. ASSUME NEW s, IsSnapshot(s)
        PROVE  s = [rows |-> s.rows, cols |-> s.cols, cells |-> s.cells,
                    meta |-> s.meta, hver |-> s.hver, hlen |-> s.hlen]
    BY <2>8 DEF IsSnapshot
  <2>9. /\ csnap = [rows |-> csnap.rows, cols |-> csnap.cols, cells |-> csnap.cells,
                    meta |-> csnap.meta, hver |-> csnap.hver, hlen |-> csnap.hlen]
        /\ term = [rows |-> term.rows, cols |-> term.cols, cells |-> term.cells,
                   meta |-> term.meta, hver |-> term.hver, hlen |-> term.hlen]
    BY ONLY <2>1, <2>8
  <2> QED BY ONLY <2>5, <2>6, <2>7, <2>9
<1> QED BY <1>1, Invariance, PTL

\* A view's generation and history version never go back.
THEOREM NeverRegresses == Spec => ViewNeverRegresses
<1>1. ASSUME IInv, [Next]_vars
      PROVE  [cgen' >= cgen /\ csnap'.hver >= csnap.hver]_vars
  <2> DEFINE Forward == cgen' >= cgen /\ csnap'.hver >= csnap.hver
  <2>1. cgen \in Nat /\ csnap.hver \in Nat
    BY <1>1 DEF IInv, TypeOK, IsSnapshot
  <2>2. cgen' = cgen /\ csnap' = csnap => Forward
    BY <2>1
  <2>3. ASSUME ReceiveDiff PROVE Forward
    <3>1. resp.kind = "diff"
      BY <2>3 DEF ReceiveDiff
    <3>2. cgen <= resp.to /\ resp.to \in Nat
          /\ WithRows(csnap, resp.rows).hver = csnap.hver
      BY <1>1, <3>1, DiffResponse
    <3>3. \/ cgen' = cgen /\ csnap' = csnap
          \/ cgen' = resp.to /\ csnap' = WithRows(csnap, resp.rows)
      BY <2>3 DEF ReceiveDiff, Apply
    <3> QED BY <2>1, <2>2, <3>2, <3>3
  <2>4. ASSUME ReceiveFull \/ ConfirmCheckpoint PROVE Forward
    <3>1. resp.kind = "full"
      BY <1>1, <2>4 DEF ReceiveFull, ConfirmCheckpoint, IInv, ClientOK
    <3>2. cgen <= resp.to /\ resp.to \in Nat
          /\ csnap.hver <= resp.snap.hver /\ resp.snap.hver \in Nat
      BY <1>1, <3>1, FullResponse DEF IsSnapshot
    <3>3. \/ cgen' = cgen /\ csnap' = csnap
          \/ cgen' = resp.to /\ csnap' = resp.snap
      BY <2>4 DEF ReceiveFull, ConfirmCheckpoint, Apply
    <3> QED BY <2>1, <2>2, <3>2, <3>3
  <2>5. ASSUME ServerNext PROVE Forward
    <3>1. UNCHANGED client
      <4>1. ProcessPtyBytes => UNCHANGED client
        BY DEF ProcessPtyBytes, Batch
      <4>2. BsuTimeout \/ SetTitle => UNCHANGED client
        BY DEF BsuTimeout, SetTitle
      <4>3. Resize \/ SetScrollbackCapacity => UNCHANGED client
        BY DEF Resize, SetScrollbackCapacity
      <4> QED BY <2>5, <4>1, <4>2, <4>3 DEF ServerNext
    <3> QED BY <2>2, <3>1 DEF client
  <2>6. ASSUME \/ Broadcast \/ Notified \/ RpcFails \/ ServeFetch
               \/ ReceiveNoChange \/ FetchHistoryPage \/ RetryFetch
        PROVE  Forward
    BY <2>2, <2>6 DEF Broadcast, Notified, RpcFails, ServeFetch, ReceiveNoChange,
       FetchHistoryPage, RetryFetch, client
  <2> HIDE DEF Forward
  <2>7. Forward \/ UNCHANGED vars
    BY <1>1, <2>3, <2>4, <2>5, <2>6 DEF Next, ClientNext
  <2> QED BY <2>7 DEF Forward
<1> QED BY <1>1, Invariance, PTL DEF Spec, ViewNeverRegresses
=============================================================================
