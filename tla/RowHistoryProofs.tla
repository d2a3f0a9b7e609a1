-------------------------- MODULE RowHistoryProofs --------------------------
(***************************************************************************)
(* Proofs about RowHistory, for any screen, capacities, headroom and input. *)
(*                                                                          *)
(* The argument for the markers: a batch that neither breaks the numbering  *)
(* nor fills the raised limit has lost no row, so that within it the number *)
(* of the oldest row kept at the last eviction, top - size, still holds for *)
(* what is in the grid now.  Every other batch retires the numbering, and   *)
(* with it the markers.                                                     *)
(***************************************************************************)
EXTENDS RowHistory, SequenceTheorems, TLAPS

Grids   == [view : Seq(Nat), hist : Seq(Nat), limit : Nat]
Batches == [on : {TRUE}, step : BOOLEAN, room : Int, top : Nat, size : Nat,
            primary : BOOLEAN, granted : BOOLEAN, saturated : BOOLEAN,
            rotate : BOOLEAN, break : BOOLEAN, size0 : Nat, cursor0 : Nat, alt0 : BOOLEAN]
Markers == [row : Nat, epoch : Nat, id : Nat, alt : BOOLEAN, shifts : Nat]
Regions == {r \in [from : 1..(Rows + 1), to : 1..Rows] : r.from <= r.to + 1}

\* A screenful, and no more history than the limit.
Whole(g) == g \in Grids /\ Len(g.view) = Rows /\ Len(g.hist) <= g.limit

TypeInv ==
    /\ Whole(grid) /\ Whole(other)
    /\ alt \in BOOLEAN /\ cursor \in 1..Rows /\ fresh \in Nat
    /\ capacity \in Nat /\ top \in Nat /\ epoch \in Nat /\ hver \in Nat
    /\ markers \in Seq(Markers)
    /\ cached \in [hver : Nat, rows : Seq(Nat)]
    /\ shifts \in Nat /\ left \in Nat /\ region \in Regions
    /\ batch = Idle \/ batch \in Batches

\* The alternate grid has no history; the primary one is limited by the capacity
\* or by the raised limit, and the latter only in a batch or out of sight.
LimitInv ==
    /\ alt => /\ grid.hist = <<>> /\ grid.limit = 0
              /\ other.limit \in {capacity, RaisedLimit}
    /\ ~alt => /\ other.hist = <<>> /\ other.limit = 0
               /\ grid.limit \in {capacity, RaisedLimit}
    /\ ~batch.on /\ ~alt => grid.limit = capacity

\* A batch that has stayed on the primary screen and broken nothing.
Counting == batch.on /\ ~batch.alt0 /\ ~batch.break

BatchInv ==
    /\ batch.on /\ ~batch.step => (batch.primary <=> ~alt)
    /\ batch.on /\ ~batch.step /\ ~alt =>
         batch.size = Len(grid.hist) /\ batch.size <= capacity
    /\ batch.on /\ batch.alt0 => batch.size0 = 0
    /\ Counting => /\ ~alt /\ batch.primary
                   /\ batch.size <= batch.top /\ batch.size <= Len(grid.hist)
                   /\ batch.granted => grid.limit = RaisedLimit
                   /\ batch.step => batch.granted

\* Rows only join the history of such a batch below its capacity.
CacheInv ==
    /\ cached.hver <= hver
    /\ CacheBelowCapacityIsExact
    /\ Counting /\ batch.size0 < capacity =>
         \/ Len(grid.hist) > batch.size0
         \/ /\ Len(grid.hist) = batch.size0
            /\ cached.hver = hver /\ Len(cached.rows) = batch.size0
                 => cached.rows = grid.hist

IInv == TypeInv /\ LimitInv /\ BatchInv /\ FloorIsReal /\ CacheInv

\* Row i of a grid, counted from the oldest.
RowAt(g, i) == IF i <= Len(g.hist) THEN g.hist[i] ELSE g.view[i - Len(g.hist)]

\* A marker that must be right: one of the primary screen, in this numbering, and
\* all that has moved since then was counted.
Current(k) == /\ markers[k].epoch = epoch /\ markers[k].alt = FALSE
              /\ markers[k].shifts = shifts

\* If low is the number of the oldest row, every such marker is on its row.
Numbered(low) ==
    \A k \in 1..Len(markers) : Current(k) =>
        /\ markers[k].row < low + Len(grid.hist) + Rows
        /\ markers[k].row >= low =>
             RowAt(grid, markers[k].row - low + 1) = markers[k].id

NoneCurrent == \A k \in 1..Len(markers) : ~Current(k)

MarkerInv ==
    /\ \A k \in 1..Len(markers) : markers[k].epoch <= epoch /\ markers[k].shifts <= shifts
    /\ ~batch.on /\ alt => NoneCurrent
    /\ ~batch.on /\ ~alt => Numbered(top - Len(grid.hist))
    /\ batch.on /\ batch.alt0 /\ alt /\ ~batch.break => NoneCurrent
    /\ Counting /\ ~batch.saturated /\ (batch.step => Len(grid.hist) < grid.limit)
         => Numbered(batch.top - batch.size)

-----------------------------------------------------------------------------
(* The emulator's operators. *)

LEMMA Sizes == /\ Rows \in Nat \ {0} /\ Headroom \in Nat \ {0} /\ MaxMarkers \in Nat \ {0}
               /\ MaxInput \in Nat /\ Capacities \subseteq Nat
BY SizeAssumption

LEMMA Slice ==
    ASSUME NEW q \in Seq(Nat), NEW a \in Nat \ {0}, NEW b \in Nat, b <= Len(q), a <= b + 1
    PROVE  /\ SubSeq(q, a, b) \in Seq(Nat) /\ Len(SubSeq(q, a, b)) = b - a + 1
           /\ \A i \in 1..(b - a + 1) : SubSeq(q, a, b)[i] = q[a + i - 1]
<1>1. \A i \in a..b : q[i] \in Nat   OBVIOUS
<1>2. /\ SubSeq(q, a, b) \in Seq(Nat)
      /\ Len(SubSeq(q, a, b)) = IF a <= b THEN b - a + 1 ELSE 0
      /\ \A i \in 1..(b - a + 1) : SubSeq(q, a, b)[i] = q[a + i - 1]
  BY <1>1, SubSeqProperties
<1> QED BY <1>2

\* The last n elements.
LEMMA LastIs ==
    ASSUME NEW q \in Seq(Nat), NEW n \in 0..Len(q)
    PROVE  /\ Last(q, n) \in Seq(Nat) /\ Len(Last(q, n)) = n
           /\ \A i \in 1..n : Last(q, n)[i] = q[Len(q) - n + i]
           /\ n = Len(q) => Last(q, n) = q
<1> DEFINE m == Len(q) - n + 1
<1>1. Len(q) \in Nat /\ m \in Nat \ {0} /\ Len(q) - m + 1 = n /\ m <= Len(q) + 1   OBVIOUS
<1> HIDE DEF m
<1>2. /\ SubSeq(q, m, Len(q)) \in Seq(Nat) /\ Len(SubSeq(q, m, Len(q))) = Len(q) - m + 1
      /\ \A i \in 1..(Len(q) - m + 1) : SubSeq(q, m, Len(q))[i] = q[m + i - 1]
  BY <1>1, Slice
<1>3. Last(q, n) = SubSeq(q, m, Len(q))   BY DEF Last, m
<1>4. Last(q, n) \in Seq(Nat) /\ Len(Last(q, n)) = n   BY <1>1, <1>2, <1>3
<1>5. \A i \in 1..n : Last(q, n)[i] = q[Len(q) - n + i]
  <2> SUFFICES ASSUME NEW i \in 1..n PROVE Last(q, n)[i] = q[Len(q) - n + i]   OBVIOUS
  <2>1. m + i - 1 = Len(q) - n + i   BY <1>1 DEF m
  <2> QED BY <1>1, <1>2, <1>3, <2>1
<1>6. ASSUME n = Len(q) PROVE Last(q, n) = q
  <2>1. \A i \in 1..Len(q) : Last(q, n)[i] = q[i]   BY <1>1, <1>5, <1>6
  <2> QED BY <1>4, <1>6, <2>1, SeqEqual
<1> QED BY <1>4, <1>5, <1>6

LEMMA LimitedIs ==
    ASSUME NEW g, g \in Grids, Len(g.view) = Rows, NEW limit \in Nat
    PROVE  LET c == Limited(g, limit) IN
           /\ Whole(c) /\ c.view = g.view /\ c.limit = limit
           /\ Len(c.hist) = Smaller(Len(g.hist), limit)
           /\ Len(g.hist) <= limit => c.hist = g.hist
           /\ \A i \in 1..Len(c.hist) : c.hist[i] = g.hist[Len(g.hist) - Len(c.hist) + i]
<1> DEFINE n == Smaller(Len(g.hist), limit)
<1>1. g.hist \in Seq(Nat) /\ Len(g.hist) \in Nat   BY DEF Grids
<1>2. n \in 0..Len(g.hist) /\ n <= limit /\ (Len(g.hist) <= limit => n = Len(g.hist))
  BY <1>1 DEF Smaller
<1>3. /\ Limited(g, limit) \in Grids
      /\ Limited(g, limit).hist = Last(g.hist, n)
      /\ Limited(g, limit).view = g.view /\ Limited(g, limit).limit = limit
  BY <1>1, <1>2, LastIs DEF Limited, Grids
<1> HIDE DEF n
<1>4. /\ Len(Last(g.hist, n)) = n
      /\ \A i \in 1..n : Last(g.hist, n)[i] = g.hist[Len(g.hist) - n + i]
      /\ n = Len(g.hist) => Last(g.hist, n) = g.hist
  BY <1>1, <1>2, LastIs
<1> QED BY <1>2, <1>3, <1>4 DEF n, Whole

LEMMA Concat ==
    ASSUME NEW p \in Seq(Nat), NEW q \in Seq(Nat)
    PROVE  /\ p \o q \in Seq(Nat) /\ Len(p \o q) = Len(p) + Len(q)
           /\ \A i \in 1..(Len(p) + Len(q)) :
                (p \o q)[i] = IF i <= Len(p) THEN p[i] ELSE q[i - Len(p)]
BY ConcatProperties

\* The history with the first n rows of the view, as far as the limit allows.
LEMMA Joined ==
    ASSUME NEW g, Whole(g), NEW n \in 0..Rows
    PROVE  LET j == g.hist \o SubSeq(g.view, 1, n)
               k == Last(j, Smaller(Len(j), g.limit))
           IN  /\ k \in Seq(Nat) /\ Len(k) = Smaller(Len(g.hist) + n, g.limit)
               /\ n = 0 => k = g.hist
               /\ Len(g.hist) + n <= g.limit =>
                    \A i \in 1..(Len(g.hist) + n) :
                        k[i] = IF i <= Len(g.hist) THEN g.hist[i] ELSE g.view[i - Len(g.hist)]
<1> DEFINE h == Len(g.hist)
           s == SubSeq(g.view, 1, n)
           j == g.hist \o s
           keep == Smaller(h + n, g.limit)
<1>1. /\ g.hist \in Seq(Nat) /\ g.view \in Seq(Nat) /\ g.limit \in Nat /\ h \in Nat
      /\ Len(g.view) = Rows /\ h <= g.limit /\ Rows \in Nat \ {0} /\ n \in Nat /\ n <= Rows
  BY Sizes DEF Whole, Grids
<1> HIDE DEF h
<1>2. s \in Seq(Nat) /\ Len(s) = n /\ \A i \in 1..n : s[i] = g.view[i]
  <2>1. /\ SubSeq(g.view, 1, n) \in Seq(Nat) /\ Len(SubSeq(g.view, 1, n)) = n - 1 + 1
        /\ \A i \in 1..(n - 1 + 1) : SubSeq(g.view, 1, n)[i] = g.view[1 + i - 1]
    BY <1>1, Slice
  <2>2. n - 1 + 1 = n   BY <1>1
  <2>3. \A i \in 1..n : 1 + i - 1 = i   BY <1>1
  <2> QED BY <2>1, <2>2, <2>3
<1> HIDE DEF s
<1>3. /\ j \in Seq(Nat) /\ Len(j) = h + n
      /\ \A i \in 1..(h + n) : j[i] = IF i <= h THEN g.hist[i] ELSE g.view[i - h]
  <2>1. /\ j \in Seq(Nat) /\ Len(j) = h + n
        /\ \A i \in 1..(h + n) : j[i] = IF i <= h THEN g.hist[i] ELSE s[i - h]
    <3>1. /\ j \in Seq(Nat) /\ Len(j) = Len(g.hist) + Len(s)
          /\ \A i \in 1..(Len(g.hist) + Len(s)) :
               j[i] = IF i <= Len(g.hist) THEN g.hist[i] ELSE s[i - Len(g.hist)]
      BY <1>1, <1>2, Concat
    <3> QED BY <1>2, <3>1 DEF h
  <2>2. \A i \in 1..(h + n) : ~(i <= h) => s[i - h] = g.view[i - h]   BY <1>1, <1>2
  <2> QED BY <2>1, <2>2
<1> HIDE DEF j
<1>4. keep \in 0..(h + n) /\ keep <= g.limit /\ (h + n <= g.limit => keep = h + n)
  <2>1. CASE h + n < g.limit   BY <1>1, <2>1 DEF Smaller
  <2>2. CASE ~(h + n < g.limit)   BY <1>1, <2>2 DEF Smaller
  <2> QED BY <2>1, <2>2
<1>5. Smaller(Len(j), g.limit) = keep   BY <1>3
<1> HIDE DEF keep
<1>6. /\ Last(j, keep) \in Seq(Nat) /\ Len(Last(j, keep)) = keep
      /\ keep = Len(j) => Last(j, keep) = j
  BY <1>3, <1>4, LastIs
<1>7. n = 0 => Last(j, keep) = g.hist
  <2> SUFFICES ASSUME n = 0 PROVE j = g.hist /\ keep = Len(j)   BY <1>6
  <2>1. keep = Len(j) /\ Len(j) = h   BY <1>1, <1>3, <1>4
  <2>2. \A i \in 1..h : j[i] = g.hist[i]   BY <1>1, <1>3
  <2> QED BY <1>1, <1>3, <2>1, <2>2, SeqEqual DEF h
<1>8. h + n <= g.limit => Last(j, keep) = j   BY <1>3, <1>4, <1>6
<1> QED BY <1>3, <1>5, <1>6, <1>7, <1>8 DEF j, s, h, keep

\* n rows further from row a: from the top they join the history.  No row moves
\* for n = 0, and if all of the screen scrolls none is lost below the limit.
LEMMA ScrolledIs ==
    ASSUME NEW g, Whole(g), NEW a \in Nat \ {0}, NEW b \in 1..Rows, NEW n \in 0..Rows, fresh \in Nat
    PROVE  LET c == ScrolledUp(g, a, b, n) IN
           /\ Whole(c) /\ c.limit = g.limit
           /\ c.hist = g.hist \/ (a = 1 /\ n > 0)
           /\ a = 1 => Len(c.hist) = Smaller(Len(g.hist) + n, g.limit)
           /\ n = 0 => c.view = g.view
           /\ a = 1 /\ b = Rows /\ Len(g.hist) + n <= g.limit =>
                \A i \in 1..(Len(g.hist) + Rows) : RowAt(c, i) = RowAt(g, i)
<1> DEFINE h == Len(g.hist)
           c == ScrolledUp(g, a, b, n)
           v == [r \in 1..Rows |-> IF r \notin a..b THEN g.view[r]
                                   ELSE IF r + n <= b THEN g.view[r + n]
                                   ELSE fresh + r - 1]
           j == g.hist \o SubSeq(g.view, 1, n)
           k == IF a = 1 THEN Last(j, Smaller(Len(j), g.limit)) ELSE g.hist
<1>1. /\ g.hist \in Seq(Nat) /\ g.view \in Seq(Nat) /\ g.limit \in Nat /\ h \in Nat
      /\ Len(g.view) = Rows /\ h <= g.limit /\ Rows \in Nat \ {0} /\ n \in Nat /\ n <= Rows
      /\ \A r \in 1..Rows : g.view[r] \in Nat
  BY Sizes DEF Whole, Grids
<1>2. v \in Seq(Nat) /\ Len(v) = Rows
  <2>1. \A r \in 1..Rows : (IF r \notin a..b THEN g.view[r]
                            ELSE IF r + n <= b THEN g.view[r + n]
                            ELSE fresh + r - 1) \in Nat
    <3> SUFFICES ASSUME NEW r \in 1..Rows
                 PROVE  /\ r + n <= b => g.view[r + n] \in Nat
                        /\ g.view[r] \in Nat /\ fresh + r - 1 \in Nat
      OBVIOUS
    <3>1. r + n <= b => r + n \in 1..Rows   BY <1>1
    <3>2. fresh + r - 1 \in Nat   BY <1>1
    <3>3. \A x \in 1..Rows : g.view[x] \in Nat   BY <1>1
    <3> QED BY <3>1, <3>2, <3>3, Zenon
  <2> QED BY <1>1, <2>1, IsASeq
<1>3. /\ a = 1 => k \in Seq(Nat) /\ Len(k) = Smaller(h + n, g.limit)
      /\ a = 1 /\ n = 0 => k = g.hist
      /\ a = 1 /\ h + n <= g.limit =>
           \A i \in 1..(h + n) : k[i] = IF i <= h THEN g.hist[i] ELSE g.view[i - h]
  <2>1. LET jj == g.hist \o SubSeq(g.view, 1, n)
            kk == Last(jj, Smaller(Len(jj), g.limit))
        IN  /\ kk \in Seq(Nat) /\ Len(kk) = Smaller(Len(g.hist) + n, g.limit)
            /\ n = 0 => kk = g.hist
            /\ Len(g.hist) + n <= g.limit =>
                 \A i \in 1..(Len(g.hist) + n) :
                     kk[i] = IF i <= Len(g.hist) THEN g.hist[i] ELSE g.view[i - Len(g.hist)]
    BY Joined
  <2> QED BY <2>1
<1>4. a # 1 => k = g.hist   OBVIOUS
<1>5. c = [g EXCEPT !.view = v, !.hist = k]   BY DEF ScrolledUp
<1>6. n = 0 => v = g.view
  <2> SUFFICES ASSUME n = 0 PROVE \A r \in 1..Rows : v[r] = g.view[r]
    BY <1>1, <1>2, SeqEqual
  <2> SUFFICES ASSUME NEW r \in 1..Rows PROVE v[r] = g.view[r]   OBVIOUS
  <2>1. r \in a..b => r + n <= b /\ r + n = r   BY <1>1
  <2> QED BY <2>1
<1>7. a = 1 /\ b = Rows => \A r \in 1..Rows : r + n <= Rows => v[r] = g.view[r + n]
  BY <1>1
<1> HIDE DEF v, k, j
<1>8. k \in Seq(Nat) /\ Len(k) <= g.limit
  <2>1. CASE a = 1
    <3>1. Smaller(h + n, g.limit) <= g.limit   BY <1>1 DEF Smaller
    <3> QED BY <1>3, <2>1, <3>1
  <2>2. CASE a # 1   BY <1>1, <1>4, <2>2
  <2> QED BY <2>1, <2>2
<1>9. /\ c \in Grids /\ c.view = v /\ c.hist = k /\ c.limit = g.limit
  BY <1>1, <1>2, <1>5, <1>8 DEF Whole, Grids
<1> HIDE DEF c, h
<1>10. ASSUME a = 1, b = Rows, h + n <= g.limit, NEW i \in 1..(h + Rows)
       PROVE  RowAt(c, i) = RowAt(g, i)
  <2>1. Len(c.hist) = h + n
    <3>1. h + n = g.limit \/ h + n < g.limit   BY <1>1, <1>10
    <3>2. Smaller(h + n, g.limit) = h + n   BY <3>1 DEF Smaller
    <3> QED BY <1>3, <1>9, <1>10, <3>2
  <2>2. CASE i <= h + n
    <3>1. i \in 1..(h + n)   BY <1>1, <2>2
    <3>2. RowAt(c, i) = k[i]   BY <1>9, <2>1, <2>2 DEF RowAt
    <3>3. k[i] = IF i <= h THEN g.hist[i] ELSE g.view[i - h]   BY <1>3, <1>10, <3>1
    <3> QED BY <3>2, <3>3 DEF RowAt, h
  <2>3. CASE i > h + n
    <3>1. /\ i - (h + n) \in 1..Rows /\ i - (h + n) + n = i - h /\ i - h <= Rows
          /\ ~(i <= h) /\ ~(i <= h + n)
      BY <1>1, <2>3
    <3>2. RowAt(c, i) = v[i - (h + n)]   BY <1>9, <2>1, <3>1 DEF RowAt
    <3>3. v[i - (h + n)] = g.view[i - (h + n) + n]   BY <1>7, <1>10, <3>1
    <3>4. RowAt(g, i) = g.view[i - h]   BY <3>1 DEF RowAt, h
    <3> QED BY <3>1, <3>2, <3>3, <3>4
  <2> QED BY <1>1, <2>2, <2>3
<1>11. c.hist = g.hist \/ (a = 1 /\ n > 0)   BY <1>1, <1>3, <1>4, <1>9
<1>12. Whole(c)   BY <1>2, <1>8, <1>9 DEF Whole
<1> QED BY <1>3, <1>6, <1>9, <1>10, <1>11, <1>12 DEF c, h

LEMMA BackIs ==
    ASSUME Whole(grid), fresh \in Nat, NEW a \in Nat \ {0}, NEW b \in 1..Rows,
           NEW n \in 0..Rows, grid' = ScrolledDown(grid, a, b, n)
    PROVE  /\ Whole(grid') /\ grid'.limit = grid.limit /\ grid'.hist = grid.hist
           /\ n = 0 => grid'.view = grid.view
<1> DEFINE v == [r \in 1..Rows |-> IF r \notin a..b THEN grid.view[r]
                                   ELSE IF r - n >= a THEN grid.view[r - n]
                                   ELSE fresh + r - 1]
<1>1. /\ grid.view \in Seq(Nat) /\ Len(grid.view) = Rows /\ Rows \in Nat \ {0}
      /\ n \in Nat /\ grid \in Grids /\ \A r \in 1..Rows : grid.view[r] \in Nat
  BY Sizes DEF Whole, Grids
<1>2. v \in Seq(Nat) /\ Len(v) = Rows
  <2>1. \A r \in 1..Rows : (IF r \notin a..b THEN grid.view[r]
                            ELSE IF r - n >= a THEN grid.view[r - n]
                            ELSE fresh + r - 1) \in Nat
    <3> SUFFICES ASSUME NEW r \in 1..Rows
                 PROVE  /\ r - n >= a => grid.view[r - n] \in Nat
                        /\ grid.view[r] \in Nat /\ fresh + r - 1 \in Nat
      OBVIOUS
    <3>1. r - n >= a => r - n \in 1..Rows   BY <1>1
    <3>2. fresh + r - 1 \in Nat   BY <1>1
    <3>3. \A x \in 1..Rows : grid.view[x] \in Nat   BY <1>1
    <3> QED BY <3>1, <3>2, <3>3, Zenon
  <2> QED BY <1>1, <2>1, IsASeq
<1>3. grid' = [grid EXCEPT !.view = v]   BY DEF ScrolledDown
<1>4. n = 0 => v = grid.view
  <2> SUFFICES ASSUME n = 0 PROVE \A r \in 1..Rows : v[r] = grid.view[r]
    BY <1>1, <1>2, SeqEqual
  <2> SUFFICES ASSUME NEW r \in 1..Rows PROVE v[r] = grid.view[r]   OBVIOUS
  <2>1. r \in a..b => r - n >= a /\ r - n = r   BY <1>1
  <2> QED BY <2>1
<1> HIDE DEF v
<1>5. grid' \in Grids /\ grid'.view = v /\ grid'.hist = grid.hist /\ grid'.limit = grid.limit
  BY <1>1, <1>2, <1>3 DEF Grids
<1> QED BY <1>2, <1>4, <1>5 DEF Whole

-----------------------------------------------------------------------------
(* One input. *)

\* What an input can do to the grids.
Stays     == grid' = grid /\ other' = other /\ alt' = alt /\ shifts' = shifts
Ups       == /\ \E a \in Nat \ {0}, b \in 1..Rows, n \in 0..Rows :
                  /\ grid' = ScrolledUp(grid, a, b, n)
                  /\ shifts' = shifts => n = 0 \/ (a = 1 /\ b = Rows)
             /\ other' = other /\ alt' = alt
Downs     == /\ \E a \in Nat \ {0}, b \in 1..Rows, n \in 0..Rows :
                  /\ grid' = ScrolledDown(grid, a, b, n)
                  /\ shifts' = shifts => n = 0
             /\ other' = other /\ alt' = alt
Clears(i) == /\ i = "saved" /\ other' = other /\ alt' = alt
             /\ grid' = [grid EXCEPT !.hist = <<>>]
Resets(i) == /\ i = "reset" /\ alt' = FALSE
             /\ grid' = [(IF alt THEN other ELSE grid) EXCEPT !.hist = <<>>]
             /\ other' = [(IF alt THEN grid ELSE other) EXCEPT !.hist = <<>>]
Enters(i) == /\ i = "enter" /\ ~alt /\ alt' = TRUE /\ other' = grid
             /\ grid' = [view |-> [j \in 1..Rows |-> fresh + j - 1],
                         hist |-> <<>>, limit |-> 0]
Leaves(i) == /\ i = "leave" /\ alt /\ alt' = FALSE /\ grid' = other /\ other' = grid

LEMMA ScrollKinds ==
    ASSUME TypeInv, NEW a \in Nat \ {0}, NEW b \in 1..Rows, NEW n \in 0..Rows,
           other' = other, alt' = alt
    PROVE  /\ ScrollUp(a, b, n) => Ups /\ fresh' \in Nat /\ shifts' \in {shifts, shifts + 1}
           /\ ScrollDown(a, b, n) => Downs /\ fresh' \in Nat /\ shifts' \in {shifts, shifts + 1}
<1>1. fresh \in Nat /\ shifts \in Nat /\ Rows \in Nat   BY Sizes DEF TypeInv
<1>2. ASSUME ScrollUp(a, b, n)
      PROVE  Ups /\ fresh' \in Nat /\ shifts' \in {shifts, shifts + 1}
  <2>1. /\ grid' = ScrolledUp(grid, a, b, n) /\ fresh' = fresh + Rows
        /\ shifts' = IF n = 0 \/ (a = 1 /\ b = Rows) THEN shifts ELSE shifts + 1
    BY <1>2 DEF ScrollUp
  <2>2. shifts' = shifts => n = 0 \/ (a = 1 /\ b = Rows)   BY <1>1, <2>1
  <2>3. Ups   BY <2>1, <2>2 DEF Ups
  <2> QED BY <1>1, <2>1, <2>3
<1>3. ASSUME ScrollDown(a, b, n)
      PROVE  Downs /\ fresh' \in Nat /\ shifts' \in {shifts, shifts + 1}
  <2>1. /\ grid' = ScrolledDown(grid, a, b, n) /\ fresh' = fresh + Rows
        /\ shifts' = IF n = 0 THEN shifts ELSE shifts + 1
    BY <1>3 DEF ScrollDown
  <2>2. shifts' = shifts => n = 0   BY <1>1, <2>1
  <2>3. Downs   BY <2>1, <2>2 DEF Downs
  <2> QED BY <1>1, <2>1, <2>3
<1> QED BY <1>2, <1>3

LEMMA PerformKinds ==
    ASSUME TypeInv, NEW i, Feed(i)
    PROVE  /\ cursor' \in 1..Rows /\ fresh' \in Nat /\ region' \in Regions
           /\ shifts' \in {shifts, shifts + 1}
           /\ Stays \/ Ups \/ Downs \/ Clears(i) \/ Resets(i) \/ Enters(i) \/ Leaves(i)
<1>0. /\ Rows \in Nat \ {0} /\ cursor \in 1..Rows /\ fresh \in Nat /\ alt \in BOOLEAN
      /\ shifts \in Nat /\ region \in Regions
      /\ region.from \in Nat \ {0} /\ region.from <= Rows + 1 /\ region.to \in 1..Rows
      /\ region.from <= region.to + 1
  BY Sizes DEF TypeInv, Regions
<1>00. RegionSize \in Nat /\ RegionSize <= Rows   BY <1>0 DEF RegionSize
<1>01. \A n \in 0..Rows : Smaller(n, RegionSize) \in 0..Rows
  BY <1>0, <1>00 DEF Smaller
<1>02. Smaller(1, RegionSize) \in 0..Rows   BY <1>0, <1>01
<1>03. WholeScreen \in Regions   BY <1>0 DEF WholeScreen, Regions
<1> HIDE DEF Regions
<1>1. Perform(i)   BY DEF Feed
<1>2. CASE LineFeed
  <2>1. other' = other /\ alt' = alt /\ region' = region   BY <1>2 DEF LineFeed
  <2>2. CASE cursor = region.to
    <3>1. ScrollUp(region.from, region.to, Smaller(1, RegionSize)) /\ cursor' = cursor
      BY <1>2, <2>2 DEF LineFeed
    <3> QED BY <1>0, <1>02, <2>1, <3>1, ScrollKinds
  <2>3. CASE cursor # region.to
    <3>1. cursor' = Smaller(cursor + 1, Rows) /\ grid' = grid /\ fresh' = fresh
          /\ shifts' = shifts
      BY <1>2, <2>3 DEF LineFeed
    <3>2. cursor' \in 1..Rows   BY <1>0, <3>1 DEF Smaller
    <3> QED BY <1>0, <2>1, <3>1, <3>2 DEF Stays
  <2> QED BY <2>2, <2>3
<1>3. CASE MoveCursor   BY <1>0, <1>3 DEF MoveCursor, Stays
<1>4. CASE SetRegion
  <2>1. PICK first \in 1..(Rows + 1), last \in 2..(Rows + 2) :
          first < last /\ region' = [from |-> first, to |-> Smaller(last, Rows)]
    BY <1>4 DEF SetRegion
  <2>2. Smaller(last, Rows) \in 1..Rows /\ first <= Smaller(last, Rows) + 1
    BY <1>0, <2>1 DEF Smaller
  <2>3. region' \in Regions   BY <2>1, <2>2 DEF Regions
  <2>4. cursor' = 1 /\ grid' = grid /\ other' = other /\ alt' = alt /\ fresh' = fresh
        /\ shifts' = shifts
    BY <1>4 DEF SetRegion
  <2> QED BY <1>0, <2>3, <2>4 DEF Stays
<1>5. CASE ScrollScreen
  <2>1. PICK n \in 1..Rows : ScrollUp(region.from, region.to, Smaller(n, RegionSize))
    BY <1>5 DEF ScrollScreen
  <2>2. other' = other /\ alt' = alt /\ cursor' = cursor /\ region' = region
    BY <1>5 DEF ScrollScreen
  <2>3. Smaller(n, RegionSize) \in 0..Rows   BY <1>0, <1>01, <2>1
  <2> QED BY <1>0, <2>1, <2>2, <2>3, ScrollKinds
<1>6. CASE ScrollBack
  <2>1. PICK n \in 1..Rows : ScrollDown(region.from, region.to, Smaller(n, RegionSize))
    BY <1>6 DEF ScrollBack
  <2>2. other' = other /\ alt' = alt /\ cursor' = cursor /\ region' = region
    BY <1>6 DEF ScrollBack
  <2>3. Smaller(n, RegionSize) \in 0..Rows   BY <1>0, <1>01, <2>1
  <2> QED BY <1>0, <2>1, <2>2, <2>3, ScrollKinds
<1>7. CASE ReverseIndex
  <2>1. other' = other /\ alt' = alt /\ region' = region   BY <1>7 DEF ReverseIndex
  <2>2. CASE cursor = region.from
    <3>1. ScrollDown(region.from, region.to, Smaller(1, RegionSize)) /\ cursor' = cursor
      BY <1>7, <2>2 DEF ReverseIndex
    <3> QED BY <1>0, <1>02, <2>1, <3>1, ScrollKinds
  <2>3. CASE cursor # region.from
    <3>1. cursor' = (IF cursor = 1 THEN 1 ELSE cursor - 1) /\ grid' = grid /\ fresh' = fresh
          /\ shifts' = shifts
      BY <1>7, <2>3 DEF ReverseIndex
    <3>2. cursor' \in 1..Rows   BY <1>0, <3>1
    <3> QED BY <1>0, <2>1, <3>1, <3>2 DEF Stays
  <2> QED BY <2>2, <2>3
<1>8. CASE InsertLines
  <2>1. other' = other /\ alt' = alt /\ cursor' = cursor /\ region' = region
    BY <1>8 DEF InsertLines
  <2>2. CASE cursor \in region.from..region.to
    <3>1. PICK n \in 1..(region.to - cursor + 1) : ScrollDown(cursor, region.to, n)
      BY <1>8, <2>2 DEF InsertLines
    <3>2. n \in 0..Rows /\ cursor \in Nat \ {0}   BY <1>0, <3>1
    <3> QED BY <1>0, <2>1, <3>1, <3>2, ScrollKinds
  <2>3. CASE cursor \notin region.from..region.to
    BY <1>0, <1>8, <2>1, <2>3 DEF InsertLines, Stays
  <2> QED BY <2>2, <2>3
<1>9. CASE DeleteLines
  <2>1. other' = other /\ alt' = alt /\ cursor' = cursor /\ region' = region
    BY <1>9 DEF DeleteLines
  <2>2. CASE cursor \in region.from..region.to
    <3>1. PICK n \in 1..Smaller(Rows - cursor + 1, RegionSize) : ScrollUp(cursor, region.to, n)
      BY <1>9, <2>2 DEF DeleteLines
    <3>2. Smaller(Rows - cursor + 1, RegionSize) \in Int
          /\ Smaller(Rows - cursor + 1, RegionSize) <= Rows
      BY <1>0, <1>00 DEF Smaller
    <3>3. n \in 0..Rows /\ cursor \in Nat \ {0}   BY <1>0, <3>1, <3>2
    <3> QED BY <1>0, <2>1, <3>1, <3>3, ScrollKinds
  <2>3. CASE cursor \notin region.from..region.to
    BY <1>0, <1>9, <2>1, <2>3 DEF DeleteLines, Stays
  <2> QED BY <2>2, <2>3
<1>10. CASE ClearAll
  <2>1. other' = other /\ alt' = alt /\ cursor' = cursor /\ region' = region
    BY <1>10 DEF ClearAll
  <2>2. CASE alt   BY <1>0, <1>10, <2>1, <2>2 DEF ClearAll, Stays
  <2>3. CASE ~alt
    <3>1. PICK n \in 0..Rows : ScrollUp(1, Rows, n)   BY <1>10, <2>3 DEF ClearAll
    <3>2. 1 \in Nat \ {0} /\ Rows \in 1..Rows   BY <1>0
    <3> QED BY <1>0, <2>1, <3>1, <3>2, ScrollKinds
  <2> QED BY <2>2, <2>3
<1>11. CASE i = "saved" /\ ClearSaved   BY <1>0, <1>11 DEF ClearSaved, Clears
<1>12. CASE i = "reset" /\ ResetState
  BY <1>0, <1>03, <1>12 DEF ResetState, Resets
<1>13. CASE ColumnMode   BY <1>0, <1>03, <1>13 DEF ColumnMode, Stays
<1>14. CASE i = "enter" /\ EnterAlt
  <2>0. shifts' = shifts /\ region' = region /\ cursor' = cursor /\ alt' = TRUE
    BY <1>14 DEF EnterAlt
  <2>1. CASE alt
    <3>1. grid' = grid /\ other' = other /\ fresh' = fresh
      BY <1>14, <2>1 DEF EnterAlt
    <3>2. alt' = alt   BY <1>0, <2>0, <2>1
    <3> QED BY <1>0, <2>0, <3>1, <3>2 DEF Stays
  <2>2. CASE ~alt
    <3>1. /\ other' = grid /\ fresh' = fresh + Rows
          /\ grid' = [view |-> [j \in 1..Rows |-> fresh + j - 1], hist |-> <<>>, limit |-> 0]
      BY <1>14, <2>2 DEF EnterAlt
    <3>2. cursor' \in 1..Rows /\ fresh' \in Nat   BY <1>0, <2>0, <3>1
    <3>3. i = "enter"   BY <1>14
    <3>4. Enters(i)   BY <2>0, <2>2, <3>1, <3>3, Zenon DEF Enters
    <3> QED BY <1>0, <2>0, <3>2, <3>4
  <2> QED BY <2>1, <2>2
<1>15. CASE i = "leave" /\ LeaveAlt
  <2>1. CASE alt   BY <1>0, <1>15, <2>1 DEF LeaveAlt, Leaves
  <2>2. CASE ~alt
    <3>1. /\ grid' = grid /\ other' = other /\ fresh' = fresh /\ alt' = FALSE
          /\ cursor' = cursor /\ shifts' = shifts /\ region' = region
      BY <1>15, <2>2 DEF LeaveAlt
    <3>2. alt' = alt   BY <1>0, <2>2, <3>1
    <3> QED BY <1>0, <3>1, <3>2 DEF Stays
  <2> QED BY <2>1, <2>2
<1> QED BY <1>1, <1>2, <1>3, <1>4, <1>5, <1>6, <1>7, <1>8, <1>9, <1>10, <1>11, <1>12, <1>13,
           <1>14, <1>15 DEF Perform

\* A screen of new rows.
LEMMA NewScreen ==
    ASSUME NEW m \in Nat, NEW f \in Nat
    PROVE  [j \in 1..m |-> f + j - 1] \in Seq(Nat) /\ Len([j \in 1..m |-> f + j - 1]) = m
<1>1. \A j \in 1..m : f + j - 1 \in Nat   OBVIOUS
<1> QED BY <1>1, IsASeq

\* A grid without its history.
LEMMA ClearedIs ==
    ASSUME NEW g, Whole(g)
    PROVE  LET c == [g EXCEPT !.hist = <<>>] IN
           Whole(c) /\ c.hist = <<>> /\ c.limit = g.limit
<1>1. <<>> \in Seq(Nat) /\ Len(<<>>) = 0 /\ g \in Grids /\ Len(g.view) = Rows
  BY DEF Whole
<1>2. LET c == [g EXCEPT !.hist = <<>>] IN
      c \in Grids /\ c.hist = <<>> /\ c.limit = g.limit /\ c.view = g.view
  BY <1>1 DEF Grids
<1>3. g.limit \in Nat   BY <1>1 DEF Grids
<1> QED BY <1>1, <1>2, <1>3 DEF Whole

\* The grids after one input.  Unless the input counts as breaking, a primary
\* screen stays, rows only join its history, and none is lost below the limit.
LEMMA Fed ==
    ASSUME IInv, NEW i, Feed(i)
    PROVE  /\ Whole(grid') /\ Whole(other') /\ alt' \in BOOLEAN
           /\ alt' => grid'.hist = <<>> /\ grid'.limit = 0
                      /\ other'.limit \in {capacity, RaisedLimit}
           /\ ~alt' => other'.hist = <<>> /\ other'.limit = 0
                       /\ grid'.limit \in {capacity, RaisedLimit}
           /\ i \notin MayBreak /\ ~alt =>
                /\ ~alt' /\ grid'.limit = grid.limit
                /\ Len(grid'.hist) >= Len(grid.hist)
                /\ grid'.hist = grid.hist
                   \/ (Len(grid.hist) < grid.limit => Len(grid'.hist) > Len(grid.hist))
                /\ Len(grid'.hist) < grid.limit /\ shifts' = shifts =>
                     /\ Len(grid.hist) < grid.limit
                     /\ \A j \in 1..(Len(grid.hist) + Rows) : RowAt(grid', j) = RowAt(grid, j)
<1>0. /\ Rows \in Nat \ {0} /\ Whole(grid) /\ Whole(other) /\ alt \in BOOLEAN /\ fresh \in Nat
      /\ grid.hist \in Seq(Nat) /\ Len(grid.hist) \in Nat /\ grid.limit \in Nat
      /\ grid.view \in Seq(Nat) /\ Len(grid.view) = Rows /\ Len(grid.hist) <= grid.limit
      /\ grid \in Grids
  BY Sizes DEF IInv, TypeInv, Whole, Grids
<1>1. CASE Stays
  BY <1>0, <1>1 DEF IInv, LimitInv, Stays
<1>2. CASE Ups
  <2>1. PICK a \in Nat \ {0}, b \in 1..Rows, n \in 0..Rows :
          /\ grid' = ScrolledUp(grid, a, b, n)
          /\ shifts' = shifts => n = 0 \/ (a = 1 /\ b = Rows)
    BY <1>2 DEF Ups
  <2>2. other' = other /\ alt' = alt   BY <1>2 DEF Ups
  <2>3. /\ Whole(grid') /\ grid'.limit = grid.limit
        /\ grid'.hist = grid.hist \/ (a = 1 /\ n > 0)
        /\ a = 1 => Len(grid'.hist) = Smaller(Len(grid.hist) + n, grid.limit)
        /\ n = 0 => grid'.view = grid.view
        /\ a = 1 /\ b = Rows /\ Len(grid.hist) + n <= grid.limit =>
             \A j \in 1..(Len(grid.hist) + Rows) : RowAt(grid', j) = RowAt(grid, j)
    <3>1. LET c == ScrolledUp(grid, a, b, n) IN
          /\ Whole(c) /\ c.limit = grid.limit
          /\ c.hist = grid.hist \/ (a = 1 /\ n > 0)
          /\ a = 1 => Len(c.hist) = Smaller(Len(grid.hist) + n, grid.limit)
          /\ n = 0 => c.view = grid.view
          /\ a = 1 /\ b = Rows /\ Len(grid.hist) + n <= grid.limit =>
               \A j \in 1..(Len(grid.hist) + Rows) : RowAt(c, j) = RowAt(grid, j)
      BY <1>0, <2>1, ScrolledIs
    <3> QED BY <2>1, <3>1
  <2>4. n \in Nat   BY <1>0
  <2>5. a = 1 /\ n > 0 =>
          /\ Len(grid'.hist) >= Len(grid.hist)
          /\ Len(grid.hist) < grid.limit => Len(grid'.hist) > Len(grid.hist)
          /\ Len(grid'.hist) < grid.limit => Len(grid.hist) + n <= grid.limit
                                             /\ Len(grid.hist) < grid.limit
    BY <1>0, <2>3, <2>4 DEF Smaller
  <2>6. ASSUME Len(grid'.hist) < grid.limit, shifts' = shifts
        PROVE  /\ Len(grid.hist) < grid.limit
               /\ \A j \in 1..(Len(grid.hist) + Rows) : RowAt(grid', j) = RowAt(grid, j)
    <3>1. CASE n = 0
      <4>1. grid'.hist = grid.hist /\ grid'.view = grid.view   BY <2>3, <3>1
      <4> QED BY <2>6, <4>1 DEF RowAt
    <3>2. CASE n # 0
      <4>1. a = 1 /\ b = Rows /\ n > 0   BY <2>1, <2>4, <2>6, <3>2
      <4> QED BY <2>3, <2>5, <2>6, <4>1
    <3> QED BY <3>1, <3>2
  <2>7. ASSUME alt' PROVE grid'.hist = <<>> /\ grid'.limit = 0
    <3>1. grid.limit = 0   BY <2>2, <2>7 DEF IInv, LimitInv
    <3>2. Len(grid'.hist) = 0 /\ grid'.hist \in Seq(Nat)   BY <2>3, <3>1 DEF Whole, Grids
    <3> QED BY <2>3, <3>1, <3>2, EmptySeq
  <2>8. /\ Len(grid'.hist) >= Len(grid.hist)
        /\ grid'.hist = grid.hist
           \/ (Len(grid.hist) < grid.limit => Len(grid'.hist) > Len(grid.hist))
    BY <1>0, <2>3, <2>5
  <2>9. alt => other.limit \in {capacity, RaisedLimit}   BY DEF IInv, LimitInv
  <2>10. ~alt => /\ other.hist = <<>> /\ other.limit = 0
                 /\ grid.limit \in {capacity, RaisedLimit}
    BY DEF IInv, LimitInv
  <2> QED BY <1>0, <2>2, <2>3, <2>6, <2>7, <2>8, <2>9, <2>10
<1>3. CASE Downs
  <2>1. PICK a \in Nat \ {0}, b \in 1..Rows, n \in 0..Rows :
          /\ grid' = ScrolledDown(grid, a, b, n)
          /\ shifts' = shifts => n = 0
    BY <1>3 DEF Downs
  <2>2. other' = other /\ alt' = alt   BY <1>3 DEF Downs
  <2>3. /\ Whole(grid') /\ grid'.limit = grid.limit /\ grid'.hist = grid.hist
        /\ n = 0 => grid'.view = grid.view
    BY <1>0, <2>1, BackIs
  <2>4. shifts' = shifts => \A j \in 1..(Len(grid.hist) + Rows) : RowAt(grid', j) = RowAt(grid, j)
    BY <2>1, <2>3 DEF RowAt
  <2> QED BY <1>0, <2>2, <2>3, <2>4 DEF IInv, LimitInv
<1>4. CASE Clears(i)
  <2>1. grid'.hist = <<>> /\ grid'.limit = grid.limit /\ Whole(grid')
    BY <1>0, <1>4, ClearedIs DEF Clears
  <2> QED BY <1>0, <1>4, <2>1 DEF IInv, LimitInv, MayBreak, Clears
<1>5. CASE Enters(i)
  <2>1. /\ [j \in 1..Rows |-> fresh + j - 1] \in Seq(Nat)
        /\ Len([j \in 1..Rows |-> fresh + j - 1]) = Rows
    BY <1>0, NewScreen
  <2>0. <<>> \in Seq(Nat) /\ Len(<<>>) = 0   OBVIOUS
  <2>2. Whole(grid') /\ grid'.hist = <<>> /\ grid'.limit = 0
    <3> DEFINE v == [j \in 1..Rows |-> fresh + j - 1]
    <3> HIDE DEF v
    <3>1. grid' = [view |-> v, hist |-> <<>>, limit |-> 0]   BY <1>5 DEF v, Enters
    <3>2. v \in Seq(Nat) /\ Len(v) = Rows   BY <2>1 DEF v
    <3> QED BY <2>0, <3>1, <3>2 DEF Whole, Grids
  <2> QED BY <1>0, <1>5, <2>2 DEF IInv, LimitInv, MayBreak, Enters
<1>6. CASE Leaves(i)
  BY <1>0, <1>6 DEF IInv, LimitInv, Leaves
<1>7. CASE Resets(i)
  <2> DEFINE main == IF alt THEN other ELSE grid
             side == IF alt THEN grid ELSE other
  <2>1. /\ Whole(main) /\ Whole(side) /\ side.limit = 0
        /\ main.limit \in {capacity, RaisedLimit}
    BY <1>0 DEF IInv, LimitInv
  <2>2. /\ alt' = FALSE /\ grid' = [main EXCEPT !.hist = <<>>]
        /\ other' = [side EXCEPT !.hist = <<>>] /\ i \in MayBreak
    BY <1>7 DEF Resets, MayBreak
  <2> HIDE DEF main, side
  <2>3. Whole(grid') /\ grid'.limit = main.limit   BY <2>1, <2>2, ClearedIs
  <2>4. Whole(other') /\ other'.hist = <<>> /\ other'.limit = side.limit
    BY <2>1, <2>2, ClearedIs
  <2> QED BY <2>1, <2>2, <2>3, <2>4
<1>8. TypeInv   BY DEF IInv
<1> QED BY <1>1, <1>2, <1>3, <1>4, <1>5, <1>6, <1>7, <1>8, PerformKinds

-----------------------------------------------------------------------------
(* The steps. *)

LEMMA OnBatch == ASSUME TypeInv, batch.on PROVE batch \in Batches
BY DEF TypeInv, Idle

LEMMA GridTypes ==
    ASSUME NEW g, Whole(g)
    PROVE  /\ g \in Grids /\ g.hist \in Seq(Nat) /\ Len(g.hist) \in Nat
           /\ g.limit \in Nat /\ Len(g.hist) <= g.limit
           /\ g.view \in Seq(Nat) /\ Len(g.view) = Rows
BY DEF Whole, Grids

LEMMA InitHolds == Init => IInv
<1> SUFFICES ASSUME Init PROVE IInv   OBVIOUS
<1>1. /\ Rows \in Nat \ {0} /\ capacity \in Nat /\ MaxInput \in Nat /\ batch = Idle
      /\ <<>> \in Seq(Nat) /\ Len(<<>>) = 0
  BY Sizes DEF Init
<1>2. Whole(grid) /\ grid.hist = <<>> /\ grid.limit = capacity
  <2> DEFINE v == [i \in 1..Rows |-> i]
  <2>1. v \in Seq(Nat) /\ Len(v) = Rows   BY <1>1, IsASeq
  <2> HIDE DEF v
  <2>2. grid = [view |-> v, hist |-> <<>>, limit |-> capacity]   BY DEF Init, v
  <2> QED BY <1>1, <2>1, <2>2 DEF Whole, Grids
<1>3. Whole(other) /\ other.hist = <<>> /\ other.limit = 0
  <2> DEFINE v == [i \in 1..Rows |-> Rows + i]
  <2>1. v \in Seq(Nat) /\ Len(v) = Rows
    <3>1. \A i \in 1..Rows : Rows + i \in Nat   BY <1>1
    <3> QED BY <1>1, <3>1, IsASeq
  <2> HIDE DEF v
  <2>2. other = [view |-> v, hist |-> <<>>, limit |-> 0]   BY DEF Init, v
  <2> QED BY <1>1, <2>1, <2>2 DEF Whole, Grids
<1>4. TypeInv
  <2>1. markers \in Seq(Markers) /\ cached \in [hver : Nat, rows : Seq(Nat)]
    BY <1>1 DEF Init
  <2>2. /\ alt \in BOOLEAN /\ cursor \in 1..Rows /\ fresh \in Nat
        /\ top \in Nat /\ epoch \in Nat /\ hver \in Nat /\ shifts \in Nat /\ left \in Nat
        /\ region \in Regions
    <3>1. alt \in BOOLEAN   BY DEF Init
    <3>2. cursor = 1 /\ fresh = 2 * Rows + 1 /\ top = 0 /\ epoch = 0 /\ hver = 0
          /\ shifts = 0 /\ left = MaxInput
      BY DEF Init
    <3>3. region \in Regions   BY <1>1 DEF Init, WholeScreen, Regions
    <3> QED BY <1>1, <3>1, <3>2, <3>3
  <2> QED BY <1>1, <1>2, <1>3, <2>1, <2>2 DEF TypeInv
<1>5. ~batch.on   BY <1>1 DEF Idle
<1>6. LimitInv   BY <1>2, <1>3, <1>5 DEF Init, LimitInv
<1>7. BatchInv   BY <1>5 DEF BatchInv, Counting
<1>8. FloorIsReal   BY <1>1, <1>2 DEF Init, FloorIsReal
<1>9. CacheInv
  BY <1>2, <1>5 DEF Init, CacheInv, CacheBelowCapacityIsExact, CacheMatches, Counting
<1> QED BY <1>4, <1>6, <1>7, <1>8, <1>9 DEF IInv

LEMMA StutterStep == ASSUME IInv, UNCHANGED vars PROVE IInv'
<1>1. UNCHANGED <<grid, other, alt, cursor, region, fresh, capacity, top, epoch, hver, markers,
                  batch, cached, shifts, left>>
  BY DEF vars, term, pane
<1> QED BY <1>1 DEF IInv, TypeInv, Whole, LimitInv, RaisedLimit, BatchInv, Counting, FloorIsReal,
                    CacheInv, CacheBelowCapacityIsExact, CacheMatches

\* One input, as the batch sees it.
LEMMA FedBatch ==
    ASSUME TypeInv, NEW i, Feed(i)
    PROVE  /\ batch \in Batches /\ batch.on /\ batch.step
           /\ batch' \in Batches /\ batch'.on /\ batch'.step
           /\ batch'.break <=> batch.break \/ i \in MayBreak
           /\ batch'.top = batch.top /\ batch'.size = batch.size
           /\ batch'.size0 = batch.size0
           /\ batch'.primary = batch.primary /\ batch'.granted = batch.granted
           /\ batch'.saturated = batch.saturated /\ batch'.alt0 = batch.alt0
<1>1. /\ batch.on /\ batch.step
      /\ batch' = [batch EXCEPT !.room = @ - 1, !.rotate = @ \/ i \in MayRotate,
                                !.break = @ \/ i \in MayBreak]
  BY DEF Feed
<1>2. batch \in Batches   BY <1>1, OnBatch
<1> DEFINE rot == batch.rotate \/ i \in MayRotate
           brk == batch.break \/ i \in MayBreak
<1>3. rot \in BOOLEAN /\ brk \in BOOLEAN   OBVIOUS
<1>4. batch' = [batch EXCEPT !.room = @ - 1, !.rotate = rot, !.break = brk]   BY <1>1
<1>5. brk <=> batch.break \/ i \in MayBreak   OBVIOUS
<1> HIDE DEF rot, brk
<1>6. /\ batch' \in Batches /\ batch'.on /\ batch'.step /\ batch'.break = brk
      /\ batch'.top = batch.top /\ batch'.size = batch.size
      /\ batch'.size0 = batch.size0
      /\ batch'.primary = batch.primary /\ batch'.granted = batch.granted
      /\ batch'.saturated = batch.saturated /\ batch'.alt0 = batch.alt0
  <2>1. batch.room - 1 \in Int   BY <1>2 DEF Batches
  <2>2. batch' \in Batches   BY <1>2, <1>3, <1>4, <2>1 DEF Batches
  <2>3. batch'.on = batch.on /\ batch'.step = batch.step   BY <1>2, <1>4 DEF Batches
  <2>4. /\ batch'.break = brk
        /\ batch'.top = batch.top /\ batch'.size = batch.size
        /\ batch'.size0 = batch.size0
    BY <1>2, <1>4 DEF Batches
  <2>5. /\ batch'.primary = batch.primary /\ batch'.granted = batch.granted
        /\ batch'.saturated = batch.saturated /\ batch'.alt0 = batch.alt0
    BY <1>2, <1>4 DEF Batches
  <2> QED BY <1>1, <2>2, <2>3, <2>4, <2>5
<1> QED BY <1>1, <1>2, <1>5, <1>6

LEMMA FeedStep == ASSUME IInv, NEW i, Feed(i) PROVE IInv'
<1>0. TypeInv   BY DEF IInv
<1>1. /\ batch \in Batches /\ batch.on /\ batch.step
      /\ batch' \in Batches /\ batch'.on /\ batch'.step
      /\ batch'.break <=> batch.break \/ i \in MayBreak
      /\ batch'.top = batch.top /\ batch'.size = batch.size
      /\ batch'.size0 = batch.size0
      /\ batch'.primary = batch.primary /\ batch'.granted = batch.granted
      /\ batch'.alt0 = batch.alt0
  BY <1>0, FedBatch
<1>2. /\ UNCHANGED <<capacity, top, epoch, hver, markers, cached>> /\ RaisedLimit' = RaisedLimit
      /\ left' \in Nat
  BY <1>0 DEF Feed, pane, RaisedLimit, TypeInv
<1>3. /\ Whole(grid') /\ Whole(other') /\ alt' \in BOOLEAN
      /\ alt' => grid'.hist = <<>> /\ grid'.limit = 0
                 /\ other'.limit \in {capacity, RaisedLimit}
      /\ ~alt' => other'.hist = <<>> /\ other'.limit = 0
                  /\ grid'.limit \in {capacity, RaisedLimit}
      /\ i \notin MayBreak /\ ~alt =>
           /\ ~alt' /\ grid'.limit = grid.limit
           /\ Len(grid'.hist) >= Len(grid.hist)
           /\ grid'.hist = grid.hist
              \/ (Len(grid.hist) < grid.limit => Len(grid'.hist) > Len(grid.hist))
  BY Fed
<1>4. cursor' \in 1..Rows /\ fresh' \in Nat /\ region' \in Regions' /\ shifts' \in Nat
  <2>1. /\ cursor' \in 1..Rows /\ fresh' \in Nat /\ region' \in Regions
        /\ shifts' \in {shifts, shifts + 1}
    BY <1>0, PerformKinds
  <2>2. shifts \in Nat   BY <1>0 DEF TypeInv
  <2> QED BY <2>1, <2>2 DEF Regions
<1>5. TypeInv'   BY <1>0, <1>1, <1>2, <1>3, <1>4 DEF TypeInv, Whole
<1>6. LimitInv'   BY <1>1, <1>2, <1>3 DEF LimitInv
<1>7. Counting' => Counting /\ i \notin MayBreak /\ ~alt
  BY <1>1 DEF Counting, IInv, BatchInv
<1>8. /\ Len(grid.hist) \in Nat /\ Len(grid'.hist) \in Nat /\ capacity \in Nat
      /\ batch.size \in Nat /\ batch.size0 \in Nat
  BY <1>0, <1>1, <1>3, GridTypes DEF TypeInv, Batches
<1>9. BatchInv'
  <2>1. Counting' => /\ ~alt' /\ batch'.primary
                     /\ batch'.size <= batch'.top /\ batch'.size <= Len(grid'.hist)
                     /\ batch'.granted => grid'.limit = RaisedLimit'
                     /\ batch'.step => batch'.granted
    BY <1>1, <1>2, <1>3, <1>7, <1>8 DEF IInv, BatchInv
  <2>2. batch'.on /\ batch'.alt0 => batch'.size0 = 0   BY <1>1 DEF IInv, BatchInv
  <2> QED BY <1>1, <2>1, <2>2 DEF BatchInv
<1>10. FloorIsReal'   BY <1>1 DEF FloorIsReal
<1>11. CacheInv'
  <2>1. cached'.hver <= hver' /\ CacheBelowCapacityIsExact'
    BY <1>1, <1>2 DEF IInv, CacheInv, CacheBelowCapacityIsExact
  <2>2. ASSUME Counting', batch'.size0 < capacity'
        PROVE  \/ Len(grid'.hist) > batch'.size0
               \/ /\ Len(grid'.hist) = batch'.size0
                  /\ cached'.hver = hver' /\ Len(cached'.rows) = batch'.size0
                       => cached'.rows = grid'.hist
    <3>1. /\ Len(grid'.hist) >= Len(grid.hist)
          /\ grid'.hist = grid.hist
             \/ (Len(grid.hist) < grid.limit => Len(grid'.hist) > Len(grid.hist))
      BY <1>3, <1>7, <2>2
    <3>2. \/ Len(grid.hist) > batch.size0
          \/ /\ Len(grid.hist) = batch.size0
             /\ cached.hver = hver /\ Len(cached.rows) = batch.size0
                  => cached.rows = grid.hist
      BY <1>1, <1>2, <1>7, <2>2 DEF IInv, CacheInv
    <3>3. batch.size0 < grid.limit
      <4>1. grid.limit \in {capacity, RaisedLimit} /\ batch.size0 < capacity
        BY <1>1, <1>2, <1>7, <2>2 DEF IInv, LimitInv
      <4>2. RaisedLimit \in Nat /\ capacity <= RaisedLimit   BY <1>8, Sizes DEF RaisedLimit
      <4> QED BY <1>8, <4>1, <4>2
    <3> QED BY <1>1, <1>2, <1>8, <3>1, <3>2, <3>3
  <2> QED BY <2>1, <2>2 DEF CacheInv
<1> QED BY <1>5, <1>6, <1>9, <1>10, <1>11 DEF IInv

\* The batch as it begins.
LEMMA BegunBatch ==
    ASSUME TypeInv, BeginBatch
    PROVE  /\ batch' \in Batches /\ batch'.on /\ ~batch'.step /\ ~batch'.break
           /\ batch'.top = top /\ batch'.size = Len(grid.hist)
           /\ batch'.size0 = Len(grid.hist)
           /\ (batch'.primary <=> ~alt) /\ ~batch'.granted /\ ~batch'.saturated
           /\ (batch'.alt0 <=> alt)
<1> DEFINE p == ~alt
           h == Len(grid.hist)
<1>1. h \in Nat /\ p \in BOOLEAN /\ alt \in BOOLEAN /\ top \in Nat /\ cursor \in Nat
  BY GridTypes, Sizes DEF TypeInv
<1> HIDE DEF p, h
<1>2. batch' = [on |-> TRUE, step |-> FALSE, room |-> 0,
                top |-> top, size |-> h, primary |-> p,
                granted |-> FALSE, saturated |-> FALSE,
                rotate |-> FALSE, break |-> FALSE,
                size0 |-> h, cursor0 |-> cursor, alt0 |-> alt]
  BY DEF BeginBatch, p, h
<1>3. batch' \in Batches   BY <1>1, <1>2 DEF Batches
<1>4. /\ batch'.on = TRUE /\ batch'.step = FALSE /\ batch'.break = FALSE
      /\ batch'.top = top /\ batch'.size = h /\ batch'.size0 = h
      /\ batch'.primary = p /\ batch'.granted = FALSE /\ batch'.saturated = FALSE
      /\ batch'.alt0 = alt
  BY <1>2
<1> QED BY <1>1, <1>3, <1>4 DEF p, h

LEMMA BeginBatchStep == ASSUME IInv, BeginBatch PROVE IInv'
<1>0. TypeInv   BY DEF IInv
<1>1. /\ ~batch.on
      /\ UNCHANGED <<grid, other, alt, cursor, region, fresh, capacity, top, epoch, hver, markers,
                     cached, shifts, left>>
  BY DEF BeginBatch, term, pane
<1>2. /\ batch' \in Batches /\ batch'.on /\ ~batch'.step /\ ~batch'.break
      /\ batch'.top = top /\ batch'.size = Len(grid.hist) /\ batch'.size0 = Len(grid.hist)
      /\ (batch'.primary <=> ~alt) /\ ~batch'.granted /\ (batch'.alt0 <=> alt)
  BY <1>0, BegunBatch
<1>3. TypeInv'   BY <1>0, <1>1, <1>2 DEF TypeInv, Whole
<1>4. Len(grid.hist) \in Nat /\ Len(grid.hist) <= grid.limit /\ top \in Nat
  BY <1>0, GridTypes DEF TypeInv
<1>5. top >= Len(grid.hist) /\ (~alt => Len(grid.hist) <= capacity)
  BY <1>1, <1>4 DEF IInv, FloorIsReal, LimitInv
<1>6. alt => Len(grid.hist) = 0   BY DEF IInv, LimitInv
<1>7. LimitInv'   BY <1>1, <1>2 DEF IInv, LimitInv, RaisedLimit
<1>8. BatchInv'   BY <1>1, <1>2, <1>4, <1>5, <1>6 DEF BatchInv, Counting
<1>9. FloorIsReal'   BY <1>2 DEF FloorIsReal
<1>10. CacheInv'
  <2>1. cached'.hver <= hver' /\ CacheBelowCapacityIsExact'
    BY <1>1, <1>2 DEF IInv, CacheInv, CacheBelowCapacityIsExact
  <2>2. CacheBelowCapacityIsExact   BY DEF IInv, CacheInv
  <2> QED BY <1>1, <1>2, <2>1, <2>2 DEF CacheInv, CacheBelowCapacityIsExact, CacheMatches
<1> QED BY <1>3, <1>7, <1>8, <1>9, <1>10 DEF IInv

\* The limit goes up: nothing else does.
LEMMA BegunStep ==
    ASSUME IInv, BeginStep
    PROVE  /\ batch \in Batches /\ batch.on /\ ~batch.step
           /\ batch' \in Batches /\ batch'.on /\ batch'.step
           /\ (batch'.granted <=> batch.granted \/ batch.primary)
           /\ batch'.top = batch.top /\ batch'.size = batch.size
           /\ batch'.size0 = batch.size0
           /\ batch'.primary = batch.primary /\ batch'.break = batch.break
           /\ batch'.saturated = batch.saturated /\ batch'.alt0 = batch.alt0
           /\ Whole(grid') /\ grid'.hist = grid.hist /\ grid'.view = grid.view
           /\ alt => grid' = grid
           /\ ~alt => grid'.limit = IF batch.granted THEN grid.limit ELSE RaisedLimit
           /\ UNCHANGED <<other, alt, cursor, region, fresh, capacity, top, epoch, hver, markers,
                          cached, shifts, left>>
<1>0. TypeInv   BY DEF IInv
<1> DEFINE gr == batch.granted \/ batch.primary
           room == IF ~batch.primary THEN left
                   ELSE IF RaisedLimit > batch.size THEN RaisedLimit - batch.size ELSE 1
<1>1. /\ batch.on /\ ~batch.step
      /\ grid' = IF batch.primary /\ ~batch.granted THEN Limited(grid, RaisedLimit) ELSE grid
      /\ batch' = [batch EXCEPT !.step = TRUE, !.granted = gr, !.room = room]
      /\ UNCHANGED <<other, alt, cursor, region, fresh, capacity, top, epoch, hver, markers,
                     cached, shifts, left>>
  BY DEF BeginStep, pane
<1>2. batch \in Batches   BY <1>0, <1>1, OnBatch
<1>3. /\ capacity \in Nat /\ RaisedLimit \in Nat /\ capacity <= RaisedLimit
      /\ left \in Int /\ batch.size \in Nat
  BY <1>0, <1>2, Sizes DEF TypeInv, RaisedLimit, Batches
<1>4. room \in Int   BY <1>3
<1>5. gr \in BOOLEAN /\ (gr <=> batch.granted \/ batch.primary)   OBVIOUS
<1> HIDE DEF gr, room
<1>6. batch' \in Batches   BY <1>1, <1>2, <1>4, <1>5 DEF Batches
<1>7. /\ batch'.on = batch.on /\ batch'.step = TRUE /\ batch'.granted = gr
      /\ batch'.top = batch.top /\ batch'.size = batch.size
      /\ batch'.size0 = batch.size0
  BY <1>1, <1>2 DEF Batches
<1>8. /\ batch'.primary = batch.primary /\ batch'.break = batch.break
      /\ batch'.saturated = batch.saturated /\ batch'.alt0 = batch.alt0
  BY <1>1, <1>2 DEF Batches
<1>9. Whole(grid) /\ grid \in Grids /\ Len(grid.view) = Rows /\ Len(grid.hist) \in Nat
  BY <1>0, GridTypes DEF TypeInv
<1>10. (batch.primary <=> ~alt) /\ (~alt => Len(grid.hist) <= capacity)
  BY <1>1 DEF IInv, BatchInv
<1>11. CASE batch.primary /\ ~batch.granted
  <2>1. Len(grid.hist) <= RaisedLimit   BY <1>3, <1>9, <1>10, <1>11
  <2>2. LET c == Limited(grid, RaisedLimit) IN
          /\ Whole(c) /\ c.view = grid.view /\ c.limit = RaisedLimit
          /\ Len(grid.hist) <= RaisedLimit => c.hist = grid.hist
    BY <1>3, <1>9, LimitedIs
  <2>3. /\ Whole(grid') /\ grid'.view = grid.view /\ grid'.limit = RaisedLimit
        /\ grid'.hist = grid.hist
    BY <1>1, <1>11, <2>1, <2>2
  <2> QED BY <1>1, <1>2, <1>5, <1>6, <1>7, <1>8, <1>10, <1>11, <2>3
<1>12. CASE ~(batch.primary /\ ~batch.granted)
  <2>1. grid' = grid   BY <1>1, <1>12
  <2> QED BY <1>1, <1>2, <1>5, <1>6, <1>7, <1>8, <1>9, <1>10, <1>12, <2>1
<1> QED BY <1>11, <1>12

LEMMA BeginStepStep == ASSUME IInv, BeginStep PROVE IInv'
<1>0. TypeInv   BY DEF IInv
<1>1. /\ batch \in Batches /\ batch.on /\ ~batch.step
      /\ batch' \in Batches /\ batch'.on /\ batch'.step
      /\ (batch'.granted <=> batch.granted \/ batch.primary)
      /\ batch'.top = batch.top /\ batch'.size = batch.size
      /\ batch'.size0 = batch.size0
      /\ batch'.primary = batch.primary /\ batch'.break = batch.break
      /\ batch'.alt0 = batch.alt0
  BY BegunStep
<1>2. /\ Whole(grid') /\ grid'.hist = grid.hist
      /\ alt => grid' = grid
      /\ ~alt => grid'.limit = IF batch.granted THEN grid.limit ELSE RaisedLimit
      /\ UNCHANGED <<other, alt, cursor, region, fresh, capacity, top, epoch, hver, markers,
                     cached, shifts, left>>
  BY BegunStep
<1>3. TypeInv'   BY <1>0, <1>1, <1>2 DEF TypeInv, Whole
<1>4. RaisedLimit' = RaisedLimit /\ (Counting' <=> Counting)
  BY <1>1, <1>2 DEF RaisedLimit, Counting
<1>5. LimitInv'   BY <1>1, <1>2, <1>4 DEF IInv, LimitInv
<1>6. BatchInv'   BY <1>1, <1>2, <1>4 DEF IInv, BatchInv
<1>7. FloorIsReal'   BY <1>1 DEF FloorIsReal
<1>8. CacheInv'
  BY <1>1, <1>2, <1>4 DEF IInv, CacheInv, CacheBelowCapacityIsExact
<1> QED BY <1>3, <1>5, <1>6, <1>7, <1>8 DEF IInv

\* Growth is counted and the history cut back to the capacity.
LEMMA EndedStep ==
    ASSUME IInv, EndStep
    PROVE  /\ batch \in Batches /\ batch.on /\ batch.step
           /\ batch' \in Batches /\ batch'.on /\ ~batch'.step
           /\ batch'.size0 = batch.size0 /\ batch'.break = batch.break
           /\ batch'.alt0 = batch.alt0
           /\ (batch'.primary <=> ~alt)
           /\ Whole(grid') /\ grid'.view = grid.view
           /\ alt => grid' = grid
           /\ ~alt =>
                /\ batch'.size = Len(grid'.hist)
                /\ Len(grid'.hist) = Smaller(Len(grid.hist), capacity)
                /\ grid'.limit \in {capacity, grid.limit}
                /\ Len(grid.hist) <= capacity => grid'.hist = grid.hist
                /\ batch'.granted => batch.granted /\ grid'.limit = grid.limit
                /\ batch.primary =>
                     batch'.top = batch.top + (IF Len(grid.hist) > batch.size
                                               THEN Len(grid.hist) - batch.size ELSE 0)
                /\ batch'.saturated <=> batch.saturated
                                        \/ (batch.primary /\ Len(grid.hist) >= RaisedLimit)
                /\ \A j \in 1..Len(grid'.hist) :
                     grid'.hist[j] = grid.hist[Len(grid.hist) - Len(grid'.hist) + j]
           /\ UNCHANGED <<other, alt, cursor, region, fresh, capacity, top, epoch, hver, markers,
                          cached, shifts, left>>
<1>0. TypeInv   BY DEF IInv
<1> DEFINE h == Len(grid.hist)
           counted == IF h > batch.size THEN h - batch.size ELSE 0
           evict == h > capacity
           sat == batch.saturated \/ (batch.primary /\ h >= RaisedLimit)
           tp == IF batch.primary THEN batch.top + counted ELSE batch.top
           gr == batch.granted /\ ~evict
           sz == IF evict THEN capacity ELSE h
<1>1. /\ batch.on /\ batch.step
      /\ UNCHANGED <<other, alt, cursor, region, fresh, capacity, top, epoch, hver, markers,
                     cached, shifts, left>>
  BY DEF EndStep, pane
<1>2. batch \in Batches   BY <1>0, <1>1, OnBatch
<1>3. /\ Whole(grid) /\ grid \in Grids /\ Len(grid.view) = Rows /\ h \in Nat
      /\ grid.hist \in Seq(Nat) /\ capacity \in Nat /\ batch.size \in Nat /\ batch.top \in Nat
      /\ alt \in BOOLEAN
  BY <1>0, <1>2, GridTypes DEF TypeInv, Batches
<1>4. CASE alt
  <2>1. grid' = grid /\ batch' = [batch EXCEPT !.step = FALSE, !.primary = FALSE]
    BY <1>4 DEF EndStep
  <2>2. batch' \in Batches   BY <1>2, <2>1 DEF Batches
  <2>3. /\ batch'.on = batch.on /\ batch'.step = FALSE /\ batch'.primary = FALSE
        /\ batch'.size0 = batch.size0 /\ batch'.break = batch.break
        /\ batch'.alt0 = batch.alt0
    BY <1>2, <2>1 DEF Batches
  <2> QED BY <1>1, <1>2, <1>3, <1>4, <2>1, <2>2, <2>3
<1>5. CASE ~alt
  <2>1. /\ grid' = IF evict THEN Limited(grid, capacity) ELSE grid
        /\ batch' = [batch EXCEPT !.step = FALSE, !.primary = TRUE, !.saturated = sat,
                                  !.top = tp, !.granted = gr, !.size = sz]
    BY <1>5 DEF EndStep
  <2>2. sat \in BOOLEAN /\ gr \in BOOLEAN   OBVIOUS
  <2>3. tp \in Nat /\ sz \in Nat /\ sz = Smaller(h, capacity)   BY <1>3 DEF Smaller
  <2>4. LET c == Limited(grid, capacity) IN
          /\ Whole(c) /\ c.view = grid.view /\ c.limit = capacity
          /\ Len(c.hist) = Smaller(h, capacity)
          /\ h <= capacity => c.hist = grid.hist
          /\ \A j \in 1..Len(c.hist) : c.hist[j] = grid.hist[h - Len(c.hist) + j]
    BY <1>3, LimitedIs
  <2>5. /\ Whole(grid') /\ grid'.view = grid.view
        /\ Len(grid'.hist) = Smaller(h, capacity)
        /\ grid'.limit \in {capacity, grid.limit}
        /\ ~evict => grid' = grid
        /\ \A j \in 1..Len(grid'.hist) : grid'.hist[j] = grid.hist[h - Len(grid'.hist) + j]
    <3>1. CASE evict   BY <2>1, <2>4, <3>1
    <3>2. CASE ~evict
      <4>1. grid' = grid /\ Smaller(h, capacity) = h   BY <1>3, <2>1, <3>2 DEF Smaller
      <4>2. \A j \in 1..h : h - h + j = j   BY <1>3
      <4> QED BY <1>3, <4>1, <4>2
    <3> QED BY <3>1, <3>2
  <2>6. h <= capacity => ~evict   BY <1>3
  <2>7. sat <=> batch.saturated \/ (batch.primary /\ Len(grid.hist) >= RaisedLimit)   OBVIOUS
  <2>8. gr => batch.granted /\ ~evict   OBVIOUS
  <2>9. batch.primary => tp = batch.top + (IF Len(grid.hist) > batch.size
                                           THEN Len(grid.hist) - batch.size ELSE 0)
    OBVIOUS
  <2> HIDE DEF sat, tp, gr, sz, evict
  <2>10. batch' \in Batches   BY <1>2, <2>1, <2>2, <2>3 DEF Batches
  <2>11. /\ batch'.on = batch.on /\ batch'.step = FALSE /\ batch'.primary = TRUE
         /\ batch'.saturated = sat /\ batch'.top = tp /\ batch'.granted = gr
         /\ batch'.size = sz
    BY <1>2, <2>1 DEF Batches
  <2>12. /\ batch'.size0 = batch.size0 /\ batch'.break = batch.break
         /\ batch'.alt0 = batch.alt0
    BY <1>2, <2>1 DEF Batches
  <2>13. Len(grid.hist) <= capacity => grid'.hist = grid.hist   BY <2>5, <2>6
  <2>14. batch'.granted => batch.granted /\ grid'.limit = grid.limit   BY <2>5, <2>8, <2>11
  <2> QED BY <1>1, <1>2, <1>5, <2>3, <2>5, <2>7, <2>9, <2>10, <2>11, <2>12, <2>13, <2>14
<1> QED BY <1>3, <1>4, <1>5

LEMMA EndStepStep == ASSUME IInv, EndStep PROVE IInv'
<1>0. TypeInv   BY DEF IInv
<1>1. /\ batch \in Batches /\ batch.on /\ batch.step
      /\ batch' \in Batches /\ batch'.on /\ ~batch'.step
      /\ batch'.size0 = batch.size0 /\ batch'.break = batch.break
      /\ batch'.alt0 = batch.alt0
      /\ (batch'.primary <=> ~alt)
      /\ Whole(grid') /\ (alt => grid' = grid)
      /\ UNCHANGED <<other, alt, cursor, region, fresh, capacity, top, epoch, hver, markers,
                     cached, shifts, left>>
  BY EndedStep
<1>2. ~alt => /\ batch'.size = Len(grid'.hist)
              /\ Len(grid'.hist) = Smaller(Len(grid.hist), capacity)
              /\ grid'.limit \in {capacity, grid.limit}
              /\ Len(grid.hist) <= capacity => grid'.hist = grid.hist
              /\ batch'.granted => batch.granted /\ grid'.limit = grid.limit
              /\ batch.primary =>
                   batch'.top = batch.top + (IF Len(grid.hist) > batch.size
                                             THEN Len(grid.hist) - batch.size ELSE 0)
  BY EndedStep
<1>3. TypeInv'   BY <1>0, <1>1 DEF TypeInv, Whole
<1>4. RaisedLimit' = RaisedLimit /\ (Counting' <=> Counting)
  BY <1>1 DEF RaisedLimit, Counting
<1>5. LimitInv'
  <2>1. alt => /\ grid'.hist = <<>> /\ grid'.limit = 0
               /\ other'.limit \in {capacity', RaisedLimit'}
    BY <1>1, <1>4 DEF IInv, LimitInv
  <2>2. ~alt => /\ other'.hist = <<>> /\ other'.limit = 0
                /\ grid'.limit \in {capacity', RaisedLimit'}
    BY <1>1, <1>2, <1>4 DEF IInv, LimitInv
  <2> QED BY <1>1, <2>1, <2>2 DEF LimitInv
<1>6. /\ Len(grid.hist) \in Nat /\ Len(grid'.hist) \in Nat /\ capacity \in Nat
      /\ batch.size \in Nat /\ batch.size0 \in Nat /\ batch.top \in Nat
  BY <1>0, <1>1, GridTypes DEF TypeInv, Batches
<1>7. ~alt => Len(grid'.hist) <= capacity /\ Len(grid'.hist) <= Len(grid.hist)
  BY <1>2, <1>6 DEF Smaller
<1>8. BatchInv'
  <2>1. ASSUME Counting
        PROVE  /\ ~alt' /\ batch'.primary
               /\ batch'.size <= batch'.top /\ batch'.size <= Len(grid'.hist)
               /\ batch'.granted => grid'.limit = RaisedLimit'
               /\ batch'.step => batch'.granted
    <3>1. /\ ~alt /\ batch.primary /\ batch.size <= batch.top /\ batch.size <= Len(grid.hist)
          /\ batch.granted => grid.limit = RaisedLimit
      BY <2>1 DEF IInv, BatchInv
    <3>2. batch'.top = batch.top + (Len(grid.hist) - batch.size)   BY <1>2, <1>6, <3>1
    <3>3. batch'.size <= batch'.top   BY <1>2, <1>6, <1>7, <3>1, <3>2
    <3> QED BY <1>1, <1>2, <1>4, <1>6, <3>1, <3>3
  <2>2. batch'.on /\ batch'.alt0 => batch'.size0 = 0   BY <1>1 DEF IInv, BatchInv
  <2> QED BY <1>1, <1>2, <1>4, <1>7, <2>1, <2>2 DEF BatchInv
<1>9. FloorIsReal'   BY <1>1 DEF FloorIsReal
<1>10. CacheInv'
  <2>1. cached'.hver <= hver' /\ CacheBelowCapacityIsExact'
    BY <1>1 DEF IInv, CacheInv, CacheBelowCapacityIsExact
  <2>2. ASSUME Counting, batch.size0 < capacity
        PROVE  \/ Len(grid'.hist) > batch'.size0
               \/ /\ Len(grid'.hist) = batch'.size0
                  /\ cached'.hver = hver' /\ Len(cached'.rows) = batch'.size0
                       => cached'.rows = grid'.hist
    <3>1. \/ Len(grid.hist) > batch.size0
          \/ /\ Len(grid.hist) = batch.size0
             /\ cached.hver = hver /\ Len(cached.rows) = batch.size0
                  => cached.rows = grid.hist
      BY <2>2 DEF IInv, CacheInv
    <3>2. ~alt   BY <2>2 DEF IInv, BatchInv
    <3>3. CASE Len(grid.hist) <= capacity   BY <1>1, <1>2, <3>1, <3>2, <3>3
    <3>4. CASE Len(grid.hist) > capacity
      <4>1. Len(grid'.hist) = capacity   BY <1>2, <1>6, <3>2, <3>4 DEF Smaller
      <4> QED BY <1>1, <1>6, <2>2, <4>1
    <3> QED BY <1>6, <3>3, <3>4
  <2> QED BY <1>1, <1>4, <2>1, <2>2 DEF CacheInv
<1> QED BY <1>3, <1>5, <1>8, <1>9, <1>10 DEF IInv

LEMMA MarkRowStep == ASSUME IInv, MarkRow PROVE IInv'
<1>0. TypeInv   BY DEF IInv
<1> DEFINE m == [row |-> batch.top + cursor - 1, epoch |-> epoch, id |-> grid.view[cursor],
                 alt |-> alt, shifts |-> shifts]
           kept == IF Len(markers) = MaxMarkers THEN Tail(markers) ELSE markers
<1>1. /\ batch.on /\ ~batch.step /\ left > 0
      /\ markers' = Append(kept, m) /\ left' = left - 1
      /\ UNCHANGED <<grid, other, alt, cursor, region, fresh, capacity, top, epoch, hver, batch,
                     cached, shifts>>
  BY DEF MarkRow, term
<1>2. batch \in Batches   BY <1>0, <1>1, OnBatch
<1>3. markers' \in Seq(Markers)
  <2>1. /\ cursor \in 1..Rows /\ epoch \in Nat /\ batch.top \in Nat
        /\ alt \in BOOLEAN /\ shifts \in Nat
        /\ grid.view \in Seq(Nat) /\ Len(grid.view) = Rows /\ Rows \in Nat \ {0}
    BY <1>0, <1>2, GridTypes, Sizes DEF TypeInv, Batches
  <2>2. m \in Markers   BY <2>1 DEF Markers
  <2>3. kept \in Seq(Markers)
    <3>1. markers \in Seq(Markers) /\ MaxMarkers > 0   BY <1>0, Sizes DEF TypeInv
    <3>2. Len(markers) = MaxMarkers => markers # <<>>   BY <3>1
    <3> QED BY <3>1, <3>2
  <2> HIDE DEF m, kept
  <2> QED BY <1>1, <2>2, <2>3
<1>4. left' \in Nat   BY <1>0, <1>1 DEF TypeInv
<1>5. TypeInv'   BY <1>0, <1>1, <1>3, <1>4 DEF TypeInv, Whole
<1> QED BY <1>1, <1>5 DEF IInv, LimitInv, RaisedLimit, BatchInv, Counting, FloorIsReal,
                    CacheInv, CacheBelowCapacityIsExact, CacheMatches

\* The limit goes back, and the version and the numbering are settled.
LEMMA EndedBatch ==
    ASSUME IInv, EndBatch
    PROVE  /\ batch \in Batches /\ batch.on /\ ~batch.step /\ batch' = Idle /\ ~batch'.on
           /\ Whole(grid') /\ grid'.hist = grid.hist /\ grid'.view = grid.view
           /\ alt => grid' = grid
           /\ ~alt => grid'.limit = capacity /\ Len(grid.hist) <= capacity
           /\ hver' = IF HistoryChanged(Len(grid.hist)) THEN hver + 1 ELSE hver
           /\ Uncounted(Len(grid.hist)) =>
                top' = batch.top + Len(grid.hist) /\ epoch' = epoch + 1
           /\ ~Uncounted(Len(grid.hist)) => top' = batch.top /\ epoch' = epoch
           /\ UNCHANGED <<other, alt, cursor, region, fresh, capacity, markers, cached, shifts, left>>
<1>0. TypeInv   BY DEF IInv
<1>1. /\ batch.on /\ ~batch.step /\ batch' = Idle /\ grid' = Finished
      /\ UNCHANGED <<other, alt, cursor, region, fresh, capacity, markers, cached, shifts, left>>
  BY DEF EndBatch
<1>2. batch \in Batches   BY <1>0, <1>1, OnBatch
<1>3. /\ Whole(grid) /\ grid \in Grids /\ Len(grid.view) = Rows /\ Len(grid.hist) \in Nat
      /\ capacity \in Nat
  BY <1>0, GridTypes DEF TypeInv
<1>4. (batch.primary <=> ~alt) /\ (~alt => Len(grid.hist) <= capacity)
  BY <1>1 DEF IInv, BatchInv
<1>5. /\ Whole(grid') /\ grid'.hist = grid.hist /\ grid'.view = grid.view
      /\ alt => grid' = grid
      /\ ~alt => grid'.limit = capacity
  <2>1. CASE alt   BY <1>1, <1>3, <1>4, <2>1 DEF Finished
  <2>2. CASE ~alt
    <3>1. LET c == Limited(grid, capacity) IN
            /\ Whole(c) /\ c.view = grid.view /\ c.limit = capacity
            /\ Len(grid.hist) <= capacity => c.hist = grid.hist
      BY <1>3, LimitedIs
    <3>2. grid' = Limited(grid, capacity)   BY <1>1, <1>4, <2>2 DEF Finished
    <3> QED BY <1>4, <2>2, <3>1, <3>2
  <2> QED BY <2>1, <2>2
<1>6. hver' = IF HistoryChanged(Len(grid.hist)) THEN hver + 1 ELSE hver
  BY <1>5 DEF EndBatch, HistoryChanged
<1>7. /\ Uncounted(Len(grid.hist)) =>
           top' = batch.top + Len(grid.hist) /\ epoch' = epoch + 1
      /\ ~Uncounted(Len(grid.hist)) => top' = batch.top /\ epoch' = epoch
  BY <1>5 DEF EndBatch, Uncounted, Retire
<1>8. ~batch'.on   BY <1>1 DEF Idle
<1> QED BY <1>1, <1>2, <1>4, <1>5, <1>6, <1>7, <1>8

LEMMA EndBatchStep == ASSUME IInv, EndBatch PROVE IInv'
<1>0. TypeInv   BY DEF IInv
<1>1. /\ batch \in Batches /\ batch.on /\ ~batch.step /\ batch' = Idle /\ ~batch'.on
      /\ Whole(grid') /\ grid'.hist = grid.hist
      /\ alt => grid' = grid
      /\ ~alt => grid'.limit = capacity /\ Len(grid.hist) <= capacity
      /\ UNCHANGED <<other, alt, cursor, region, fresh, capacity, markers, cached, shifts, left>>
  BY EndedBatch
<1>2. /\ hver' = IF HistoryChanged(Len(grid.hist)) THEN hver + 1 ELSE hver
      /\ Uncounted(Len(grid.hist)) =>
           top' = batch.top + Len(grid.hist) /\ epoch' = epoch + 1
      /\ ~Uncounted(Len(grid.hist)) => top' = batch.top /\ epoch' = epoch
  BY EndedBatch
<1>3. /\ Len(grid.hist) \in Nat /\ batch.top \in Nat /\ batch.size \in Nat
      /\ hver \in Nat /\ epoch \in Nat
  BY <1>0, <1>1, GridTypes DEF TypeInv, Batches
<1>4. hver' \in Nat /\ hver <= hver'   BY <1>2, <1>3
<1>5. top' \in Nat /\ epoch' \in Nat   BY <1>2, <1>3
<1>6. TypeInv'   BY <1>0, <1>1, <1>4, <1>5 DEF TypeInv, Whole
<1>7. LimitInv'   BY <1>1 DEF IInv, LimitInv, RaisedLimit
<1>8. BatchInv'   BY <1>1 DEF BatchInv, Counting
<1>9. FloorIsReal'
  <2> SUFFICES top' >= Len(grid'.hist)   BY DEF FloorIsReal
  <2>1. CASE Uncounted(Len(grid.hist))   BY <1>1, <1>2, <1>3, <2>1
  <2>2. CASE ~Uncounted(Len(grid.hist))
    <3>1. (batch.alt0 <=> alt) /\ ~batch.break   BY <2>2 DEF Uncounted
    <3>2. CASE alt
      <4>1. Len(grid.hist) = 0   BY <3>2 DEF IInv, LimitInv
      <4> QED BY <1>1, <1>5, <4>1
    <3>3. CASE ~alt
      <4>1. Counting   BY <1>1, <3>1, <3>3 DEF Counting
      <4>2. batch.size <= batch.top /\ batch.size = Len(grid.hist)
        BY <1>1, <3>3, <4>1 DEF IInv, BatchInv
      <4> QED BY <1>1, <1>2, <1>3, <2>2, <4>2
    <3> QED BY <3>2, <3>3
  <2> QED BY <2>1, <2>2
<1>10. CacheInv'
  <2>1. cached.hver \in Nat /\ cached.hver <= hver /\ cached.rows \in Seq(Nat)
    BY <1>0 DEF IInv, CacheInv, TypeInv
  <2>2. cached'.hver <= hver'   BY <1>1, <1>3, <1>4, <2>1
  <2>3. CacheBelowCapacityIsExact'
    <3> SUFFICES ASSUME cached'.hver = hver', Len(cached'.rows) = Len(grid'.hist),
                        Len(grid'.hist) < capacity'
                 PROVE  cached'.rows = grid'.hist
      BY DEF CacheBelowCapacityIsExact, CacheMatches
    <3>1. ~HistoryChanged(Len(grid.hist)) /\ hver' = hver   BY <1>1, <1>2, <1>3, <2>1
    <3>2. /\ batch.size0 = Len(grid.hist) /\ (Len(grid.hist) = 0 \/ ~batch.break)
      BY <3>1 DEF HistoryChanged
    <3>3. CASE Len(grid.hist) = 0
      <4>1. grid.hist \in Seq(Nat)   BY <1>0, GridTypes DEF TypeInv
      <4> QED BY <1>1, <2>1, <3>3, <4>1, EmptySeq
    <3>4. CASE Len(grid.hist) # 0
      <4>1. Counting   BY <1>1, <3>2, <3>4 DEF Counting, IInv, BatchInv
      <4>2. \/ Len(grid.hist) > batch.size0
            \/ /\ Len(grid.hist) = batch.size0
               /\ cached.hver = hver /\ Len(cached.rows) = batch.size0
                    => cached.rows = grid.hist
        BY <1>1, <3>2, <4>1 DEF IInv, CacheInv
      <4> QED BY <1>1, <1>3, <3>1, <3>2, <4>2
    <3> QED BY <3>3, <3>4
  <2> QED BY <1>1, <2>2, <2>3 DEF CacheInv, Counting
<1> QED BY <1>6, <1>7, <1>8, <1>9, <1>10 DEF IInv

\* A new capacity, and a reflow, retire the numbering and move the version.
LEMMA CapacityStep == ASSUME IInv, SetScrollbackCapacity PROVE IInv'
<1>0. TypeInv   BY DEF IInv
<1>1. PICK c \in Capacities :
        /\ ~batch.on /\ left > 0 /\ capacity' = c
        /\ IF alt THEN other' = Limited(other, c) /\ grid' = grid
           ELSE grid' = Limited(grid, c) /\ other' = other
        /\ top' = top + Len(grid'.hist) /\ epoch' = epoch + 1
        /\ hver' = hver + 1 /\ left' = left - 1
        /\ UNCHANGED <<alt, cursor, region, fresh, markers, batch, cached, shifts>>
  BY DEF SetScrollbackCapacity, Retire
<1>2. c \in Nat   BY Sizes
<1>3. Whole(grid) /\ Whole(other) /\ alt \in BOOLEAN   BY <1>0 DEF TypeInv
<1>4. \A g \in {grid, other} : Whole(Limited(g, c)) /\ Limited(g, c).limit = c
  BY <1>2, <1>3, GridTypes, LimitedIs
<1>5. Whole(grid') /\ Whole(other')   BY <1>1, <1>3, <1>4
<1>6. Len(grid'.hist) \in Nat   BY <1>5, GridTypes
<1>7. top' \in Nat /\ epoch' \in Nat /\ hver' \in Nat /\ left' \in Nat /\ top' >= Len(grid'.hist)
  BY <1>0, <1>1, <1>6 DEF TypeInv
<1>8. TypeInv'   BY <1>0, <1>1, <1>2, <1>5, <1>7 DEF TypeInv, Whole
<1>9. LimitInv'   BY <1>1, <1>4 DEF IInv, LimitInv
<1>10. BatchInv' /\ FloorIsReal'   BY <1>1, <1>7 DEF BatchInv, Counting, FloorIsReal
<1>11. CacheInv'
  <2>1. cached'.hver < hver'   BY <1>0, <1>1 DEF IInv, CacheInv, TypeInv
  <2>2. cached'.hver <= hver' /\ cached'.hver # hver'   BY <1>0, <1>1, <1>7, <2>1 DEF TypeInv
  <2> QED BY <1>1, <2>2 DEF CacheInv, CacheBelowCapacityIsExact, CacheMatches, Counting
<1> QED BY <1>8, <1>9, <1>10, <1>11 DEF IInv

LEMMA ReflowedIs ==
    ASSUME NEW g, Whole(g), NEW first \in Nat, NEW n \in Nat, n <= g.limit
    PROVE  /\ Whole(Reflowed(g, first, n)) /\ Reflowed(g, first, n).limit = g.limit
           /\ Len(Reflowed(g, first, n).hist) = n
           /\ n = 0 => Reflowed(g, first, n).hist = <<>>
<1> DEFINE v == [i \in 1..Rows |-> first + i - 1]
           h == [i \in 1..n |-> first + Rows + i - 1]
<1>1. Rows \in Nat \ {0} /\ g \in Grids   BY Sizes, GridTypes
<1>2. v \in Seq(Nat) /\ Len(v) = Rows   BY <1>1, NewScreen
<1>3. h \in Seq(Nat) /\ Len(h) = n
  <2>1. \A i \in 1..n : first + Rows + i - 1 \in Nat   BY <1>1
  <2> QED BY <2>1, IsASeq
<1>4. Reflowed(g, first, n) = [g EXCEPT !.view = v, !.hist = h]   BY DEF Reflowed
<1> HIDE DEF v, h
<1>5. /\ Reflowed(g, first, n) \in Grids /\ Reflowed(g, first, n).view = v
      /\ Reflowed(g, first, n).hist = h /\ Reflowed(g, first, n).limit = g.limit
  BY <1>1, <1>2, <1>3, <1>4 DEF Grids
<1>6. n = 0 => h = <<>>   BY <1>3, EmptySeq
<1> QED BY <1>2, <1>3, <1>5, <1>6 DEF Whole

LEMMA ResizeStep == ASSUME IInv, Resize PROVE IInv'
<1>0. TypeInv   BY DEF IInv
<1> DEFINE main == IF alt THEN other ELSE grid
           side == IF alt THEN grid ELSE other
<1>1. PICK n \in 0..Smaller(capacity, Len(main.hist) + 1) :
        /\ ~batch.on /\ left > 0
        /\ grid' = IF alt THEN Reflowed(side, fresh + Rows + n, 0) ELSE Reflowed(main, fresh, n)
        /\ other' = IF alt THEN Reflowed(main, fresh, n) ELSE Reflowed(side, fresh + Rows + n, 0)
        /\ fresh' = fresh + 2 * Rows + n
        /\ top' = top + Len(grid'.hist) /\ epoch' = epoch + 1
        /\ hver' = hver + 1 /\ left' = left - 1 /\ region' = WholeScreen
        /\ UNCHANGED <<alt, cursor, capacity, markers, batch, cached, shifts>>
  <2>1. Len((IF alt THEN other ELSE grid).hist)
          = Len(IF alt THEN other.hist ELSE grid.hist)
    OBVIOUS
  <2> QED BY <2>1 DEF Resize, Retire
<1>2. /\ Whole(main) /\ Whole(side) /\ alt \in BOOLEAN /\ fresh \in Nat /\ capacity \in Nat
      /\ Rows \in Nat \ {0}
  BY <1>0, Sizes DEF TypeInv
<1>3. Len(main.hist) \in Nat /\ main.limit \in Nat /\ side.limit \in Nat   BY <1>2, GridTypes
<1>4. main.limit \in {capacity, RaisedLimit} /\ side.limit = 0   BY DEF IInv, LimitInv
<1>5. n \in Nat /\ n <= capacity /\ n <= main.limit
  <2>1. n \in Nat /\ n <= Smaller(capacity, Len(main.hist) + 1)
    <3>1. Smaller(capacity, Len(main.hist) + 1) \in Nat   BY <1>2, <1>3 DEF Smaller
    <3> QED BY <3>1
  <2>2. Smaller(capacity, Len(main.hist) + 1) \in Nat
        /\ Smaller(capacity, Len(main.hist) + 1) <= capacity
    BY <1>2, <1>3 DEF Smaller
  <2>3. RaisedLimit \in Nat /\ capacity <= RaisedLimit   BY <1>2, Sizes DEF RaisedLimit
  <2> QED BY <1>2, <1>4, <2>1, <2>2, <2>3
<1> HIDE DEF main, side
<1>6. /\ Whole(Reflowed(main, fresh, n)) /\ Reflowed(main, fresh, n).limit = main.limit
      /\ Len(Reflowed(main, fresh, n).hist) = n
  BY <1>2, <1>5, ReflowedIs
<1>7. /\ Whole(Reflowed(side, fresh + Rows + n, 0))
      /\ Reflowed(side, fresh + Rows + n, 0).limit = side.limit
      /\ Reflowed(side, fresh + Rows + n, 0).hist = <<>>
  <2>1. fresh + Rows + n \in Nat /\ 0 <= side.limit   BY <1>2, <1>3, <1>5
  <2> QED BY <1>2, <2>1, ReflowedIs
<1>8. Whole(grid') /\ Whole(other')   BY <1>1, <1>6, <1>7
<1>9. Len(grid'.hist) \in Nat   BY <1>8, GridTypes
<1>10. /\ top' \in Nat /\ epoch' \in Nat /\ hver' \in Nat /\ left' \in Nat /\ fresh' \in Nat
       /\ top' >= Len(grid'.hist)
  BY <1>0, <1>1, <1>2, <1>5, <1>9 DEF TypeInv
<1>11. TypeInv'
  <2>1. region' \in Regions   BY <1>1, <1>2 DEF WholeScreen, Regions
  <2> QED BY <1>0, <1>1, <1>8, <1>10, <2>1 DEF TypeInv, Whole, Regions
<1>12. LimitInv'
  <2>1. ~alt => main.limit = grid.limit   BY DEF main
  <2> QED BY <1>1, <1>4, <1>6, <1>7, <2>1 DEF IInv, LimitInv, RaisedLimit
<1>13. BatchInv' /\ FloorIsReal'   BY <1>1, <1>10 DEF BatchInv, Counting, FloorIsReal
<1>14. CacheInv'
  <2>1. cached'.hver < hver'   BY <1>0, <1>1 DEF IInv, CacheInv, TypeInv
  <2>2. cached'.hver <= hver' /\ cached'.hver # hver'   BY <1>0, <1>1, <1>10, <2>1 DEF TypeInv
  <2> QED BY <1>1, <2>2 DEF CacheInv, CacheBelowCapacityIsExact, CacheMatches, Counting
<1> QED BY <1>11, <1>12, <1>13, <1>14 DEF IInv

LEMMA CacheHistoryStep == ASSUME IInv, CacheHistory PROVE IInv'
<1>0. TypeInv   BY DEF IInv
<1>1. /\ ~batch.on /\ cached' = [hver |-> hver, rows |-> grid.hist]
      /\ UNCHANGED <<grid, other, alt, cursor, region, fresh, capacity, top, epoch, hver, markers,
                     batch, shifts, left>>
  BY DEF CacheHistory, term, pane
<1>2. grid.hist \in Seq(Nat)   BY <1>0, GridTypes DEF TypeInv
<1>3. TypeInv'   BY <1>0, <1>1, <1>2 DEF TypeInv, Whole
<1>4. CacheInv'
  BY <1>0, <1>1 DEF CacheInv, CacheBelowCapacityIsExact, CacheMatches, Counting, TypeInv
<1> QED BY <1>1, <1>3, <1>4 DEF IInv, LimitInv, RaisedLimit, BatchInv, Counting, FloorIsReal

LEMMA Invariance == Spec => []IInv
<1>1. IInv /\ [Next]_vars => IInv'
  BY StutterStep, BeginBatchStep, BeginStepStep, EndStepStep, MarkRowStep, EndBatchStep, FeedStep,
     CapacityStep, ResizeStep, CacheHistoryStep
     DEF Next
<1> QED BY <1>1, InitHolds, PTL DEF Spec

-----------------------------------------------------------------------------
(* The markers. *)

LEMMA MarkerTypes ==
    ASSUME TypeInv
    PROVE  /\ Len(markers) \in Nat /\ epoch \in Nat /\ shifts \in Nat
           /\ \A k \in 1..Len(markers) : /\ markers[k].row \in Nat /\ markers[k].epoch \in Nat
                                         /\ markers[k].id \in Nat /\ markers[k].shifts \in Nat
                                         /\ markers[k].alt \in BOOLEAN
<1>1. markers \in Seq(Markers) /\ epoch \in Nat /\ shifts \in Nat   BY DEF TypeInv
<1>2. \A k \in 1..Len(markers) : markers[k] \in Markers   BY <1>1
<1> QED BY <1>1, <1>2 DEF Markers

LEMMA MarkerInit == Init => MarkerInv
BY DEF Init, MarkerInv, Idle, Counting, Numbered, NoneCurrent

LEMMA MarkerStutter == ASSUME MarkerInv, UNCHANGED vars PROVE MarkerInv'
<1>1. UNCHANGED <<grid, other, alt, cursor, region, fresh, capacity, top, epoch, hver, markers,
                  batch, cached, shifts, left>>
  BY DEF vars, term, pane
<1> QED BY <1>1 DEF MarkerInv, Counting, Numbered, NoneCurrent, Current, RowAt

\* The numbering is the same in a grid that has the same rows.
LEMMA NumberedKept ==
    ASSUME NEW low, Numbered(low), UNCHANGED <<markers, epoch, shifts>>,
           grid'.hist = grid.hist, grid'.view = grid.view
    PROVE  Numbered(low)'
BY DEF Numbered, Current, RowAt

LEMMA MarkerFeed == ASSUME IInv, MarkerInv, NEW i, Feed(i) PROVE MarkerInv'
<1>0. TypeInv   BY DEF IInv
<1>1. /\ batch.on /\ batch.step /\ batch'.on /\ batch'.step
      /\ batch'.break <=> batch.break \/ i \in MayBreak
      /\ batch'.top = batch.top /\ batch'.size = batch.size
      /\ batch'.saturated = batch.saturated /\ batch'.alt0 = batch.alt0
  BY <1>0, FedBatch
<1>2. UNCHANGED <<markers, epoch>> /\ shifts' \in {shifts, shifts + 1} /\ shifts \in Nat
  BY <1>0, PerformKinds DEF Feed, pane, TypeInv
<1>3. i \notin MayBreak /\ ~alt =>
        /\ ~alt' /\ grid'.limit = grid.limit
        /\ Len(grid'.hist) >= Len(grid.hist)
        /\ Len(grid'.hist) < grid.limit /\ shifts' = shifts =>
             /\ Len(grid.hist) < grid.limit
             /\ \A j \in 1..(Len(grid.hist) + Rows) : RowAt(grid', j) = RowAt(grid, j)
  BY Fed
<1>4. Whole(grid') /\ Whole(grid) /\ Rows \in Nat \ {0}   BY <1>0, Fed, Sizes DEF TypeInv
<1>5. Len(grid.hist) \in Nat /\ Len(grid'.hist) \in Nat   BY <1>4, GridTypes
<1>6. Counting' => Counting /\ i \notin MayBreak /\ ~alt
  BY <1>1 DEF Counting, IInv, BatchInv
<1>7. \A k \in 1..Len(markers') : markers'[k].epoch <= epoch' /\ markers'[k].shifts <= shifts'
  <2>1. \A k \in 1..Len(markers) : markers[k].shifts \in Nat   BY <1>0, MarkerTypes
  <2> QED BY <1>2, <2>1 DEF MarkerInv
<1>8. \A k \in 1..Len(markers) : Current(k)' => Current(k) /\ shifts' = shifts
  <2>1. \A k \in 1..Len(markers) : markers[k].shifts \in Nat /\ markers[k].shifts <= shifts
    BY <1>0, MarkerTypes DEF MarkerInv
  <2> QED BY <1>2, <2>1 DEF Current
<1>9. batch'.alt0 /\ alt' /\ ~batch'.break => NoneCurrent'
  <2> SUFFICES ASSUME batch'.alt0, alt', ~batch'.break PROVE NoneCurrent'   OBVIOUS
  <2>1. alt   BY <1>1, <1>3
  <2>2. NoneCurrent   BY <1>1, <2>1 DEF MarkerInv
  <2> QED BY <1>2, <1>8, <2>2 DEF NoneCurrent
<1>10. ASSUME Counting', ~batch'.saturated, Len(grid'.hist) < grid'.limit
       PROVE  Numbered(batch.top - batch.size)'
  <2> DEFINE low == batch.top - batch.size
  <2>1. low \in Int
    <3>1. batch \in Batches   BY <1>0, <1>1, OnBatch
    <3> QED BY <3>1 DEF Batches
  <2>2. low' = low   BY <1>1
  <2> SUFFICES ASSUME NEW k \in 1..Len(markers'), Current(k)'
               PROVE  /\ markers'[k].row < low + Len(grid'.hist) + Rows
                      /\ markers'[k].row >= low =>
                           RowAt(grid', markers'[k].row - low + 1) = markers'[k].id
    BY <2>2 DEF Numbered
  <2> HIDE DEF low
  <2>3. Current(k) /\ shifts' = shifts   BY <1>2, <1>8
  <2>4. /\ Len(grid.hist) < grid.limit /\ Len(grid'.hist) >= Len(grid.hist)
        /\ \A j \in 1..(Len(grid.hist) + Rows) : RowAt(grid', j) = RowAt(grid, j)
    BY <1>3, <1>6, <1>10, <2>3
  <2>5. Numbered(low)   BY <1>1, <1>6, <1>10, <2>4 DEF MarkerInv, low
  <2>6. /\ markers[k].row < low + Len(grid.hist) + Rows /\ markers[k].row \in Nat
        /\ markers[k].row >= low => RowAt(grid, markers[k].row - low + 1) = markers[k].id
    BY <1>0, <1>2, <2>3, <2>5, MarkerTypes DEF Numbered
  <2>7. markers[k].row < low + Len(grid'.hist) + Rows   BY <1>4, <1>5, <2>1, <2>4, <2>6
  <2>8. markers[k].row >= low => markers[k].row - low + 1 \in 1..(Len(grid.hist) + Rows)
    BY <1>4, <1>5, <2>1, <2>6
  <2> QED BY <1>2, <2>4, <2>6, <2>7, <2>8
<1>11. batch'.top - batch'.size = batch.top - batch.size   BY <1>1
<1> QED BY <1>1, <1>7, <1>9, <1>10 DEF MarkerInv

LEMMA MarkerBeginBatch == ASSUME IInv, MarkerInv, BeginBatch PROVE MarkerInv'
<1>0. TypeInv   BY DEF IInv
<1>1. ~batch.on /\ UNCHANGED <<grid, alt, top, epoch, markers, shifts>>
  BY DEF BeginBatch, term, pane
<1>2. /\ batch'.on /\ ~batch'.step /\ batch'.top = top /\ batch'.size = Len(grid.hist)
      /\ (batch'.alt0 <=> alt)
  BY <1>0, BegunBatch
<1>3. ~alt => Numbered(top - Len(grid.hist))'
  BY <1>1 DEF MarkerInv, Numbered, Current, RowAt
<1>4. batch'.top - batch'.size = top - Len(grid.hist)   BY <1>2
<1>5. Counting' => Numbered(batch.top - batch.size)'
  BY <1>1, <1>2, <1>3 DEF Counting, Numbered
<1>6. alt => NoneCurrent'   BY <1>1 DEF MarkerInv, NoneCurrent, Current
<1> QED BY <1>1, <1>2, <1>5, <1>6 DEF MarkerInv

LEMMA MarkerBeginStep == ASSUME IInv, MarkerInv, BeginStep PROVE MarkerInv'
<1>1. /\ batch.on /\ ~batch.step /\ batch'.on /\ batch'.step
      /\ batch'.top = batch.top /\ batch'.size = batch.size
      /\ batch'.break = batch.break /\ batch'.saturated = batch.saturated
      /\ batch'.alt0 = batch.alt0
      /\ grid'.hist = grid.hist /\ grid'.view = grid.view
      /\ UNCHANGED <<alt, markers, epoch, shifts>>
  BY BegunStep
<1>2. Counting' <=> Counting   BY <1>1 DEF Counting
<1>3. Counting /\ ~batch.saturated => Numbered(batch.top - batch.size)'
  BY <1>1 DEF MarkerInv, Numbered, Current, RowAt
<1>4. NoneCurrent => NoneCurrent'   BY <1>1 DEF NoneCurrent, Current
<1> QED BY <1>1, <1>2, <1>3, <1>4 DEF MarkerInv

LEMMA MarkerEndStep == ASSUME IInv, MarkerInv, EndStep PROVE MarkerInv'
<1>0. TypeInv   BY DEF IInv
<1>1. /\ batch \in Batches /\ batch.on /\ batch.step
      /\ batch' \in Batches /\ batch'.on /\ ~batch'.step
      /\ batch'.break = batch.break /\ batch'.alt0 = batch.alt0
      /\ Whole(grid') /\ grid'.view = grid.view
      /\ UNCHANGED <<alt, capacity, epoch, markers, shifts>>
  BY EndedStep
<1>2. Counting' <=> Counting   BY <1>1 DEF Counting
<1>3. ASSUME Counting, ~batch'.saturated PROVE Numbered(batch.top - batch.size)'
  <2> DEFINE h == Len(grid.hist)
             k == Len(grid'.hist)
             low == batch.top - batch.size
             new == batch'.top - batch'.size
  <2>1. /\ ~alt /\ batch.primary /\ batch.granted /\ grid.limit = RaisedLimit
        /\ batch.size <= h
    BY <1>1, <1>3 DEF IInv, BatchInv
  <2>2. /\ batch'.size = k /\ k = Smaller(h, capacity)
        /\ batch'.top = batch.top + (IF h > batch.size THEN h - batch.size ELSE 0)
        /\ batch'.saturated <=> batch.saturated \/ h >= RaisedLimit
        /\ \A j \in 1..k : grid'.hist[j] = grid.hist[h - k + j]
    BY <2>1, EndedStep
  <2>3. /\ h \in Nat /\ k \in Nat /\ capacity \in Nat /\ RaisedLimit \in Nat
        /\ batch.size \in Nat /\ batch.top \in Nat /\ Rows \in Nat \ {0}
    BY <1>0, <1>1, GridTypes, Sizes DEF TypeInv, Batches, RaisedLimit
  <2>4. k <= h   BY <2>2, <2>3 DEF Smaller
  <2>5. low \in Int /\ new = low + (h - k)   BY <2>1, <2>2, <2>3
  <2>6. Numbered(low)   BY <1>1, <1>3, <2>1, <2>2, <2>3 DEF MarkerInv
  <2> HIDE DEF low, new, h, k
  <2>7. \A j \in Nat \ {0} : RowAt(grid', j) = RowAt(grid, j + (h - k))
    <3> SUFFICES ASSUME NEW j \in Nat \ {0} PROVE RowAt(grid', j) = RowAt(grid, j + (h - k))
      OBVIOUS
    <3>1. CASE j <= k
      <4>1. grid'.hist[j] = grid.hist[h - k + j] /\ h - k + j = j + (h - k) /\ j + (h - k) <= h
        BY <2>2, <2>3, <2>4, <3>1
      <4> QED BY <3>1, <4>1 DEF RowAt, h, k
    <3>2. CASE j > k
      <4>1. ~(j <= k) /\ ~(j + (h - k) <= h) /\ j - k = (j + (h - k)) - h   BY <2>3, <3>2
      <4> QED BY <1>1, <4>1 DEF RowAt, h, k
    <3> QED BY <2>3, <3>1, <3>2
  <2> SUFFICES ASSUME NEW x \in 1..Len(markers), Current(x)
               PROVE  /\ markers[x].row < new + k + Rows
                      /\ markers[x].row >= new =>
                           RowAt(grid', markers[x].row - new + 1) = markers[x].id
    BY <1>1 DEF Numbered, Current, new, k
  <2>8. /\ markers[x].row < low + h + Rows /\ markers[x].row \in Nat
        /\ markers[x].row >= low => RowAt(grid, markers[x].row - low + 1) = markers[x].id
    BY <1>0, <2>6, MarkerTypes DEF Numbered, h
  <2>9. markers[x].row < new + k + Rows   BY <2>3, <2>4, <2>5, <2>8
  <2>10. ASSUME markers[x].row >= new
         PROVE  RowAt(grid', markers[x].row - new + 1) = markers[x].id
    <3>1. PICK r \in Nat : r = markers[x].row   BY <2>8
    <3>2. new \in Int /\ low \in Int /\ low <= new   BY <2>3, <2>4, <2>5
    <3>3. r >= new /\ r >= low   BY <2>10, <3>1, <3>2
    <3>4. r - new + 1 \in Nat \ {0}   BY <3>2, <3>3
    <3>5. (r - new + 1) + (h - k) = r - low + 1   BY <2>3, <2>5, <3>2
    <3>6. RowAt(grid, r - low + 1) = markers[x].id   BY <2>8, <3>1, <3>3
    <3>7. RowAt(grid', r - new + 1) = RowAt(grid, (r - new + 1) + (h - k))   BY <2>7, <3>4
    <3> QED BY <3>1, <3>5, <3>6, <3>7
  <2> QED BY <2>9, <2>10
<1>4. NoneCurrent => NoneCurrent'   BY <1>1 DEF NoneCurrent, Current
<1> QED BY <1>1, <1>2, <1>3, <1>4 DEF MarkerInv

LEMMA MarkerMark == ASSUME IInv, MarkerInv, MarkRow PROVE MarkerInv'
<1>0. TypeInv   BY DEF IInv
<1> DEFINE m == [row |-> batch.top + cursor - 1, epoch |-> epoch, id |-> grid.view[cursor],
                 alt |-> alt, shifts |-> shifts]
           kept == IF Len(markers) = MaxMarkers THEN Tail(markers) ELSE markers
<1>1. /\ batch.on /\ ~batch.step /\ markers' = Append(kept, m)
      /\ UNCHANGED <<grid, alt, epoch, batch, shifts>>
  BY DEF MarkRow, term
<1>2. batch \in Batches   BY <1>0, <1>1, OnBatch
<1>3. /\ cursor \in 1..Rows /\ epoch \in Nat /\ alt \in BOOLEAN /\ shifts \in Nat /\ batch.top \in Nat
      /\ grid.view \in Seq(Nat) /\ Len(grid.view) = Rows /\ Rows \in Nat \ {0}
      /\ Len(grid.hist) \in Nat
  BY <1>0, <1>2, GridTypes, Sizes DEF TypeInv, Batches
<1>4. m \in Markers   BY <1>3 DEF Markers
<1>5. m.row = batch.top + cursor - 1 /\ m.epoch = epoch /\ m.id = grid.view[cursor]
      /\ m.alt = alt /\ m.shifts = shifts
  OBVIOUS
<1>6. /\ kept \in Seq(Markers)
      /\ \A x \in 1..Len(kept) : \E y \in 1..Len(markers) : kept[x] = markers[y]
  <2>1. markers \in Seq(Markers) /\ MaxMarkers > 0   BY <1>0, Sizes DEF TypeInv
  <2>2. CASE Len(markers) = MaxMarkers
    <3>1. markers # <<>>   BY <2>1, <2>2
    <3>2. /\ Tail(markers) \in Seq(Markers) /\ Len(Tail(markers)) = Len(markers) - 1
          /\ \A x \in 1..Len(Tail(markers)) : Tail(markers)[x] = markers[x + 1]
      BY <2>1, <3>1
    <3>3. \A x \in 1..Len(Tail(markers)) : x + 1 \in 1..Len(markers)   BY <2>1, <3>2
    <3> QED BY <2>2, <3>2, <3>3
  <2>3. CASE Len(markers) # MaxMarkers   BY <2>1, <2>3
  <2> QED BY <2>2, <2>3
<1> HIDE DEF m, kept
<1>7. \A x \in 1..Len(markers') :
        markers'[x] = m \/ \E y \in 1..Len(markers) : markers'[x] = markers[y]
  <2>1. /\ Len(kept) \in Nat /\ Len(markers') = Len(kept) + 1 /\ markers'[Len(kept) + 1] = m
        /\ \A x \in 1..Len(kept) : markers'[x] = kept[x]
    BY <1>1, <1>4, <1>6
  <2>2. \A x \in 1..Len(markers') : x \in 1..Len(kept) \/ x = Len(kept) + 1   BY <2>1
  <2> QED BY <1>6, <2>1, <2>2
<1>8. \A x \in 1..Len(markers') : markers'[x].epoch <= epoch' /\ markers'[x].shifts <= shifts'
  <2>1. m.epoch <= epoch /\ m.shifts <= shifts   BY <1>3, <1>5
  <2>2. \A y \in 1..Len(markers) : markers[y].epoch <= epoch /\ markers[y].shifts <= shifts
    BY DEF MarkerInv
  <2> QED BY <1>1, <1>7, <2>1, <2>2
<1>9. ASSUME Counting', ~batch'.saturated PROVE Numbered(batch.top - batch.size)'
  <2> DEFINE low == batch.top - batch.size
  <2>1. Counting /\ ~batch.saturated   BY <1>1, <1>9 DEF Counting
  <2>2. Numbered(low)   BY <1>1, <2>1 DEF MarkerInv
  <2>3. batch.size = Len(grid.hist)   BY <1>1, <2>1 DEF IInv, BatchInv
  <2> HIDE DEF low
  <2> SUFFICES ASSUME NEW x \in 1..Len(markers'), Current(x)'
               PROVE  /\ markers'[x].row < low + Len(grid.hist) + Rows
                      /\ markers'[x].row >= low =>
                           RowAt(grid, markers'[x].row - low + 1) = markers'[x].id
    BY <1>1 DEF Numbered, RowAt, low
  <2>4. CASE markers'[x] = m
    <3>1. markers'[x].row = batch.top + cursor - 1 /\ markers'[x].id = grid.view[cursor]
      BY <1>5, <2>4
    <3>2. low = batch.top - Len(grid.hist)   BY <2>3 DEF low
    <3>3. markers'[x].row < low + Len(grid.hist) + Rows   BY <1>3, <3>1, <3>2
    <3>4. markers'[x].row - low + 1 = Len(grid.hist) + cursor   BY <1>3, <3>1, <3>2
    <3>5. /\ ~(Len(grid.hist) + cursor <= Len(grid.hist))
          /\ (Len(grid.hist) + cursor) - Len(grid.hist) = cursor
      BY <1>3
    <3> QED BY <3>1, <3>3, <3>4, <3>5 DEF RowAt
  <2>5. CASE \E y \in 1..Len(markers) : markers'[x] = markers[y]
    BY <1>1, <2>2, <2>5 DEF Numbered, Current
  <2> QED BY <1>7, <2>4, <2>5
<1>10. ASSUME alt, NoneCurrent PROVE NoneCurrent'
  BY <1>1, <1>5, <1>7, <1>10 DEF NoneCurrent, Current
<1> QED BY <1>1, <1>8, <1>9, <1>10 DEF MarkerInv

\* A retired numbering leaves no marker current.
LEMMA Retired ==
    ASSUME TypeInv, MarkerInv, epoch' = epoch + 1, UNCHANGED <<markers, shifts>>
    PROVE  /\ \A k \in 1..Len(markers') : markers'[k].epoch <= epoch' /\ markers'[k].shifts <= shifts'
           /\ NoneCurrent'
           /\ \A low : Numbered(low)'
<1>1. /\ epoch \in Nat
      /\ \A k \in 1..Len(markers) : /\ markers[k].epoch \in Nat /\ markers[k].epoch <= epoch
                                    /\ markers[k].shifts <= shifts
  BY MarkerTypes DEF MarkerInv
<1>2. \A k \in 1..Len(markers) : markers[k].epoch <= epoch + 1 /\ markers[k].epoch # epoch + 1
  BY <1>1
<1> QED BY <1>1, <1>2 DEF NoneCurrent, Numbered, Current

LEMMA MarkerRetire ==
    ASSUME IInv, MarkerInv, SetScrollbackCapacity \/ Resize
    PROVE  MarkerInv'
<1>1. ~batch.on /\ epoch' = epoch + 1 /\ UNCHANGED <<markers, shifts, batch>>
  BY DEF SetScrollbackCapacity, Resize, Retire
<1>2. TypeInv   BY DEF IInv
<1>3. /\ \A k \in 1..Len(markers') : markers'[k].epoch <= epoch' /\ markers'[k].shifts <= shifts'
      /\ NoneCurrent'
  BY <1>1, <1>2, Retired
<1>4. Numbered(top - Len(grid.hist))'   BY <1>3 DEF Numbered, NoneCurrent
<1> QED BY <1>1, <1>3, <1>4 DEF MarkerInv, Counting

LEMMA MarkerEndBatch == ASSUME IInv, MarkerInv, EndBatch PROVE MarkerInv'
<1>0. TypeInv   BY DEF IInv
<1>1. /\ batch.on /\ ~batch.step /\ ~batch'.on
      /\ grid'.hist = grid.hist /\ grid'.view = grid.view
      /\ Uncounted(Len(grid.hist)) => epoch' = epoch + 1
      /\ ~Uncounted(Len(grid.hist)) => top' = batch.top /\ epoch' = epoch
      /\ UNCHANGED <<alt, markers, shifts>>
  BY EndedBatch
<1>2. CASE Uncounted(Len(grid.hist))
  <2>1. /\ \A k \in 1..Len(markers') : markers'[k].epoch <= epoch' /\ markers'[k].shifts <= shifts'
        /\ NoneCurrent'
    BY <1>0, <1>1, <1>2, Retired
  <2>2. Numbered(top - Len(grid.hist))'   BY <2>1 DEF Numbered, NoneCurrent
  <2> QED BY <1>1, <2>1, <2>2 DEF MarkerInv, Counting
<1>3. CASE ~Uncounted(Len(grid.hist))
  <2>1. (batch.alt0 <=> alt) /\ ~batch.break /\ ~batch.saturated   BY <1>3 DEF Uncounted
  <2>2. \A k \in 1..Len(markers') : markers'[k].epoch <= epoch' /\ markers'[k].shifts <= shifts'
    BY <1>1, <1>3 DEF MarkerInv
  <2>4. alt => NoneCurrent'
    BY <1>1, <1>3, <2>1 DEF MarkerInv, NoneCurrent, Current
  <2>5. ASSUME ~alt PROVE Numbered(top - Len(grid.hist))'
    <3>1. Counting   BY <1>1, <2>1, <2>5 DEF Counting
    <3>2. Numbered(batch.top - batch.size)   BY <1>1, <2>1, <3>1 DEF MarkerInv
    <3>3. batch.size = Len(grid.hist)   BY <1>1, <2>5 DEF IInv, BatchInv
    <3>4. (top - Len(grid.hist))' = batch.top - batch.size   BY <1>1, <1>3, <3>3
    <3> QED BY <1>1, <1>3, <3>2, <3>4 DEF Numbered, Current, RowAt
  <2> QED BY <1>1, <2>2, <2>4, <2>5 DEF MarkerInv, Counting
<1> QED BY <1>2, <1>3

LEMMA MarkerCache == ASSUME MarkerInv, CacheHistory PROVE MarkerInv'
<1>1. UNCHANGED <<grid, alt, top, epoch, markers, batch, shifts>>
  BY DEF CacheHistory, term, pane
<1> QED BY <1>1 DEF MarkerInv, Counting, Numbered, NoneCurrent, Current, RowAt

-----------------------------------------------------------------------------
(* The theorems. *)

\* Whatever a batch of process_pty_bytes does, when the lock is released the
\* primary grid, if it is the active one, is under the configured capacity again,
\* also when an earlier batch left it raised behind the alternate screen.
THEOREM LimitIsRestored == Spec => []RaisedLimitIsTemporary
<1>1. IInv => RaisedLimitIsTemporary
  BY GridTypes DEF IInv, TypeInv, LimitInv, RaisedLimitIsTemporary
<1> QED BY <1>1, Invariance, PTL

\* The number of the top row is never smaller than the history is long: the
\* saturating subtractions of resolve_shell_marker cut nothing off, for any
\* order of batches, screen switches, resizes and capacities.
THEOREM FloorHolds == Spec => []FloorIsReal
<1>1. IInv => FloorIsReal   BY DEF IInv
<1> QED BY <1>1, Invariance, PTL

\* Below the capacity, the history version and the length together name one
\* content: matching_history_cache accepts no history that has changed.
THEOREM CacheIsExactBelowCapacity == Spec => []CacheBelowCapacityIsExact
<1>1. IInv => CacheBelowCapacityIsExact   BY DEF IInv, CacheInv
<1> QED BY <1>1, Invariance, PTL

\* A marker of the primary screen resolves to the row it was recorded on or to
\* none, unless rows have moved since then by something growth of the history does
\* not tell: for every screen, headroom and capacity, every division of the output
\* into batches and steps, and whatever evicts, clears, resets, reflows or switches
\* screens.
THEOREM MarkersAreRight == Spec => []MarkerIsRight
<1>1. IInv /\ MarkerInv /\ [Next]_vars => MarkerInv'
  BY MarkerStutter, MarkerFeed, MarkerBeginBatch, MarkerBeginStep, MarkerEndStep, MarkerMark,
     MarkerEndBatch, MarkerRetire, MarkerCache
     DEF Next
<1>2. ASSUME IInv, MarkerInv PROVE MarkerIsRight
  <2> SUFFICES ASSUME ~batch.on, NEW i \in 1..Len(markers),
                      ~markers[i].alt, markers[i].shifts = shifts
               PROVE  LET p == Resolve(markers[i])
                      IN  CASE p.at = "history"  -> grid.hist[p.index + 1] = markers[i].id
                            [] p.at = "viewport" -> grid.view[p.index + 1] = markers[i].id
                            [] OTHER -> TRUE
    BY DEF MarkerIsRight, Right
  <2>1. TypeInv /\ FloorIsReal   BY <1>2 DEF IInv
  <2> DEFINE h == Len(grid.hist)
             row == markers[i].row
             low == top - h
  <2>2. h \in Nat /\ row \in Nat /\ top \in Nat /\ top >= h /\ Rows \in Nat \ {0}
    BY <2>1, GridTypes, MarkerTypes, Sizes DEF TypeInv, FloorIsReal
  <2>3. CASE markers[i].epoch # epoch \/ row < low
    <3>1. Resolve(markers[i]) = [at |-> "unavailable"]   BY <2>2, <2>3 DEF Resolve
    <3> QED BY <3>1
  <2>4. CASE markers[i].epoch = epoch /\ row >= low
    <3>0. Current(i)
      <4>1. markers[i].alt \in BOOLEAN   BY <2>1, MarkerTypes
      <4> QED BY <2>4, <4>1 DEF Current
    <3>1. ~alt   BY <1>2, <3>0 DEF MarkerInv, NoneCurrent
    <3>2. Numbered(low)   BY <1>2, <3>1 DEF MarkerInv
    <3>3. RowAt(grid, row - low + 1) = markers[i].id
      BY <2>4, <3>0, <3>2 DEF Numbered
    <3>4. CASE row < top
      <4>1. Resolve(markers[i]) = [at |-> "history", index |-> row - low]
        BY <2>2, <2>4, <3>4 DEF Resolve
      <4>2. row - low + 1 <= h   BY <2>2, <3>4
      <4>3. grid.hist[row - low + 1] = markers[i].id   BY <3>3, <4>2 DEF RowAt
      <4> QED BY <4>1, <4>3
    <3>5. CASE row >= top /\ row - top >= Rows
      <4>1. Resolve(markers[i]) = [at |-> "unavailable"]   BY <2>2, <2>4, <3>5 DEF Resolve
      <4> QED BY <4>1
    <3>6. CASE row >= top /\ ~(row - top >= Rows)
      <4>1. Resolve(markers[i]) = [at |-> "viewport", index |-> row - top]
        BY <2>2, <2>4, <3>6 DEF Resolve
      <4>2. ~(row - low + 1 <= h) /\ (row - low + 1) - h = row - top + 1   BY <2>2, <3>6
      <4>3. grid.view[row - top + 1] = markers[i].id   BY <3>3, <4>2 DEF RowAt
      <4> QED BY <4>1, <4>3
    <3> QED BY <2>2, <3>4, <3>5, <3>6
  <2> QED BY <2>2, <2>3, <2>4
<1> QED BY <1>1, <1>2, MarkerInit, Invariance, PTL DEF Spec
=============================================================================
