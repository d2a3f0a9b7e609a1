------------------------- MODULE ShadowEngineProofs -------------------------
(***************************************************************************)
(* Theorems about ShadowEngine, for all paths, contents, limits, crashes    *)
(* and failed steps.                                                        *)
(*                                                                          *)
(* 1. SInv is the shape of the state between any two steps: the tree        *)
(*    extends the table, a row's parent has a row, ids and numbers are      *)
(*    handed out upwards, what an open has left to do is part of the log.   *)
(* 2. OpensAgain.  LogInv: as long as nothing failed, the one entry without *)
(*    a row is that of the operation a crash has cut short, and its parent  *)
(*    has a row.                                                            *)
(* 3. BlobsAreReferenced.  The nodes of the tree alone are not inductive: a *)
(*    reference is taken before there is a node, and outlives the process.  *)
(*    RefsInv counts holders by sequence number, which a version keeps from *)
(*    its first reference through log, row, tree, crash and replay, and     *)
(*    adds the reference that the collector is about to give up.            *)
(* 4. QuietFileHoldsHead.  What a file must hold follows the newest version *)
(*    of its path, a row or an entry that replay will give a row, whose     *)
(*    number no crash and no replay changes.  FileInv: the file holds what  *)
(*    that version recorded, or an undo in the log is due to restore it.    *)
(*    PendInv: such an undo is the newest version, and recovery comes to    *)
(*    it.  The head is never a victim (HeadsProtected), so the collector    *)
(*    takes no newest version away.                                         *)
(* The last three are about what versions read as.  For them the steps are  *)
(* sorted into ten kinds (Kinds), by what they do to tree, table and log.   *)
(* 5. ContentIsNeverWrong.  A version reads as what was recorded, or as     *)
(*    nothing, if every full snapshot is of what was recorded and every     *)
(*    delta fits its parent (RightInv).  Replay can break this: the entry   *)
(*    names its parent by an id, and ids are given out anew.                *)
(*    - While nothing has failed, the row with the parent's id is the       *)
(*      parent, or is gone for good: the newest row of the path keeps later *)
(*      ids from being the parent's (FaithInv).                             *)
(*    - After one failed step the log may lack the rows of a whole run of   *)
(*      versions.  While the process lives, each of these entries has its   *)
(*      node in the tree, under the node of the entry before it (RunInv).   *)
(*      After a crash replay meets them in that order, so that the ids it   *)
(*      gives out are the ones the entries name; or it fails, or brings a   *)
(*      deleted version back, before it gets to one that would not fit      *)
(*      (RestInv).  AlongInv says that the log is in order and that replay  *)
(*      goes through it in order.                                           *)
(* 6. HeadsStayReadable.  ChainInv: every head has its chain of deltas down *)
(*    to a full snapshot, within D_MAX, and no version of it is a victim.   *)
(*    protected_set walks just this chain (ChainsProtected).                *)
(* 7. HistoryStaysReadable.  WholeInv: until a first version is begun to be *)
(*    deleted every one has its chain.  The nodes' depths do not tell if    *)
(*    this survives a crash, because a promoted version may be a delta      *)
(*    again after replay.  The invariant speaks of the depth each version   *)
(*    was recorded with, which grows along the chain and is at most D_MAX.  *)
(***************************************************************************)
EXTENDS ShadowEngine, FiniteSetTheorems, WellFoundedInduction, TLAPS

-----------------------------------------------------------------------------
(* Sequences, by their members. *)

IsSeq(s) == \E S : s \in Seq(S)

Elems(s) == {s[i] : i \in 1..Len(s)}

LEMMA EmptySeq == IsSeq(<<>>) /\ Elems(<<>>) = {}
<1>1. <<>> \in Seq({}) /\ Len(<<>>) = 0   OBVIOUS
<1>2. 1..0 = {}   OBVIOUS
<1> QED BY <1>1, <1>2 DEF IsSeq, Elems

LEMMA AppendSeq ==
    ASSUME NEW s, NEW e, IsSeq(s)
    PROVE  IsSeq(Append(s, e)) /\ Elems(Append(s, e)) = Elems(s) \cup {e}
<1>1. PICK S : s \in Seq(S)   BY DEF IsSeq
<1>2. s \in Seq(S \cup {e}) /\ e \in S \cup {e}   BY <1>1
<1> HIDE <1>1
<1>3. Append(s, e) \in Seq(S \cup {e})   BY <1>2
<1>4. Len(s) \in Nat /\ Len(Append(s, e)) = Len(s) + 1   BY <1>2
<1>5. \A i \in 1..Len(s) : Append(s, e)[i] = s[i]   BY <1>2
<1>6. Append(s, e)[Len(s) + 1] = e   BY <1>2
<1>7. 1..(Len(s) + 1) = (1..Len(s)) \cup {Len(s) + 1}   BY <1>4
<1>8. Elems(Append(s, e)) = Elems(s) \cup {e}
  BY <1>4, <1>5, <1>6, <1>7 DEF Elems
<1> QED BY <1>3, <1>8 DEF IsSeq

LEMMA TailSeq ==
    ASSUME NEW s, IsSeq(s), s # <<>>
    PROVE  /\ IsSeq(Tail(s))
           /\ Elems(s) = {Head(s)} \cup Elems(Tail(s))
<1>1. PICK S : s \in Seq(S)   BY DEF IsSeq
<1>2. Tail(s) \in Seq(S) /\ Len(s) \in Nat \ {0} /\ Len(Tail(s)) = Len(s) - 1
      /\ Head(s) = s[1]
  BY <1>1
<1>3. \A i \in 1..(Len(s) - 1) : Tail(s)[i] = s[i + 1]   BY <1>1, <1>2
<1>4. ASSUME NEW x PROVE x \in Elems(s) <=> x \in {Head(s)} \cup Elems(Tail(s))
  <2>1. ASSUME x \in Elems(s) PROVE x = Head(s) \/ x \in Elems(Tail(s))
    <3>1. PICK i \in 1..Len(s) : x = s[i]   BY <2>1 DEF Elems
    <3>2. CASE i = 1   BY <3>1, <3>2, <1>2
    <3>3. CASE i # 1
      <4>1. i - 1 \in 1..(Len(s) - 1) /\ Tail(s)[i - 1] = x
        BY <3>1, <3>3, <1>2, <1>3
      <4> QED BY <4>1, <1>2 DEF Elems
    <3> QED BY <3>2, <3>3
  <2>2. Head(s) \in Elems(s)   BY <1>2 DEF Elems
  <2>3. ASSUME x \in Elems(Tail(s)) PROVE x \in Elems(s)
    <3>1. PICK i \in 1..(Len(s) - 1) : x = Tail(s)[i]   BY <2>3, <1>2 DEF Elems
    <3>2. i + 1 \in 1..Len(s) /\ x = s[i + 1]   BY <3>1, <1>2, <1>3
    <3> QED BY <3>2 DEF Elems
  <2> QED BY <2>1, <2>2, <2>3
<1> QED BY <1>2, <1>4 DEF IsSeq

LEMMA SeqsOfLog ==
    ASSUME NEW s, IsSeq(s) PROVE SeqsOf(s) = {e.seq : e \in Elems(s)}
<1>1. PICK S : s \in Seq(S)   BY DEF IsSeq
<1>2. DOMAIN s = 1..Len(s)   BY <1>1
<1> QED BY <1>2 DEF SeqsOf, Elems

-----------------------------------------------------------------------------
(* Numbers. *)

\* A set of natural numbers that is not empty has a least one.
LEMMA LeastNumber ==
    ASSUME NEW T, T \subseteq Nat, T # {}
    PROVE  \E n \in T : \A m \in T : n <= m
<1>1. PICK n \in T : \A m \in T : ~(<<m, n>> \in OpToRel(<, Nat))
  BY WFMin, NatLessThanWellFounded
<1>2. \A m \in T : ~(m < n)   BY <1>1 DEF OpToRel
<1> QED BY <1>2

\* One that is bounded has a greatest one.
LEMMA GreatestNumber ==
    ASSUME NEW T, T \subseteq Nat, T # {}, NEW n \in Nat, \A m \in T : m <= n
    PROVE  \E g \in T : \A m \in T : m <= g
<1> DEFINE U == {n - m : m \in T}
<1>0. \A m \in T : n - m \in Nat   OBVIOUS
<1>1. U \subseteq Nat /\ U # {}   BY <1>0
<1>2. PICK u \in U : \A w \in U : u <= w   BY <1>1, LeastNumber
<1>3. PICK g \in T : u = n - g   OBVIOUS
<1>4. \A m \in T : n - g <= n - m   BY <1>2, <1>3
<1>5. \A m \in T : m <= g   BY <1>4
<1> QED BY <1>5

LEMMA MaxOfBounds ==
    ASSUME NEW S, S \subseteq Nat, NEW n \in Nat, \A m \in S : m <= n
    PROVE  MaxOf(S) \in Nat /\ (\A m \in S : m <= MaxOf(S)) /\ MaxOf(S) \in S \cup {0}
<1> DEFINE T == S \cup {0}
<1>1. T \subseteq Nat /\ T # {} /\ \A m \in T : m <= n   OBVIOUS
<1>2. PICK g \in T : \A m \in T : m <= g
  <2> HIDE DEF T
  <2> QED BY <1>1, GreatestNumber
<1>3. \E m \in S \cup {0} : \A k \in S : m >= k   BY <1>2
<1>4. MaxOf(S) \in S \cup {0} /\ \A k \in S : MaxOf(S) >= k
  BY <1>3, Zenon DEF MaxOf
<1>5. \A x \in S \cup {0} : (\A k \in S : x >= k) => x \in Nat /\ \A k \in S : k <= x
  OBVIOUS
<1> QED BY <1>4, <1>5, Zenon

-----------------------------------------------------------------------------
(* The state between any two steps, whatever has failed. *)

\* The operation under way has a blob but no node yet.
Busy == {"log", "restore", "row"}

Opening == {"replay", "recover", "finish"}

\* A version node: a snapshot, a delta or a tombstone.
IsNode(n) ==
    /\ n = [path |-> n.path, seq |-> n.seq, parent |-> n.parent, full |-> n.full,
            delta |-> n.delta, depth |-> n.depth, trigger |-> n.trigger]
    /\ n.path \in Paths
    /\ n.seq \in 1..MaxSeq
    /\ n.full = NoBlob \/ n.delta = NoBlob

AreNodes(nodes) ==
    /\ \A v \in DOMAIN nodes : IsNode(nodes[v]) /\ v \in Nat
    /\ \A u, v \in DOMAIN nodes : nodes[u].seq = nodes[v].seq => u = v

\* The tree extends the table, and the table has the parent of every row.
NodesInv ==
    /\ AreNodes(tree) /\ AreNodes(rows)
    /\ at \in {"down", "replay"} => DOMAIN heads = {}
    /\ at = "down" => DOMAIN tree = {}
    /\ at = "replay" => tree = rows
    /\ at # "down" => \A v \in DOMAIN rows : v \in DOMAIN tree /\ tree[v] = rows[v]
    /\ \A p \in DOMAIN heads : heads[p] \in DOMAIN tree
    /\ \A v \in DOMAIN rows : rows[v].parent = Root \/ rows[v].parent \in DOMAIN rows

\* Version ids and sequence numbers are handed out upwards.
NumbersInv ==
    /\ nextId \in Nat /\ seqNo \in Nat \ {0}
    /\ \E n \in Nat : \A v \in DOMAIN rows : v <= n
    /\ at # "down" =>
         /\ \A v \in DOMAIN tree : v < nextId /\ tree[v].seq < seqNo
         /\ \A e \in Elems(wal) : e.seq < seqNo
    /\ IsSeq(wal)
    /\ \A e \in Elems(wal) : /\ e.seq \in 1..MaxSeq /\ e.path \in Paths
                             /\ e.full = NoBlob \/ e.delta = NoBlob

OpInv ==
    /\ at \in Busy \cup {"done"} =>
         /\ op.path \in Paths /\ op.seq \in 1..MaxSeq /\ op.seq < seqNo
         /\ op.full = NoBlob \/ op.delta = NoBlob
    /\ at \in Busy =>
         /\ op.seq \notin SeqsOf(tree)
         /\ op.parent = Root \/ op.parent \in DOMAIN tree

TodoInv ==
    /\ IsSeq(tasks)
    /\ at \in Opening => Elems(tasks) \subseteq Elems(wal)
    /\ at = "finish" => tasks # <<>>
    /\ plan = [promote |-> plan.promote, evict |-> plan.evict, unref |-> plan.unref,
               again |-> plan.again]
    /\ plan.promote \subseteq DOMAIN tree /\ plan.evict \subseteq DOMAIN tree
    /\ at # "evict" => plan = NoPlan
    /\ plan.unref = <<>> \/ \E b : plan.unref = <<b>>

SInv == NodesInv /\ NumbersInv /\ OpInv /\ TodoInv

LEMMA NewestIsThere ==
    ASSUME NEW nodes, AreNodes(nodes)
    PROVE  /\ \A v \in DOMAIN nodes : nodes[v].path \in DOMAIN NewestHeads(nodes)
           /\ \A p \in DOMAIN NewestHeads(nodes) :
                /\ p \in Paths
                /\ NewestHeads(nodes)[p] \in DOMAIN nodes
                /\ nodes[NewestHeads(nodes)[p]].path = p
                /\ \A u \in DOMAIN nodes :
                     nodes[u].path = p => nodes[u].seq <= nodes[NewestHeads(nodes)[p]].seq
<1> DEFINE of(p) == {v \in DOMAIN nodes : nodes[v].path = p}
           newest(p, v) == v \in of(p) /\ \A u \in of(p) : nodes[v].seq >= nodes[u].seq
<1>0. NewestHeads(nodes) = [p \in {q \in Paths : of(q) # {}} |->
            CHOOSE v \in of(p) : \A u \in of(p) : nodes[v].seq >= nodes[u].seq]
  BY DEF NewestHeads
<1>1. ASSUME NEW v \in DOMAIN nodes PROVE nodes[v].path \in DOMAIN NewestHeads(nodes)
  BY <1>0 DEF AreNodes, IsNode
<1>2. ASSUME NEW p \in Paths, of(p) # {} PROVE \E v \in of(p) : newest(p, v)
  <2> DEFINE T == {nodes[v].seq : v \in of(p)}
  <2>1. MaxSeq \in Nat   BY BoundsAssumption
  <2>2. \A v \in of(p) : nodes[v].seq \in 1..MaxSeq   BY DEF AreNodes, IsNode
  <2>3. T \subseteq Nat /\ T # {} /\ \A m \in T : m <= MaxSeq   BY <2>1, <2>2, <1>2
  <2>4. PICK g \in T : \A m \in T : m <= g
    <3> HIDE DEF T
    <3> QED BY <2>1, <2>3, GreatestNumber
  <2>5. PICK v \in of(p) : nodes[v].seq = g   OBVIOUS
  <2>6. \A u \in of(p) : nodes[v].seq >= nodes[u].seq   BY <2>2, <2>3, <2>4, <2>5
  <2> QED BY <2>5, <2>6
<1>3. ASSUME NEW p \in DOMAIN NewestHeads(nodes)
      PROVE  p \in Paths /\ newest(p, NewestHeads(nodes)[p])
  <2>1. p \in Paths /\ of(p) # {}   BY <1>0
  <2>2. NewestHeads(nodes)[p]
          = CHOOSE v \in of(p) : \A u \in of(p) : nodes[v].seq >= nodes[u].seq
    BY <1>0, <2>1
  <2>3. \E v \in of(p) : \A u \in of(p) : nodes[v].seq >= nodes[u].seq   BY <1>2, <2>1
  <2> QED BY <2>1, <2>2, <2>3, Zenon
<1>4. ASSUME NEW p \in DOMAIN NewestHeads(nodes), NEW u \in DOMAIN nodes, nodes[u].path = p
      PROVE  nodes[u].seq <= nodes[NewestHeads(nodes)[p]].seq
  <2>1. NewestHeads(nodes)[p] \in DOMAIN nodes
        /\ nodes[NewestHeads(nodes)[p]].seq >= nodes[u].seq
    BY <1>3, <1>4
  <2>2. nodes[u].seq \in Int /\ nodes[NewestHeads(nodes)[p]].seq \in Int
    BY <2>1, BoundsAssumption DEF AreNodes, IsNode
  <2> QED BY <2>1, <2>2
<1> QED BY <1>1, <1>3, <1>4

LEMMA DetachedNode ==
    ASSUME NEW n, IsNode(n), NEW x
    PROVE  /\ IsNode([n EXCEPT !.parent = x])
           /\ [n EXCEPT !.parent = x].path = n.path
           /\ [n EXCEPT !.parent = x].seq = n.seq
           /\ [n EXCEPT !.parent = x].full = n.full
           /\ [n EXCEPT !.parent = x].delta = n.delta
           /\ [n EXCEPT !.parent = x].depth = n.depth
           /\ [n EXCEPT !.parent = x].trigger = n.trigger
           /\ [n EXCEPT !.parent = x].parent = x
<1> DEFINE r == [path |-> n.path, seq |-> n.seq, parent |-> x, full |-> n.full,
                 delta |-> n.delta, depth |-> n.depth, trigger |-> n.trigger]
<1>1. n = [path |-> n.path, seq |-> n.seq, parent |-> n.parent, full |-> n.full,
           delta |-> n.delta, depth |-> n.depth, trigger |-> n.trigger]
  BY Zenon DEF IsNode
<1>2. [n EXCEPT !.parent = x] = r   BY <1>1
<1>3. /\ r.path = n.path /\ r.seq = n.seq /\ r.parent = x /\ r.full = n.full
      /\ r.delta = n.delta /\ r.depth = n.depth /\ r.trigger = n.trigger
  OBVIOUS
<1>4. r = [path |-> r.path, seq |-> r.seq, parent |-> r.parent, full |-> r.full,
           delta |-> r.delta, depth |-> r.depth, trigger |-> r.trigger]
  OBVIOUS
<1> HIDE DEF r
<1>5. IsNode(r)   BY <1>3, <1>4, Zenon DEF IsNode
<1> QED BY <1>2, <1>3, <1>5, Zenon

\* What is left of the nodes when one is removed.
LEMMA RemovedNode ==
    ASSUME NEW nodes, AreNodes(nodes), NEW v, NEW u, u \in DOMAIN nodes, u # v
    PROVE  /\ IsNode(Removed(nodes, v)[u])
           /\ Removed(nodes, v)[u].path = nodes[u].path
           /\ Removed(nodes, v)[u].seq = nodes[u].seq
           /\ Removed(nodes, v)[u].full = nodes[u].full
           /\ Removed(nodes, v)[u].delta = nodes[u].delta
           /\ Removed(nodes, v)[u].depth = nodes[u].depth
           /\ Removed(nodes, v)[u].trigger = nodes[u].trigger
           /\ Removed(nodes, v)[u].parent
                = IF nodes[u].parent = v THEN Root ELSE nodes[u].parent
<1> DEFINE R == Removed(nodes, v)
<1>1. R[u] = IF nodes[u].parent = v THEN [nodes[u] EXCEPT !.parent = Root] ELSE nodes[u]
  BY DEF Removed, Detached, Without
<1>2. IsNode(nodes[u])   BY DEF AreNodes
<1> HIDE DEF R
<1>3. CASE nodes[u].parent = v
  <2> DEFINE r == [nodes[u] EXCEPT !.parent = Root]
  <2>1. R[u] = r   BY <1>1, <1>3
  <2>2. /\ IsNode(r) /\ r.path = nodes[u].path /\ r.seq = nodes[u].seq
        /\ r.full = nodes[u].full /\ r.delta = nodes[u].delta
        /\ r.depth = nodes[u].depth /\ r.trigger = nodes[u].trigger /\ r.parent = Root
    BY <1>2, DetachedNode, Zenon
  <2> HIDE DEF r
  <2> QED BY <1>3, <2>1, <2>2, Zenon DEF R
<1>4. CASE nodes[u].parent # v   BY <1>1, <1>2, <1>4, Zenon DEF R
<1> QED BY <1>3, <1>4

LEMMA RemovedNodes ==
    ASSUME NEW nodes, AreNodes(nodes), NEW v
    PROVE  AreNodes(Removed(nodes, v)) /\ DOMAIN Removed(nodes, v) = DOMAIN nodes \ {v}
<1> DEFINE R == Removed(nodes, v)
<1>1. DOMAIN R = DOMAIN nodes \ {v}   BY DEF Removed, Detached, Without
<1>2. ASSUME NEW u \in DOMAIN R PROVE IsNode(R[u]) /\ R[u].seq = nodes[u].seq
  <2>1. u \in DOMAIN nodes /\ u # v   BY <1>1
  <2> QED BY <2>1, RemovedNode
<1> HIDE DEF R
<1>3. AreNodes(R)   BY <1>1, <1>2 DEF AreNodes
<1> QED BY <1>1, <1>3 DEF R

\* A node is added under a new id.
LEMMA WithNodes ==
    ASSUME NEW nodes, AreNodes(nodes), NEW v, v \in Nat, NEW n, IsNode(n),
           \A u \in DOMAIN nodes : nodes[u].seq = n.seq => u = v
    PROVE  AreNodes(With(nodes, v, n))
BY DEF AreNodes, With

LEMMA NodeOfIsNode ==
    ASSUME NEW e, NEW d, e.path \in Paths, e.seq \in 1..MaxSeq,
           e.full = NoBlob \/ e.delta = NoBlob
    PROVE  /\ IsNode(NodeOf(e, d))
           /\ NodeOf(e, d).path = e.path /\ NodeOf(e, d).seq = e.seq
           /\ NodeOf(e, d).parent = e.parent /\ NodeOf(e, d).full = e.full
           /\ NodeOf(e, d).delta = e.delta /\ NodeOf(e, d).trigger = e.trigger
           /\ NodeOf(e, d).depth = d
<1> DEFINE r == NodeOf(e, d)
<1>1. /\ r.path = e.path /\ r.seq = e.seq /\ r.parent = e.parent /\ r.full = e.full
      /\ r.delta = e.delta /\ r.trigger = e.trigger /\ r.depth = d
      /\ r = [path |-> r.path, seq |-> r.seq, parent |-> r.parent, full |-> r.full,
              delta |-> r.delta, depth |-> r.depth, trigger |-> r.trigger]
  BY DEF NodeOf
<1> HIDE DEF r
<1>2. IsNode(r)   BY <1>1, Zenon DEF IsNode
<1> QED BY <1>1, <1>2 DEF r

LEMMA EntryFields ==
    ASSUME NEW e, NEW pt, NEW tr
    PROVE  /\ Entry(e, pt, tr).path = e.path /\ Entry(e, pt, tr).seq = e.seq
           /\ Entry(e, pt, tr).parent = pt /\ Entry(e, pt, tr).full = e.full
           /\ Entry(e, pt, tr).delta = e.delta /\ Entry(e, pt, tr).trigger = tr
BY DEF Entry

LEMMA NoPlanFields ==
    /\ NoPlan.promote = {} /\ NoPlan.evict = {} /\ NoPlan.unref = <<>>
    /\ NoPlan = [promote |-> NoPlan.promote, evict |-> NoPlan.evict,
                 unref |-> NoPlan.unref, again |-> NoPlan.again]
BY DEF NoPlan

\* No plan is as good as any.
LEMMA TodoNoPlan ==
    ASSUME IsSeq(tasks'), plan' = NoPlan,
           at' \in Opening => Elems(tasks') \subseteq Elems(wal'),
           at' = "finish" => tasks' # <<>>
    PROVE  TodoInv'
BY NoPlanFields DEF TodoInv

-----------------------------------------------------------------------------
(* Every step keeps it. *)

LEMMA SInit == Init => SInv
<1> SUFFICES ASSUME Init PROVE SInv   OBVIOUS
<1>1. DOMAIN <<>> = {}   OBVIOUS
<1>2. NodesInv   BY <1>1 DEF Init, NodesInv, AreNodes
<1>3. NumbersInv
  <2>1. \E n \in Nat : \A v \in DOMAIN rows : v <= n   BY <1>1 DEF Init
  <2> QED BY <1>1, <2>1, EmptySeq DEF Init, NumbersInv
<1>4. OpInv   BY DEF Init, OpInv, Busy
<1>5. TodoInv   BY NoPlanFields, EmptySeq DEF Init, TodoInv, Opening
<1> QED BY <1>2, <1>3, <1>4, <1>5 DEF SInv

\* A step that keeps everything this invariant is about.
LEMMA SFrame ==
    ASSUME SInv, UNCHANGED <<wal, rows, tree, heads, nextId, seqNo, at, op, tasks, plan>>
    PROVE  SInv'
<1>1. NodesInv'   BY DEF SInv, NodesInv
<1>2. NumbersInv'   BY DEF SInv, NumbersInv
<1>3. OpInv'   BY DEF SInv, OpInv
<1>4. TodoInv'   BY DEF SInv, TodoInv
<1> QED BY <1>1, <1>2, <1>3, <1>4 DEF SInv

\* A step that only goes on to another point of the program.
LEMMA SMove ==
    ASSUME SInv, UNCHANGED <<wal, rows, tree, heads, nextId, seqNo, op>>,
           at # "down", at' \notin {"down", "replay"},
           at' \in Busy => at \in Busy,
           at' = "done" => at = "done",
           TodoInv'
    PROVE  SInv'
<1>1. NodesInv'   BY DEF SInv, NodesInv
<1>2. NumbersInv'   BY DEF SInv, NumbersInv
<1>3. OpInv'   BY DEF SInv, OpInv, Busy
<1> QED BY <1>1, <1>2, <1>3 DEF SInv

LEMMA SStart ==
    ASSUME SInv, Ready, NEW p \in Paths, NEW c, NEW shape, NEW trigger,
           shape.full = NoBlob \/ shape.delta = NoBlob,
           Start(p, c, shape, trigger)
    PROVE  SInv'
<1> USE DEF Start, SInv, Ready
<1>0. /\ UNCHANGED <<wal, rows, tree, heads, nextId, tasks, plan>>
      /\ at' = "log" /\ seqNo' = seqNo + 1 /\ seqNo <= MaxSeq
      /\ op'.path = p /\ op'.seq = seqNo /\ op'.parent = HeadOf(p)
      /\ op'.full = shape.full /\ op'.delta = shape.delta
  BY DEF todo
<1>1. NodesInv'   BY <1>0 DEF NodesInv
<1>2. seqNo \in Nat \ {0} /\ MaxSeq \in Nat   BY BoundsAssumption DEF NumbersInv
<1>3. NumbersInv'
  <2>1. \A v \in DOMAIN tree : v < nextId /\ tree[v].seq < seqNo + 1
    BY <1>2 DEF NumbersInv, NodesInv, AreNodes, IsNode
  <2>2. \A e \in Elems(wal) : e.seq < seqNo + 1   BY <1>2 DEF NumbersInv
  <2> QED BY <1>0, <1>2, <2>1, <2>2 DEF NumbersInv
<1>4. OpInv'
  <2>1. HeadOf(p) = Root \/ HeadOf(p) \in DOMAIN tree   BY DEF HeadOf, NodesInv
  <2>2. seqNo \notin SeqsOf(tree)   BY <1>2 DEF SeqsOf, NumbersInv
  <2>3. seqNo \in 1..MaxSeq /\ seqNo < seqNo + 1   BY <1>0, <1>2
  <2> QED BY <1>0, <2>1, <2>2, <2>3 DEF OpInv, Busy, SeqsOf
<1>5. TodoInv'   BY <1>0 DEF TodoInv, Opening
<1> QED BY <1>1, <1>3, <1>4, <1>5

LEMMA SnapshotShape ==
    ASSUME NEW v, NEW c
    PROVE  Snapshot(v, c).full = NoBlob \/ Snapshot(v, c).delta = NoBlob
BY DEF Snapshot, NoBlob

LEMMA SRecord ==
    ASSUME SInv, NEW p \in Paths,
           \/ RecordChange(p) \/ RecordDelete(p)
           \/ \E v \in DOMAIN tree : Decline(p, v)
    PROVE  SInv'
<1>1. CASE RecordChange(p)
  BY <1>1, SnapshotShape, SStart, Zenon DEF RecordChange
<1>2. CASE RecordDelete(p)
  <2>1. Tombstone.full = NoBlob   BY DEF Tombstone
  <2> QED BY <1>2, <2>1, SStart, Zenon DEF RecordDelete
<1>3. ASSUME NEW v \in DOMAIN tree, Decline(p, v) PROVE SInv'
  <2>1. Full(Read(tree, v)).delta = NoBlob   BY DEF Full
  <2> QED BY <1>3, <2>1, SStart, Zenon DEF Decline
<1> QED BY <1>1, <1>2, <1>3

LEMMA SCommit == SInv /\ CommitEntry => SInv'
<1> SUFFICES ASSUME SInv, CommitEntry PROVE SInv'   OBVIOUS
<1> USE DEF SInv, CommitEntry
<1> DEFINE e == Entry(op, op.parent, op.trigger)
<1>0. UNCHANGED <<rows, tree, heads, nextId, seqNo, op, tasks, plan>> /\ at = "log"
      /\ at' \in {"restore", "row"}
  BY DEF memory, todo
<1>1. IsSeq(wal') /\ Elems(wal') = Elems(wal) \cup {e}   BY AppendSeq DEF NumbersInv
<1>2. NodesInv'   BY <1>0 DEF NodesInv
<1>3. NumbersInv'
  <2>1. /\ e.seq \in 1..MaxSeq /\ e.seq < seqNo /\ e.path \in Paths
        /\ e.full = NoBlob \/ e.delta = NoBlob
    BY EntryFields, <1>0 DEF OpInv, Busy
  <2> QED BY <1>0, <1>1, <2>1 DEF NumbersInv
<1>4. OpInv'   BY <1>0 DEF OpInv, Busy
<1>5. TodoInv'   BY <1>0 DEF TodoInv, Opening
<1> QED BY <1>2, <1>3, <1>4, <1>5

LEMMA SRestore == SInv /\ RestoreFile => SInv'
<1> SUFFICES ASSUME SInv, RestoreFile PROVE SInv'   OBVIOUS
<1>1. TodoInv'   BY TodoNoPlan DEF SInv, TodoInv, RestoreFile, todo, Opening
<1> QED BY <1>1, SMove DEF RestoreFile, memory, Busy

\* The tree, and perhaps the table, get the operation's node.
LEMMA SAdvance ==
    ASSUME SInv, at = "row", AdvanceHead,
           rows' = rows \/ (RowFits(op) /\ rows' = With(rows, nextId, NodeOf(op, op.depth))),
           at' \notin Busy \cup Opening \cup {"down", "evict"},
           at' = "done" => op' = op,
           UNCHANGED <<wal, seqNo, tasks, plan>>
    PROVE  SInv' /\ nextId \notin DOMAIN tree /\ nextId \notin DOMAIN rows
<1> USE DEF SInv
<1> DEFINE n == NodeOf(op, op.depth)
<1>0. at' \notin {"down", "replay", "recover", "finish", "evict", "log", "restore", "row"}
  BY DEF Busy, Opening
<1>1. IsNode(n) /\ n.seq = op.seq /\ n.parent = op.parent
  BY NodeOfIsNode DEF OpInv, Busy
<1>2. nextId \notin DOMAIN tree /\ nextId \in Nat /\ nextId < nextId + 1
  BY DEF NumbersInv
<1>3. nextId \notin DOMAIN rows   BY <1>2 DEF NodesInv
<1>4. \A u \in DOMAIN tree : tree[u].seq # op.seq   BY DEF OpInv, Busy, SeqsOf
<1>5. \A u \in DOMAIN rows : rows[u].seq # op.seq   BY <1>4 DEF NodesInv
<1>6. /\ AreNodes(tree') /\ DOMAIN tree' = DOMAIN tree \cup {nextId}
      /\ tree'[nextId] = n /\ \A u \in DOMAIN tree : tree'[u] = tree[u]
  <2>1. AreNodes(tree)   BY DEF NodesInv
  <2>2. tree' = With(tree, nextId, n)   BY DEF AdvanceHead
  <2>3. \A u \in DOMAIN tree : tree[u].seq = n.seq => u = nextId   BY <1>1, <1>4
  <2>5. nextId \in Nat /\ IsNode(n)   BY <1>1, <1>2
  <2> HIDE DEF n, SInv
  <2>4. AreNodes(With(tree, nextId, n))   BY <2>1, <2>3, <2>5, WithNodes
  <2> QED BY <2>2, <2>4, <1>2 DEF With
<1>7. CASE rows' = rows
  <2>1. NodesInv'
    <3>1. DOMAIN heads' = DOMAIN heads \cup {op.path} /\ heads'[op.path] = nextId
          /\ \A p \in DOMAIN heads \ {op.path} : heads'[p] = heads[p]
      BY DEF AdvanceHead, With
    <3>2. \A p \in DOMAIN heads' : heads'[p] \in DOMAIN tree'
      BY <3>1, <1>6 DEF NodesInv
    <3> QED BY <1>0, <1>6, <1>7, <3>2 DEF NodesInv
  <2>2. NumbersInv'
    <3>1. nextId' = nextId + 1   BY DEF AdvanceHead
    <3>2. \A v \in DOMAIN tree' : v < nextId + 1 /\ tree'[v].seq < seqNo
      BY <1>1, <1>2, <1>6 DEF NumbersInv, NodesInv, AreNodes, OpInv, Busy
    <3> QED BY <1>7, <3>1, <3>2 DEF NumbersInv
  <2>3. OpInv'   BY <1>0 DEF OpInv, Busy
  <2>4. TodoInv'   BY <1>0, TodoNoPlan DEF TodoInv, Opening
  <2> QED BY <2>1, <2>2, <2>3, <2>4, <1>2, <1>3
<1>8. CASE RowFits(op) /\ rows' = With(rows, nextId, n)
  <2>0. /\ AreNodes(rows') /\ DOMAIN rows' = DOMAIN rows \cup {nextId}
        /\ rows'[nextId] = n /\ \A u \in DOMAIN rows : rows'[u] = rows[u]
    <3>1. AreNodes(rows)   BY DEF NodesInv
    <3>2. \A u \in DOMAIN rows : rows[u].seq = n.seq => u = nextId   BY <1>1, <1>5
    <3>4. nextId \in Nat /\ IsNode(n)   BY <1>1, <1>2
    <3> HIDE DEF n, SInv
    <3>3. AreNodes(With(rows, nextId, n))   BY <3>1, <3>2, <3>4, WithNodes
    <3> QED BY <3>3, <1>3, <1>8 DEF With
  <2>1. NodesInv'
    <3>1. DOMAIN heads' = DOMAIN heads \cup {op.path} /\ heads'[op.path] = nextId
          /\ \A p \in DOMAIN heads \ {op.path} : heads'[p] = heads[p]
      BY DEF AdvanceHead, With
    <3>2. \A p \in DOMAIN heads' : heads'[p] \in DOMAIN tree'
      BY <3>1, <1>6 DEF NodesInv
    <3>3. \A v \in DOMAIN rows' : v \in DOMAIN tree' /\ tree'[v] = rows'[v]
      BY <2>0, <1>6 DEF NodesInv
    <3>4. \A v \in DOMAIN rows' : rows'[v].parent = Root \/ rows'[v].parent \in DOMAIN rows'
      BY <2>0, <1>1, <1>8 DEF NodesInv, RowFits
    <3> QED BY <1>0, <1>6, <2>0, <3>2, <3>3, <3>4 DEF NodesInv
  <2>2. NumbersInv'
    <3>1. nextId' = nextId + 1   BY DEF AdvanceHead
    <3>2. \A v \in DOMAIN tree' : v < nextId + 1 /\ tree'[v].seq < seqNo
      BY <1>1, <1>2, <1>6 DEF NumbersInv, NodesInv, AreNodes, OpInv, Busy
    <3>3. \A v \in DOMAIN rows' : v <= nextId
      BY <2>0, <1>2 DEF NumbersInv, NodesInv, AreNodes
    <3> QED BY <1>2, <3>1, <3>2, <3>3 DEF NumbersInv
  <2>3. OpInv'   BY <1>0 DEF OpInv, Busy
  <2>4. TodoInv'   BY <1>0, TodoNoPlan DEF TodoInv, Opening
  <2> QED BY <2>1, <2>2, <2>3, <2>4, <1>2, <1>3
<1> QED BY <1>7, <1>8

LEMMA SRow ==
    ASSUME SInv, WriteRow \/ RowFails \/ RowRefused
    PROVE  SInv' /\ nextId \notin DOMAIN tree /\ nextId \notin DOMAIN rows
<1>1. CASE WriteRow
  BY <1>1, SAdvance DEF WriteRow, MaybeRunGc, Busy, Opening, todo, ghost
<1>2. CASE RowFails
  BY <1>2, SAdvance DEF RowFails, Fail, Busy, Opening, todo, durable
<1>3. CASE RowRefused
  BY <1>3, SAdvance DEF RowRefused, Busy, Opening, todo, durable
<1> QED BY <1>1, <1>2, <1>3

\* A completion mark is written.
LEMMA SMark ==
    ASSUME SInv, NEW e, at # "down", at' \in {"idle", "gc", "recover"},
           e.seq \in 1..MaxSeq, e.seq < seqNo, e.path \in Paths,
           e.full = NoBlob \/ e.delta = NoBlob,
           wal' = Append(wal, Entry(e, Root, "DeclineDone")),
           UNCHANGED <<rows, tree, heads, nextId, seqNo>>, TodoInv'
    PROVE  SInv'
<1> USE DEF SInv
<1> DEFINE d == Entry(e, Root, "DeclineDone")
<1>1. IsSeq(wal') /\ Elems(wal') = Elems(wal) \cup {d}   BY AppendSeq DEF NumbersInv
<1>2. NodesInv'   BY DEF NodesInv
<1>3. NumbersInv'
  <2>1. /\ d.seq \in 1..MaxSeq /\ d.seq < seqNo /\ d.path \in Paths
        /\ d.full = NoBlob \/ d.delta = NoBlob
    BY EntryFields
  <2> QED BY <1>1, <2>1 DEF NumbersInv
<1>4. OpInv'   BY DEF OpInv, Busy
<1> QED BY <1>2, <1>3, <1>4

LEMMA SMarkDone == SInv /\ MarkDone => SInv'
<1> SUFFICES ASSUME SInv, MarkDone PROVE SInv'   OBVIOUS
<1>1. at = "done" /\ at' \in {"idle", "gc"}   BY DEF MarkDone, MaybeRunGc
<1>2. TodoInv'   BY <1>1, TodoNoPlan DEF MarkDone, SInv, TodoInv, todo, Opening
<1>3. /\ op.seq \in 1..MaxSeq /\ op.seq < seqNo /\ op.path \in Paths
      /\ op.full = NoBlob \/ op.delta = NoBlob
  BY <1>1 DEF SInv, OpInv
<1> QED BY <1>1, <1>2, <1>3, SMark DEF MarkDone

LEMMA SFails == SInv /\ (LogFails \/ SyncFails \/ RestoreOrMarkFails) => SInv'
<1> SUFFICES ASSUME SInv, LogFails \/ SyncFails \/ RestoreOrMarkFails PROVE SInv'   OBVIOUS
<1>1. /\ at \in {"log", "restore", "row", "done"} /\ at' = "idle"
      /\ UNCHANGED <<wal, rows, tree, heads, nextId, seqNo, tasks, plan>>
  BY DEF LogFails, SyncFails, RestoreOrMarkFails, Fail, durable, todo
<1>2. TodoInv'   BY <1>1, TodoNoPlan DEF SInv, TodoInv, Opening
<1>3. NodesInv'   BY <1>1 DEF SInv, NodesInv
<1>4. NumbersInv'   BY <1>1 DEF SInv, NumbersInv
<1>5. OpInv'   BY <1>1 DEF OpInv, Busy
<1> QED BY <1>2, <1>3, <1>4, <1>5 DEF SInv

LEMMA PromotedIsNode ==
    ASSUME NEW n, IsNode(n), NEW c
    PROVE  /\ IsNode(Promoted(n, c))
           /\ Promoted(n, c).path = n.path /\ Promoted(n, c).seq = n.seq
           /\ Promoted(n, c).parent = n.parent /\ Promoted(n, c).full = <<c>>
           /\ Promoted(n, c).delta = NoBlob /\ Promoted(n, c).trigger = n.trigger
           /\ Promoted(n, c).depth = 0
<1> DEFINE r == Promoted(n, c)
<1>1. /\ r.path = n.path /\ r.seq = n.seq /\ r.parent = n.parent /\ r.full = <<c>>
      /\ r.delta = NoBlob /\ r.trigger = n.trigger /\ r.depth = 0
      /\ r = [path |-> r.path, seq |-> r.seq, parent |-> r.parent, full |-> r.full,
              delta |-> r.delta, depth |-> r.depth, trigger |-> r.trigger]
  BY DEF Promoted
<1> HIDE DEF r
<1>2. IsNode(r)   BY <1>1, Zenon DEF IsNode
<1> QED BY <1>1, <1>2 DEF r

\* plan.promote and plan.unref change.
LEMMA PlanFields ==
    ASSUME NEW pr, NEW ev, NEW un, NEW pl,
           pl = [promote |-> pr, evict |-> ev, unref |-> un, again |-> pl.again]
    PROVE  /\ pl.promote = pr /\ pl.evict = ev /\ pl.unref = un
           /\ pl = [promote |-> pl.promote, evict |-> pl.evict, unref |-> pl.unref,
                    again |-> pl.again]
OBVIOUS

\* The promoted node takes the place of the delta, in the tree and in the table.
LEMMA SPromote ==
    ASSUME SInv, NEW v \in plan.promote, GcPromote(v)
    PROVE  SInv'
<1> USE DEF SInv
<1> DEFINE n == Promoted(tree[v], Read(tree, v))
<1>0. /\ at = "evict" /\ plan.unref = <<>> /\ v \in DOMAIN tree
      /\ UNCHANGED <<wal, op, seqNo, heads, nextId, tasks>>
      /\ at' \in {"evict", "idle"}
  BY DEF GcPromote, TodoInv
<1>1. CASE Read(tree, v) = Unreadable
  <2>1. plan' = NoPlan /\ at' = "idle" /\ UNCHANGED <<tree, rows>>   BY <1>1 DEF GcPromote
  <2>2. TodoInv'   BY <1>0, <2>1, TodoNoPlan DEF TodoInv, Opening
  <2> QED BY <1>0, <2>1, <2>2, SMove DEF Busy
<1>2. CASE Read(tree, v) # Unreadable
  <2>1. IsNode(n) /\ n.seq = tree[v].seq /\ n.parent = tree[v].parent
    BY <1>0, PromotedIsNode DEF NodesInv, AreNodes
  <2>2. tree' = With(tree, v, n)   BY <1>2 DEF GcPromote
  <2>3. AreNodes(tree) /\ AreNodes(rows)   BY DEF NodesInv
  <2>4. v \in Nat /\ \A u \in DOMAIN tree : tree[u].seq = n.seq => u = v
    BY <1>0, <2>1, <2>3 DEF AreNodes
  <2> HIDE DEF n
  <2>5. AreNodes(tree')   BY <2>1, <2>2, <2>3, <2>4, WithNodes
  <2>6. /\ DOMAIN tree' = DOMAIN tree /\ tree'[v] = n
        /\ \A u \in DOMAIN tree \ {v} : tree'[u] = tree[u]
    BY <1>0, <2>2 DEF With
  <2>7. \A u \in DOMAIN tree : tree'[u].seq = tree[u].seq   BY <2>1, <2>6
  <2>8. CASE RowFits(n)
    <3>1. rows' = With(rows, v, n) /\ at' = "evict"
          /\ plan' = [plan EXCEPT !.promote = @ \ {v}, !.unref = <<tree[v].delta>>]
      BY <1>0, <1>2, <2>8 DEF GcPromote, n
    <3>2. \A u \in DOMAIN rows : rows[u].seq = n.seq => u = v
      BY <1>0, <2>4 DEF NodesInv
    <3>3. AreNodes(rows')   BY <2>1, <2>3, <2>4, <3>1, <3>2, WithNodes
    <3>4. /\ DOMAIN rows' = DOMAIN rows \cup {v} /\ rows'[v] = n
          /\ \A u \in DOMAIN rows \ {v} : rows'[u] = rows[u]
      BY <3>1 DEF With
    <3>5. NodesInv'
      <4>1. \A u \in DOMAIN rows' : u \in DOMAIN tree' /\ tree'[u] = rows'[u]
        BY <1>0, <2>6, <3>4 DEF NodesInv
      <4>2. \A u \in DOMAIN rows' : rows'[u].parent = Root \/ rows'[u].parent \in DOMAIN rows'
        BY <2>8, <3>4 DEF NodesInv, RowFits
      <4> QED BY <1>0, <2>5, <2>6, <3>1, <3>3, <4>1, <4>2 DEF NodesInv
    <3>6. NumbersInv'
      <4>1. \A u \in DOMAIN rows' : u \in DOMAIN tree   BY <1>0, <3>4 DEF NodesInv
      <4>2. \A u \in DOMAIN tree : u \in Nat /\ u < nextId
        BY <1>0, <2>3 DEF NumbersInv, AreNodes
      <4>3. nextId \in Nat /\ \A u \in DOMAIN rows' : u <= nextId
        BY <4>1, <4>2 DEF NumbersInv
      <4> QED BY <1>0, <2>6, <2>7, <3>1, <4>3 DEF NumbersInv
    <3>7. OpInv'   BY <3>1 DEF OpInv, Busy
    <3>8. TodoInv'
      <4>1. plan' = [promote |-> plan.promote \ {v}, evict |-> plan.evict,
                     unref |-> <<tree[v].delta>>, again |-> plan.again]
        BY <3>1 DEF TodoInv
      <4> QED BY <1>0, <2>6, <3>1, <4>1 DEF TodoInv, Opening
    <3> QED BY <3>5, <3>6, <3>7, <3>8
  <2>9. CASE ~RowFits(n)
    <3>1. rows' = rows /\ at' = "idle" /\ plan' = NoPlan
      BY <1>0, <1>2, <2>9 DEF GcPromote, n
    <3>2. v \notin DOMAIN rows
      BY <1>0, <2>1, <2>9 DEF NodesInv, RowFits
    <3>3. NodesInv'   BY <1>0, <2>5, <2>6, <3>1, <3>2 DEF NodesInv
    <3>4. NumbersInv'   BY <1>0, <2>6, <2>7, <3>1 DEF NumbersInv
    <3>5. OpInv'   BY <3>1 DEF OpInv, Busy
    <3>6. TodoInv'   BY <1>0, <3>1, TodoNoPlan DEF TodoInv, Opening
    <3> QED BY <3>3, <3>4, <3>5, <3>6
  <2> QED BY <2>8, <2>9
<1> QED BY <1>1, <1>2

LEMMA SDelete ==
    ASSUME SInv, NEW v \in plan.evict, GcDelete(v)
    PROVE  SInv'
<1> USE DEF SInv
<1>0. /\ at = "evict" /\ at' = at /\ plan.unref = <<>> /\ v \in DOMAIN tree
      /\ UNCHANGED <<wal, op, seqNo, nextId, tasks>>
      /\ plan.promote = {}
      /\ tree' = Removed(tree, v) /\ rows' = Removed(rows, v)
      /\ plan' = [plan EXCEPT !.evict = @ \ {v}, !.unref = BlobsOf(tree[v])]
  BY DEF GcDelete, TodoInv
<1>1. AreNodes(tree) /\ AreNodes(rows)   BY DEF NodesInv
<1>2. AreNodes(tree') /\ AreNodes(rows')   BY <1>0, <1>1, RemovedNodes
<1> DEFINE T == Removed(tree, v)
           W == Removed(rows, v)
<1>a. ASSUME NEW u, u \in DOMAIN tree, u # v PROVE T[u].seq = tree[u].seq
  BY <1>1, <1>a, RemovedNode
<1>b. ASSUME NEW u, u \in DOMAIN rows, u # v
      PROVE  W[u].parent = IF rows[u].parent = v THEN Root ELSE rows[u].parent
  BY <1>1, <1>b, RemovedNode
<1>c. DOMAIN T = DOMAIN tree \ {v} /\ DOMAIN W = DOMAIN rows \ {v}   BY <1>1, RemovedNodes
<1> HIDE DEF T, W
<1>3. /\ DOMAIN tree' = DOMAIN tree \ {v}
      /\ \A u \in DOMAIN tree : u # v => tree'[u].seq = tree[u].seq
  BY <1>0, <1>a, <1>c DEF T
<1>4. /\ DOMAIN rows' = DOMAIN rows \ {v}
      /\ \A u \in DOMAIN rows : u # v =>
           rows'[u].parent = IF rows[u].parent = v THEN Root ELSE rows[u].parent
  BY <1>0, <1>b, <1>c DEF W
<1>5. NodesInv'
  <2>1. \A u \in DOMAIN rows' : u \in DOMAIN tree' /\ tree'[u] = rows'[u]
    BY <1>0 DEF NodesInv, Removed, Detached, Without
  <2>2. \A u \in DOMAIN rows' : rows'[u].parent = Root \/ rows'[u].parent \in DOMAIN rows'
    BY <1>4 DEF NodesInv
  <2>3. \A p \in DOMAIN heads' : heads'[p] \in DOMAIN tree'
    BY <1>3 DEF NodesInv, GcDelete
  <2> QED BY <1>0, <1>2, <2>1, <2>2, <2>3 DEF NodesInv
<1>6. NumbersInv'   BY <1>0, <1>3, <1>4 DEF NumbersInv
<1>7. OpInv'   BY <1>0 DEF OpInv, Busy
<1>8. TodoInv'
  <2>1. plan' = [promote |-> {}, evict |-> plan.evict \ {v},
                 unref |-> BlobsOf(tree[v]), again |-> plan.again]
    BY <1>0 DEF TodoInv
  <2>2. BlobsOf(tree[v]) = <<>> \/ \E b : BlobsOf(tree[v]) = <<b>>
    <3>1. tree[v].full = NoBlob \/ tree[v].delta = NoBlob
      BY <1>0, <1>1 DEF AreNodes, IsNode
    <3>2. \A b : <<>> \o <<b>> = <<b>> /\ <<b>> \o <<>> = <<b>> /\ <<>> \o <<>> = <<>>
      OBVIOUS
    <3> QED BY <3>1, <3>2 DEF BlobsOf
  <2> QED BY <1>0, <1>3, <2>1, <2>2 DEF TodoInv, Opening
<1> QED BY <1>5, <1>6, <1>7, <1>8

LEMMA SUnref == SInv /\ GcUnref => SInv'
<1> SUFFICES ASSUME SInv, GcUnref PROVE SInv'   OBVIOUS
<1>0. /\ at = "evict" /\ at' \in {"evict", "idle"}
      /\ UNCHANGED <<wal, rows, tree, heads, nextId, seqNo, op, tasks>>
      /\ \/ at' = "idle" /\ plan' = NoPlan
         \/ at' = "evict" /\ plan' = [plan EXCEPT !.unref = Tail(@)]
  BY DEF GcUnref, memory
<1>1. TodoInv'
  <2>1. CASE plan' = NoPlan   BY <1>0, <2>1, TodoNoPlan DEF SInv, TodoInv, Opening
  <2>2. CASE at' = "evict" /\ plan' = [plan EXCEPT !.unref = Tail(@)]
    <3>1. plan' = [promote |-> plan.promote, evict |-> plan.evict,
                   unref |-> Tail(plan.unref), again |-> plan.again]
      BY <2>2 DEF SInv, TodoInv
    <3>2. Tail(plan.unref) = <<>>
      <4>1. PICK b : plan.unref = <<b>>   BY DEF SInv, TodoInv, GcUnref
      <4> QED BY <4>1
    <3> QED BY <1>0, <2>2, <3>1, <3>2 DEF SInv, TodoInv, Opening
  <2> QED BY <1>0, <2>1, <2>2
<1> QED BY <1>0, <1>1, SMove DEF Busy

LEMMA SPass == SInv /\ (PlanPass \/ GcPassEnds) => SInv'
<1>1. ASSUME SInv, PlanPass PROVE SInv'
  <2>0. /\ at = "gc" /\ at' \in {"evict", "idle"}
        /\ UNCHANGED <<wal, rows, tree, heads, nextId, seqNo, op, tasks>>
        /\ \/ at' = "idle" /\ plan' = plan
           \/ /\ at' = "evict"
              /\ plan' = [promote |-> ToPromote, evict |-> Victims, unref |-> <<>>,
                          again |-> Freed(Victims) > 0]
    BY <1>1 DEF PlanPass, memory, durable
  <2>1. TodoInv'
    <3>1. CASE at' = "idle" /\ plan' = plan
      BY <2>0, <3>1, <1>1, TodoNoPlan DEF SInv, TodoInv, Opening
    <3>2. CASE at' = "evict" /\ plan' = [promote |-> ToPromote, evict |-> Victims,
                                         unref |-> <<>>, again |-> Freed(Victims) > 0]
      <4>1. ToPromote \subseteq DOMAIN tree /\ Victims \subseteq DOMAIN tree
        BY DEF ToPromote, Victims, Candidates
      <4> HIDE DEF ToPromote, Victims
      <4> QED BY <2>0, <3>2, <4>1, <1>1 DEF SInv, TodoInv, Opening
    <3> QED BY <2>0, <3>1, <3>2
  <2> QED BY <1>1, <2>0, <2>1, SMove DEF Busy
<1>2. ASSUME SInv, GcPassEnds PROVE SInv'
  <2>1. TodoInv'   BY <1>2, TodoNoPlan DEF SInv, TodoInv, Opening, GcPassEnds
  <2> QED BY <1>2, <2>1, SMove DEF Busy, GcPassEnds, durable, memory
<1> QED BY <1>1, <1>2

LEMMA SCheckpoint == SInv /\ Checkpoint => SInv'
<1> SUFFICES ASSUME SInv, Checkpoint PROVE SInv'   OBVIOUS
<1> USE DEF SInv
<1>0. /\ at = "idle" /\ wal' = <<>>
      /\ UNCHANGED <<rows, tree, heads, nextId, seqNo, at, op, tasks, plan>>
  BY DEF Checkpoint, Ready, memory, todo
<1>1. NodesInv'   BY <1>0 DEF NodesInv
<1>2. NumbersInv'   BY <1>0, EmptySeq DEF NumbersInv
<1>3. OpInv'   BY <1>0 DEF OpInv
<1>4. TodoInv'   BY <1>0 DEF TodoInv, Opening
<1> QED BY <1>1, <1>2, <1>3, <1>4

\* The process is killed, between two steps or within one of the collector's.
Dies ==
    \/ Crash
    \/ \E v \in plan.promote : CrashInPromote(v)
    \/ \E v \in plan.evict : CrashInDelete(v)

\* The same nodes, some of which may have lost their parent.
Loosened(nodes, left) ==
    /\ DOMAIN left = DOMAIN nodes
    /\ \A u \in DOMAIN nodes :
         /\ IsNode(left[u])
         /\ left[u].path = nodes[u].path /\ left[u].seq = nodes[u].seq
         /\ left[u].full = nodes[u].full /\ left[u].delta = nodes[u].delta
         /\ left[u].depth = nodes[u].depth /\ left[u].trigger = nodes[u].trigger
         /\ left[u].parent \in {nodes[u].parent, Root}

LEMMA DetachedNodes ==
    ASSUME NEW nodes, AreNodes(nodes), NEW v
    PROVE  /\ Loosened(nodes, Detached(nodes, v)) /\ AreNodes(Detached(nodes, v))
           /\ \A u \in DOMAIN nodes :
                nodes[u].parent # v => Detached(nodes, v)[u] = nodes[u]
<1> DEFINE D == Detached(nodes, v)
<1>1. /\ DOMAIN D = DOMAIN nodes
      /\ \A u \in DOMAIN nodes :
           D[u] = IF nodes[u].parent = v THEN [nodes[u] EXCEPT !.parent = Root] ELSE nodes[u]
  BY DEF Detached
<1> HIDE DEF D
<1>2. ASSUME NEW u \in DOMAIN nodes
      PROVE  /\ IsNode(D[u]) /\ D[u].path = nodes[u].path /\ D[u].seq = nodes[u].seq
             /\ D[u].full = nodes[u].full /\ D[u].delta = nodes[u].delta
             /\ D[u].depth = nodes[u].depth /\ D[u].trigger = nodes[u].trigger
             /\ D[u].parent \in {nodes[u].parent, Root}
             /\ nodes[u].parent # v => D[u] = nodes[u]
  <2>1. IsNode(nodes[u])   BY DEF AreNodes
  <2>2. CASE nodes[u].parent = v
    <3> DEFINE r == [nodes[u] EXCEPT !.parent = Root]
    <3>1. D[u] = r   BY <1>1, <2>2
    <3>2. /\ IsNode(r) /\ r.path = nodes[u].path /\ r.seq = nodes[u].seq
          /\ r.full = nodes[u].full /\ r.delta = nodes[u].delta
          /\ r.depth = nodes[u].depth /\ r.trigger = nodes[u].trigger /\ r.parent = Root
      BY <2>1, DetachedNode, Zenon
    <3> HIDE DEF r
    <3> QED BY <2>2, <3>1, <3>2
  <2>3. CASE nodes[u].parent # v
    <3>1. D[u] = nodes[u]   BY <1>1, <2>3
    <3> QED BY <2>1, <3>1
  <2> QED BY <2>2, <2>3
<1>3. Loosened(nodes, D)   BY <1>1, <1>2 DEF Loosened
<1>4. AreNodes(D)   BY <1>1, <1>2 DEF AreNodes
<1> QED BY <1>2, <1>3, <1>4 DEF D

LEMMA LoosenedSame == ASSUME NEW nodes, AreNodes(nodes) PROVE Loosened(nodes, nodes)
BY DEF Loosened, AreNodes

\* What is left is in the files, of which the table may have lost some parents.
LEMMA DiesWhat ==
    ASSUME SInv, Dies
    PROVE  /\ at # "down" /\ at' = "down" /\ crashes' = crashes + 1
           /\ UNCHANGED <<file, wal, truth, spoilt, faults>>
           /\ tasks' = <<>> /\ plan' = NoPlan /\ seqNo' = 1 /\ nextId' = 1
           /\ tree' = <<>> /\ heads' = <<>>
           /\ dirty' = IF at = "log" /\ op.trigger # "Decline" THEN dirty \cup {op.path}
                       ELSE dirty
           /\ evicted \subseteq evicted'
           /\ Loosened(rows, rows') /\ AreNodes(rows')
           /\ \/ rows' = rows /\ evicted' = evicted
              \/ \E v \in plan.evict :
                   /\ at = "evict" /\ plan.unref = <<>> /\ plan.promote = {}
                   /\ rows' = Detached(rows, v) /\ refs' = refs
                   /\ evicted' = evicted \cup {tree[v].seq}
           /\ \/ refs' = refs
              \/ at = "evict" /\ plan.unref = <<>> /\ \E c : refs' = Put(<<c>>)
<1>0. AreNodes(rows)   BY DEF SInv, NodesInv
<1>1. CASE Crash   BY <1>0, <1>1, LoosenedSame DEF Crash, Killed
<1>2. ASSUME NEW v \in plan.promote, CrashInPromote(v)
      PROVE  /\ Killed /\ UNCHANGED <<rows, evicted>>
             /\ at = "evict" /\ plan.unref = <<>> /\ \E c : refs' = Put(<<c>>)
  BY <1>2 DEF CrashInPromote
<1>3. CASE \E v \in plan.promote : CrashInPromote(v)
  BY <1>0, <1>2, <1>3, LoosenedSame DEF Killed
<1>4. ASSUME NEW v \in plan.evict, CrashInDelete(v)
      PROVE  /\ Killed /\ rows' = Detached(rows, v) /\ refs' = refs
             /\ evicted' = evicted \cup {tree[v].seq}
             /\ at = "evict" /\ plan.unref = <<>> /\ plan.promote = {}
             /\ Loosened(rows, rows') /\ AreNodes(rows')
  BY <1>0, <1>4, DetachedNodes DEF CrashInDelete
<1>5. CASE \E v \in plan.evict : CrashInDelete(v)
  BY <1>4, <1>5 DEF Killed
<1> QED BY <1>1, <1>3, <1>5 DEF Dies

LEMMA SDies == SInv /\ Dies => SInv'
<1> SUFFICES ASSUME SInv, Dies PROVE SInv'   OBVIOUS
<1> USE DEF SInv
<1>0. /\ at' = "down" /\ wal' = wal
      /\ tasks' = <<>> /\ plan' = NoPlan /\ seqNo' = 1 /\ nextId' = 1
      /\ tree' = <<>> /\ heads' = <<>> /\ Loosened(rows, rows') /\ AreNodes(rows')
  BY DiesWhat
<1>1. DOMAIN tree' = {} /\ DOMAIN heads' = {} /\ DOMAIN rows' = DOMAIN rows
  BY <1>0 DEF Loosened
<1>2. AreNodes(tree')   BY <1>1 DEF AreNodes
<1>3. \A v \in DOMAIN rows' : rows'[v].parent = Root \/ rows'[v].parent \in DOMAIN rows'
  BY <1>0, <1>1 DEF Loosened, NodesInv
<1>4. NodesInv'   BY <1>0, <1>1, <1>2, <1>3 DEF NodesInv
<1>5. NumbersInv'   BY <1>0, <1>1 DEF NumbersInv
<1>6. OpInv'   BY <1>0 DEF OpInv, Busy
<1>7. TodoInv'   BY <1>0, EmptySeq, TodoNoPlan DEF Opening
<1> QED BY <1>4, <1>5, <1>6, <1>7

LEMMA SOpen == SInv /\ Open => SInv'
<1> SUFFICES ASSUME SInv, Open PROVE SInv'   OBVIOUS
<1> USE DEF SInv
<1>0. /\ at = "down" /\ at' = "replay" /\ UNCHANGED <<wal, rows, heads, op, plan>>
      /\ tree' = rows /\ tasks' = wal
      /\ nextId' = MaxOf(DOMAIN rows) + 1
      /\ seqNo' = MaxOf(SeqsOf(rows) \cup SeqsOf(wal)) + 1
  BY DEF Open, durable
<1>1. NodesInv'   BY <1>0 DEF NodesInv
<1>2. NumbersInv'
  <2>1. nextId' \in Nat /\ \A v \in DOMAIN rows : v < nextId'
    <3>1. PICK n \in Nat : \A v \in DOMAIN rows : v <= n   BY DEF NumbersInv
    <3>2. DOMAIN rows \subseteq Nat   BY DEF NodesInv, AreNodes
    <3>3. MaxOf(DOMAIN rows) \in Nat /\ \A v \in DOMAIN rows : v <= MaxOf(DOMAIN rows)
      BY <3>1, <3>2, MaxOfBounds
    <3> QED BY <1>0, <3>2, <3>3
  <2>2. /\ seqNo' \in Nat \ {0}
        /\ \A v \in DOMAIN rows : rows[v].seq < seqNo'
        /\ \A e \in Elems(wal) : e.seq < seqNo'
    <3> DEFINE S == SeqsOf(rows) \cup SeqsOf(wal)
    <3>1. MaxSeq \in Nat   BY BoundsAssumption
    <3>2. SeqsOf(wal) = {e.seq : e \in Elems(wal)}   BY SeqsOfLog DEF NumbersInv
    <3>3. \A s \in S : s \in 1..MaxSeq
      <4>1. \A s \in SeqsOf(rows) : s \in 1..MaxSeq
        BY DEF SeqsOf, NodesInv, AreNodes, IsNode
      <4>2. \A s \in SeqsOf(wal) : s \in 1..MaxSeq   BY <3>2 DEF NumbersInv
      <4> QED BY <4>1, <4>2
    <3>4. S \subseteq Nat /\ \A s \in S : s <= MaxSeq   BY <3>1, <3>3
    <3>5. \A v \in DOMAIN rows : rows[v].seq \in S   BY DEF SeqsOf
    <3>6. \A e \in Elems(wal) : e.seq \in S   BY <3>2
    <3> HIDE DEF S
    <3>7. MaxOf(S) \in Nat /\ \A s \in S : s <= MaxOf(S)   BY <3>1, <3>4, MaxOfBounds
    <3>8. seqNo' = MaxOf(S) + 1   BY <1>0 DEF S
    <3>9. MaxOf(S) + 1 \in Nat \ {0} /\ \A s \in S : s < MaxOf(S) + 1   BY <3>4, <3>7
    <3> QED BY <3>5, <3>6, <3>8, <3>9
  <2> QED BY <1>0, <2>1, <2>2 DEF NumbersInv
<1>3. OpInv'   BY <1>0 DEF OpInv, Busy
<1>4. TodoInv'   BY <1>0, TodoNoPlan DEF TodoInv, Opening, NumbersInv
<1> QED BY <1>1, <1>2, <1>3, <1>4

\* The entry that replay is at is one of the log's.
LEMMA HeadInLog ==
    ASSUME SInv, at \in Opening, tasks # <<>>
    PROVE  /\ Head(tasks) \in Elems(wal) /\ Head(tasks) \in Elems(tasks)
           /\ IsSeq(Tail(tasks)) /\ Elems(Tail(tasks)) \subseteq Elems(wal)
           /\ Elems(tasks) = {Head(tasks)} \cup Elems(Tail(tasks))
BY TailSeq DEF SInv, TodoInv

ReplayDepth(e) ==
    IF e.delta = NoBlob THEN 0
    ELSE IF e.parent \in DOMAIN tree THEN tree[e.parent].depth + 1 ELSE 1

\* What one step of the replay does.
LEMMA ReplayStep ==
    ASSUME SInv, Replay
    PROVE  LET e == Head(tasks)
               n == NodeOf(e, ReplayDepth(e)) IN
           /\ at = "replay" /\ tasks # <<>> /\ ~HasNode(e)
           /\ \/ /\ RowFits(e)
                 /\ tree' = With(tree, nextId, n) /\ rows' = With(rows, nextId, n)
                 /\ nextId' = nextId + 1 /\ tasks' = Tail(tasks) /\ at' = "replay"
              \/ /\ ~RowFits(e)
                 /\ at' = "failed" /\ tasks' = <<>> /\ UNCHANGED <<tree, rows, nextId>>
           /\ spoilt' = IF e.seq \in evicted THEN spoilt \cup {"resurrected"} ELSE spoilt
           /\ UNCHANGED <<file, wal, refs, op, seqNo, heads, plan, truth, dirty, evicted,
                          crashes, faults>>
BY DEF Replay, ReplayDepth

LEMMA SReplay == SInv /\ Replay => SInv'
<1> SUFFICES ASSUME SInv, Replay PROVE SInv'   OBVIOUS
<1> USE DEF SInv
<1> DEFINE e == Head(tasks)
           n == NodeOf(e, ReplayDepth(e))
<1>0. /\ at = "replay" /\ tasks # <<>> /\ ~HasNode(e)
      /\ UNCHANGED <<wal, op, seqNo, heads, plan>>
  BY ReplayStep
<1>1. e \in Elems(wal) /\ IsSeq(Tail(tasks)) /\ Elems(Tail(tasks)) \subseteq Elems(wal)
  BY <1>0, HeadInLog DEF Opening
<1>2. /\ e.seq \in 1..MaxSeq /\ e.seq < seqNo /\ e.path \in Paths
      /\ e.full = NoBlob \/ e.delta = NoBlob
  BY <1>0, <1>1 DEF NumbersInv
<1>3. CASE at' = "failed" /\ tasks' = <<>> /\ UNCHANGED <<tree, rows, nextId>>
  <2>1. TodoInv'   BY <1>0, <1>3, EmptySeq, TodoNoPlan DEF TodoInv, Opening
  <2> QED BY <1>0, <1>3, <2>1, SMove DEF Busy
<1>4. CASE /\ RowFits(e)
           /\ tree' = With(tree, nextId, n) /\ rows' = With(rows, nextId, n)
           /\ nextId' = nextId + 1 /\ tasks' = Tail(tasks) /\ at' = "replay"
  <2>1. IsNode(n) /\ n.seq = e.seq /\ n.parent = e.parent   BY <1>2, NodeOfIsNode
  <2> HIDE DEF n
  <2>2. nextId \in Nat /\ nextId \notin DOMAIN rows /\ tree = rows
        /\ \A v \in DOMAIN rows : v \in Nat /\ v < nextId /\ rows[v].seq < seqNo
    BY <1>0 DEF NumbersInv, NodesInv, AreNodes
  <2>3. \A u \in DOMAIN rows : rows[u].seq = n.seq => u = nextId
    BY <1>0, <2>1 DEF HasNode, SeqsOf
  <2>4. AreNodes(rows)   BY DEF NodesInv
  <2>5. AreNodes(rows')   BY <1>4, <2>1, <2>2, <2>3, <2>4, WithNodes
  <2>6. /\ DOMAIN rows' = DOMAIN rows \cup {nextId} /\ rows'[nextId] = n
        /\ \A u \in DOMAIN rows : rows'[u] = rows[u]
    BY <1>4, <2>2 DEF With
  <2>7. tree' = rows'   BY <1>4, <2>2
  <2>8. NodesInv'
    <3>1. \A u \in DOMAIN rows' : rows'[u].parent = Root \/ rows'[u].parent \in DOMAIN rows'
      BY <1>4, <2>1, <2>6 DEF NodesInv, RowFits
    <3>2. DOMAIN heads' = {}   BY <1>0 DEF NodesInv
    <3> QED BY <1>4, <2>5, <2>7, <3>1, <3>2 DEF NodesInv
  <2>9. NumbersInv'
    <3>1. \A v \in DOMAIN rows' : v <= nextId /\ v < nextId + 1 /\ rows'[v].seq < seqNo
      BY <1>2, <2>1, <2>2, <2>6
    <3> QED BY <1>0, <1>4, <2>2, <2>7, <3>1 DEF NumbersInv
  <2>10. OpInv'   BY <1>4 DEF OpInv, Busy
  <2>11. TodoInv'   BY <1>0, <1>1, <1>4, TodoNoPlan DEF TodoInv
  <2> QED BY <2>8, <2>9, <2>10, <2>11
<1> QED BY <1>3, <1>4, ReplayStep

LEMMA SOpened == SInv /\ Opened => SInv'
<1> SUFFICES ASSUME SInv, Opened PROVE SInv'   OBVIOUS
<1> USE DEF SInv
<1>0. /\ at = "replay" /\ at' = "recover" /\ heads' = NewestHeads(tree) /\ tasks' = wal
      /\ UNCHANGED <<wal, rows, tree, nextId, seqNo, op, plan>>
  BY DEF Opened, durable
<1>1. \A p \in DOMAIN heads' : heads'[p] \in DOMAIN tree
  BY <1>0, NewestIsThere DEF NodesInv
<1>2. NodesInv'   BY <1>0, <1>1 DEF NodesInv
<1>3. NumbersInv'   BY <1>0 DEF NumbersInv
<1>4. OpInv'   BY <1>0 DEF OpInv, Busy
<1>5. TodoInv'   BY <1>0, TodoNoPlan DEF TodoInv, NumbersInv
<1> QED BY <1>2, <1>3, <1>4, <1>5

LEMMA SPassOver == SInv /\ PassOver => SInv'
<1> SUFFICES ASSUME SInv, PassOver PROVE SInv'   OBVIOUS
<1> USE DEF SInv
<1>0. /\ at \in {"replay", "recover"} /\ tasks # <<>> /\ tasks' = Tail(tasks)
      /\ UNCHANGED <<wal, rows, tree, heads, nextId, seqNo, at, op, plan>>
  BY DEF PassOver, durable, memory
<1>1. IsSeq(Tail(tasks)) /\ Elems(Tail(tasks)) \subseteq Elems(wal)
  BY <1>0, HeadInLog DEF Opening
<1>2. NodesInv'   BY <1>0 DEF NodesInv
<1>3. NumbersInv'   BY <1>0 DEF NumbersInv
<1>4. OpInv'   BY <1>0 DEF OpInv
<1>5. TodoInv'   BY <1>0, <1>1, TodoNoPlan DEF TodoInv
<1> QED BY <1>2, <1>3, <1>4, <1>5

LEMMA SFinish == SInv /\ (FinishRestore \/ Recovered) => SInv'
<1> SUFFICES ASSUME SInv, FinishRestore \/ Recovered PROVE SInv'   OBVIOUS
<1>0. /\ at = "recover" /\ at' \in {"finish", "idle"}
      /\ UNCHANGED <<wal, rows, tree, heads, nextId, seqNo, op, plan>>
      /\ tasks' = <<>> \/ tasks' = tasks
      /\ at' = "finish" => tasks # <<>> /\ tasks' = tasks
  BY DEF FinishRestore, Recovered, durable, memory, todo
<1>1. TodoInv'
  BY <1>0, EmptySeq, TodoNoPlan DEF SInv, TodoInv, Opening
<1> QED BY <1>0, <1>1, SMove DEF Busy

LEMMA SFinishMark == SInv /\ FinishMark => SInv'
<1> SUFFICES ASSUME SInv, FinishMark PROVE SInv'   OBVIOUS
<1> DEFINE e == Head(tasks)
<1>0. /\ at = "finish" /\ at' = "recover" /\ tasks' = Tail(tasks) /\ plan' = plan
      /\ wal' = Append(wal, Entry(e, Root, "DeclineDone"))
      /\ UNCHANGED <<rows, tree, heads, nextId, seqNo>>
  BY DEF FinishMark, memory
<1>1. /\ e \in Elems(wal) /\ IsSeq(Tail(tasks)) /\ Elems(Tail(tasks)) \subseteq Elems(wal)
  BY <1>0, HeadInLog DEF Opening, SInv, TodoInv
<1>2. /\ e.seq \in 1..MaxSeq /\ e.seq < seqNo /\ e.path \in Paths
      /\ e.full = NoBlob \/ e.delta = NoBlob
  BY <1>0, <1>1 DEF SInv, NumbersInv
<1>3. Elems(wal) \subseteq Elems(wal')   BY <1>0, AppendSeq DEF SInv, NumbersInv
<1>4. TodoInv'   BY <1>0, <1>1, <1>3, TodoNoPlan DEF SInv, TodoInv
<1> HIDE DEF e
<1> QED BY <1>0, <1>2, <1>4, SMark

LEMMA SQuiet ==
    ASSUME SInv,
           \/ UNCHANGED vars
           \/ GitCommit
           \/ \E p \in Paths, c \in Contents \cup {Absent} : EditFile(p, c)
    PROVE  SInv'
<1>1. UNCHANGED <<wal, rows, tree, heads, nextId, seqNo, at, op, tasks, plan>>
  BY DEF vars, durable, memory, todo, GitCommit, EditFile
<1> QED BY <1>1, SFrame

LEMMA SNext == SInv /\ [Next]_vars => SInv'
<1> SUFFICES ASSUME SInv, [Next]_vars PROVE SInv'   OBVIOUS
<1>1. CASE \E p \in Paths, c \in Contents \cup {Absent} : EditFile(p, c)   BY <1>1, SQuiet
<1>2. ASSUME NEW p \in Paths, RecordChange(p) \/ RecordDelete(p) PROVE SInv'
  BY <1>2, SRecord
<1>3. ASSUME NEW p \in Paths, NEW v \in DOMAIN tree, Decline(p, v) PROVE SInv'
  BY <1>3, SRecord
<1>4. CASE CommitEntry \/ RestoreFile \/ MarkDone   BY <1>4, SCommit, SRestore, SMarkDone
<1>5. CASE WriteRow \/ RowFails \/ RowRefused   BY <1>5, SRow
<1>6. CASE LogFails \/ SyncFails \/ RestoreOrMarkFails   BY <1>6, SFails
<1>7. ASSUME NEW v \in plan.promote, GcPromote(v) PROVE SInv'   BY <1>7, SPromote
<1>8. ASSUME NEW v \in plan.evict, GcDelete(v) PROVE SInv'   BY <1>8, SDelete
<1>9. CASE PlanPass \/ GcUnref \/ GcPassEnds   BY <1>9, SPass, SUnref
<1>10. CASE GitCommit \/ UNCHANGED vars   BY <1>10, SQuiet
<1>11. CASE Checkpoint \/ Dies \/ Open   BY <1>11, SCheckpoint, SDies, SOpen
<1>12. CASE Replay \/ Opened \/ PassOver   BY <1>12, SReplay, SOpened, SPassOver
<1>13. CASE FinishRestore \/ FinishMark \/ Recovered   BY <1>13, SFinish, SFinishMark
<1> QED
  BY <1>1, <1>2, <1>3, <1>4, <1>5, <1>6, <1>7, <1>8, <1>9, <1>10, <1>11, <1>12, <1>13
  DEF Next, Dies

LEMMA SInvariance == Spec => []SInv
BY SInit, SNext, PTL DEF Spec

-----------------------------------------------------------------------------
(* Opening. *)

\* Nothing has failed, and no deleted version has come back.
Clean == faults = 0 /\ "resurrected" \notin spoilt

\* Replay has nothing to do for an entry with a row; one whose version the
\* collector has deleted is what brings it back.
Kept(e) == e.trigger = "DeclineDone" \/ e.seq \in SeqsOf(rows) \/ e.seq \in evicted

\* The only entry without a row is that of the operation under way, or of the
\* one a crash has cut short, and its parent has a row.
LogInv ==
    Clean =>
        /\ at # "failed"
        /\ at # "down" => tree = rows
        /\ \A e \in Elems(wal) :
             \/ Kept(e)
             \/ at \in {"restore", "row"} /\ e.seq = op.seq /\ e.parent = op.parent
             \/ at = "down" /\ RowFits(e)
             \/ at = "replay" /\ RowFits(e) /\ e \in Elems(tasks)

\* What has gone wrong stays so.
LEMMA Monotone ==
    ASSUME [Next]_vars, faults \in Nat
    PROVE  /\ faults' \in Nat /\ faults <= faults'
           /\ evicted \subseteq evicted' /\ spoilt \subseteq spoilt'
<1> DEFINE Same == faults' = faults /\ evicted' = evicted /\ spoilt' = spoilt
<1> USE DEF ghost, vars
<1>1. CASE UNCHANGED vars   BY <1>1
<1>2. ASSUME NEW p \in Paths, NEW c, EditFile(p, c) PROVE Same   BY <1>2 DEF EditFile
<1>3. ASSUME NEW p \in Paths, RecordChange(p) \/ RecordDelete(p) PROVE Same
  BY <1>3 DEF RecordChange, RecordDelete, Start
<1>4. ASSUME NEW p \in Paths, NEW v, Decline(p, v) PROVE Same   BY <1>4 DEF Decline, Start
<1>5. CASE CommitEntry \/ RestoreFile \/ WriteRow \/ MarkDone \/ RowRefused
  BY <1>5 DEF CommitEntry, RestoreFile, WriteRow, MarkDone, RowRefused
<1>6. CASE LogFails \/ SyncFails \/ RestoreOrMarkFails \/ RowFails
  BY <1>6 DEF LogFails, SyncFails, RestoreOrMarkFails, RowFails, Fail
<1>7. ASSUME NEW v, GcPromote(v) PROVE Same   BY <1>7 DEF GcPromote
<1>8. ASSUME NEW v, GcDelete(v)
      PROVE  faults' = faults /\ spoilt' = spoilt /\ evicted \subseteq evicted'
  BY <1>8 DEF GcDelete
<1>9. CASE PlanPass \/ GcUnref \/ GcPassEnds \/ GitCommit \/ Checkpoint
  BY <1>9 DEF PlanPass, GcUnref, GcPassEnds, GitCommit, Checkpoint
<1>10. CASE Open   BY <1>10 DEF Open
<1>13. ASSUME Dies PROVE faults' = faults /\ spoilt' = spoilt /\ evicted \subseteq evicted'
  BY <1>13 DEF Dies, Crash, CrashInPromote, CrashInDelete, Killed
<1>11. CASE Replay   BY <1>11 DEF Replay
<1>12. CASE Opened \/ PassOver \/ FinishRestore \/ FinishMark \/ Recovered
  BY <1>12 DEF Opened, PassOver, FinishRestore, FinishMark, Recovered
<1> QED
  BY <1>1, <1>2, <1>3, <1>4, <1>5, <1>6, <1>7, <1>8, <1>9, <1>10, <1>11, <1>12, <1>13
  DEF Next, Dies

LEMMA CleanBefore == ASSUME [Next]_vars, faults \in Nat, Clean' PROVE Clean
BY Monotone DEF Clean

\* A step away from the entries that wait: the log gets a mark, or nothing.
LEMMA LogFrame ==
    ASSUME LogInv, Clean, Clean' => Clean,
           at \notin {"restore", "row", "down", "replay"}, at' \notin {"failed", "down"},
           UNCHANGED <<rows, tree, evicted>>,
           \A e \in Elems(wal') : e \in Elems(wal) \/ e.trigger = "DeclineDone"
    PROVE  LogInv'
<1>1. \A e \in Elems(wal) : Kept(e)   BY DEF LogInv
<1>2. \A e \in Elems(wal') : Kept(e)'   BY <1>1 DEF Kept
<1> QED BY <1>2 DEF LogInv

LEMMA LogMark ==
    ASSUME SInv, NEW e, wal' = Append(wal, Entry(e, Root, "DeclineDone"))
    PROVE  \A d \in Elems(wal') : d \in Elems(wal) \/ d.trigger = "DeclineDone"
BY AppendSeq, EntryFields DEF SInv, NumbersInv

LEMMA LCommit == SInv /\ LogInv /\ CommitEntry => LogInv'
<1> SUFFICES ASSUME SInv, LogInv, CommitEntry, Clean' PROVE LogInv'   BY DEF LogInv
<1>0. /\ at = "log" /\ at' \in {"restore", "row"}
      /\ UNCHANGED <<rows, tree, op, evicted, spoilt, faults>>
  BY DEF CommitEntry, memory, ghost
<1>1. Clean   BY <1>0 DEF Clean
<1>2. \A e \in Elems(wal) : Kept(e)   BY <1>0, <1>1 DEF LogInv
<1> DEFINE d == Entry(op, op.parent, op.trigger)
<1>3. Elems(wal') = Elems(wal) \cup {d}   BY AppendSeq DEF SInv, NumbersInv, CommitEntry
<1>4. d.seq = op.seq /\ d.parent = op.parent   BY EntryFields
<1>5. \A e \in Elems(wal) : Kept(e)'   BY <1>0, <1>2 DEF Kept
<1> QED BY <1>0, <1>1, <1>3, <1>4, <1>5 DEF LogInv

LEMMA LRestore == LogInv /\ RestoreFile => LogInv'
<1> SUFFICES ASSUME LogInv, RestoreFile, Clean' PROVE LogInv'   BY DEF LogInv
<1>0. /\ at = "restore" /\ at' = "row"
      /\ UNCHANGED <<rows, tree, wal, op, evicted, spoilt, faults>>
  BY DEF RestoreFile, memory
<1>1. Clean   BY <1>0 DEF Clean
<1>2. \A e \in Elems(wal) : Kept(e)' <=> Kept(e)   BY <1>0 DEF Kept
<1> QED BY <1>0, <1>1, <1>2 DEF LogInv

\* The operation's entry has its row.
LEMMA LWriteRow == SInv /\ LogInv /\ WriteRow => LogInv'
<1> SUFFICES ASSUME SInv, LogInv, WriteRow, Clean' PROVE LogInv'   BY DEF LogInv
<1> DEFINE n == NodeOf(op, op.depth)
<1>0. /\ at = "row" /\ at' \in {"done", "idle", "gc"}
      /\ tree' = With(tree, nextId, n) /\ rows' = With(rows, nextId, n)
      /\ UNCHANGED <<wal, evicted, spoilt, faults>>
  BY DEF WriteRow, AdvanceHead, MaybeRunGc, ghost
<1>1. Clean /\ tree = rows   BY <1>0 DEF Clean, LogInv
<1>2. nextId \notin DOMAIN rows   BY SRow
<1>3. n.seq = op.seq   BY DEF NodeOf
<1> HIDE DEF n
<1>4. SeqsOf(rows') = SeqsOf(rows) \cup {op.seq}   BY <1>0, <1>2, <1>3 DEF SeqsOf, With
<1>5. \A e \in Elems(wal) : Kept(e)'   BY <1>0, <1>1, <1>4 DEF LogInv, Kept
<1> QED BY <1>0, <1>1, <1>5 DEF LogInv

\* A row is never refused.
LEMMA LRefused == SInv /\ LogInv /\ RowRefused => LogInv'
<1> SUFFICES ASSUME SInv, LogInv, RowRefused, Clean' PROVE FALSE   BY DEF LogInv
<1>1. Clean /\ at = "row"   BY DEF Clean, RowRefused, ghost
<1>2. tree = rows   BY <1>1 DEF LogInv
<1>3. RowFits(op)   BY <1>1, <1>2 DEF SInv, OpInv, Busy, RowFits
<1> QED BY <1>3 DEF RowRefused

LEMMA LPromote ==
    ASSUME SInv, LogInv, NEW v \in plan.promote, GcPromote(v)
    PROVE  LogInv'
<1> SUFFICES ASSUME Clean' PROVE LogInv'   BY DEF LogInv
<1> DEFINE n == Promoted(tree[v], Read(tree, v))
<1>0. /\ at = "evict" /\ UNCHANGED <<wal, op, evicted, spoilt, faults>>
      /\ at' \in {"idle", "evict"} /\ v \in DOMAIN tree
  BY DEF GcPromote, ghost, SInv, TodoInv
<1>1. Clean /\ tree = rows   BY <1>0 DEF Clean, LogInv
<1>2. IsNode(n) /\ n.seq = tree[v].seq /\ n.parent = tree[v].parent
  BY <1>0, PromotedIsNode DEF SInv, NodesInv, AreNodes
<1>3. RowFits(n)   BY <1>0, <1>1, <1>2 DEF RowFits, SInv, NodesInv
<1>4. \/ UNCHANGED <<tree, rows>>
      \/ tree' = With(tree, v, n) /\ rows' = With(rows, v, n)
  BY <1>3 DEF GcPromote
<1> HIDE DEF n
<1>5. SeqsOf(rows') = SeqsOf(rows)
  <2>1. CASE UNCHANGED <<tree, rows>>   BY <2>1 DEF SeqsOf
  <2>2. CASE rows' = With(rows, v, n)
    <3>1. DOMAIN rows' = DOMAIN rows   BY <1>0, <1>1, <2>2 DEF With
    <3>2. \A u \in DOMAIN rows : rows'[u].seq = rows[u].seq
      BY <1>1, <1>2, <2>2 DEF With
    <3> QED BY <3>1, <3>2 DEF SeqsOf
  <2> QED BY <1>4, <2>1, <2>2
<1>6. \A e \in Elems(wal) : Kept(e)'   BY <1>0, <1>1, <1>5 DEF LogInv, Kept
<1>7. tree' = rows'   BY <1>1, <1>4
<1> QED BY <1>0, <1>6, <1>7 DEF LogInv

\* A version that is deleted is marked as such.
LEMMA DeletedSeqs ==
    ASSUME SInv, NEW v \in plan.evict, GcDelete(v)
    PROVE  \A s \in SeqsOf(rows) : s \in SeqsOf(rows') \/ s = tree[v].seq
<1> SUFFICES ASSUME NEW u \in DOMAIN rows, u # v
             PROVE  u \in DOMAIN rows' /\ rows'[u].seq = rows[u].seq
  <2>1. at # "down"   BY DEF GcDelete
  <2> QED BY <2>1 DEF SInv, NodesInv, SeqsOf
<1>1. rows' = Removed(rows, v) /\ AreNodes(rows)   BY DEF GcDelete, SInv, NodesInv
<1>2. u \in DOMAIN Removed(rows, v)   BY <1>1, RemovedNodes
<1>3. Removed(rows, v)[u].seq = rows[u].seq   BY <1>1, RemovedNode
<1> QED BY <1>1, <1>2, <1>3

LEMMA LDelete ==
    ASSUME SInv, LogInv, NEW v \in plan.evict, GcDelete(v)
    PROVE  LogInv'
<1> SUFFICES ASSUME Clean' PROVE LogInv'   BY DEF LogInv
<1>0. /\ at = "evict" /\ at' = at /\ UNCHANGED <<wal, spoilt, faults>>
      /\ evicted' = evicted \cup {tree[v].seq}
      /\ rows' = Removed(rows, v) /\ tree' = Removed(tree, v)
  BY DEF GcDelete
<1>1. Clean /\ tree = rows   BY <1>0 DEF Clean, LogInv
<1>2. \A e \in Elems(wal) : Kept(e)'   BY <1>0, <1>1, DeletedSeqs DEF LogInv, Kept
<1> QED BY <1>0, <1>1, <1>2 DEF LogInv

LEMMA LDies == SInv /\ LogInv /\ Dies => LogInv'
<1> SUFFICES ASSUME SInv, LogInv, Dies, Clean' PROVE LogInv'   BY DEF LogInv
<1>0. /\ at # "down" /\ at' = "down" /\ UNCHANGED <<wal, spoilt, faults>>
      /\ evicted \subseteq evicted' /\ Loosened(rows, rows')
  BY DiesWhat
<1>1. Clean /\ tree = rows   BY <1>0 DEF Clean, LogInv
<1>2. SeqsOf(rows') = SeqsOf(rows) /\ DOMAIN rows' = DOMAIN rows
  BY <1>0 DEF Loosened, SeqsOf
<1>3. \A e \in Elems(wal) : (Kept(e) => Kept(e)') /\ (RowFits(e)' <=> RowFits(e))
  BY <1>0, <1>2 DEF Kept, RowFits
<1>4. at \in {"restore", "row"} => op.parent = Root \/ op.parent \in DOMAIN rows
  BY <1>1 DEF SInv, OpInv, Busy
<1>5. \A e \in Elems(wal) : Kept(e) \/ RowFits(e)   BY <1>0, <1>1, <1>4 DEF LogInv, RowFits
<1> QED BY <1>0, <1>3, <1>5 DEF LogInv

LEMMA LOpen == SInv /\ LogInv /\ Open => LogInv'
<1> SUFFICES ASSUME SInv, LogInv, Open, Clean' PROVE LogInv'   BY DEF LogInv
<1>0. /\ at = "down" /\ at' = "replay" /\ tree' = rows /\ tasks' = wal
      /\ UNCHANGED <<wal, rows, evicted, spoilt, faults>>
  BY DEF Open, durable, ghost
<1>1. Clean   BY <1>0 DEF Clean
<1>2. \A e \in Elems(wal) : (Kept(e)' <=> Kept(e)) /\ (RowFits(e)' <=> RowFits(e))
  BY <1>0 DEF Kept, RowFits
<1> QED BY <1>0, <1>1, <1>2 DEF LogInv

LEMMA LReplay == SInv /\ LogInv /\ Replay => LogInv'
<1> SUFFICES ASSUME SInv, LogInv, Replay, Clean' PROVE LogInv'   BY DEF LogInv
<1> DEFINE e == Head(tasks)
           n == NodeOf(e, ReplayDepth(e))
<1>0. /\ at = "replay" /\ tasks # <<>> /\ ~HasNode(e)
      /\ spoilt' = IF e.seq \in evicted THEN spoilt \cup {"resurrected"} ELSE spoilt
      /\ UNCHANGED <<wal, evicted, faults>>
  BY ReplayStep
<1>1. e.seq \notin evicted /\ Clean   BY <1>0 DEF Clean
<1>2. e \in Elems(wal) /\ Elems(tasks) = {e} \cup Elems(Tail(tasks))
  BY <1>0, HeadInLog DEF Opening
<1>3. ~Kept(e)   BY <1>0, <1>1 DEF Kept, HasNode
<1>4. RowFits(e) /\ tree = rows   BY <1>0, <1>1, <1>2, <1>3 DEF LogInv
<1>5. /\ tree' = With(tree, nextId, n) /\ rows' = With(rows, nextId, n)
      /\ tasks' = Tail(tasks) /\ at' = "replay"
  BY <1>4, ReplayStep
<1>6. n.seq = e.seq   BY DEF NodeOf
<1>7. nextId \notin DOMAIN rows   BY <1>0, <1>4 DEF SInv, NumbersInv
<1> HIDE DEF e, n
<1>8. DOMAIN rows \subseteq DOMAIN rows' /\ SeqsOf(rows') = SeqsOf(rows) \cup {e.seq}
  BY <1>5, <1>6, <1>7 DEF SeqsOf, With
<1>9. \A d \in Elems(wal) : (Kept(d) => Kept(d)') /\ (RowFits(d) => RowFits(d)')
  BY <1>0, <1>8 DEF Kept, RowFits
<1>10. \A d \in Elems(wal) : d = e => Kept(d)'   BY <1>8 DEF Kept
<1>11. ASSUME NEW d \in Elems(wal), ~Kept(d)' PROVE RowFits(d)' /\ d \in Elems(tasks')
  BY <1>0, <1>1, <1>2, <1>5, <1>9, <1>10, <1>11 DEF LogInv
<1> QED BY <1>0, <1>4, <1>5, <1>11 DEF LogInv

LEMMA LPassOver == SInv /\ LogInv /\ (Opened \/ PassOver) => LogInv'
<1> SUFFICES ASSUME SInv, LogInv, Opened \/ PassOver, Clean' PROVE LogInv'   BY DEF LogInv
<1>0. /\ UNCHANGED <<wal, rows, tree, evicted, faults>> /\ spoilt \subseteq spoilt'
  BY DEF Opened, PassOver, durable, memory, ghost
<1>1. Clean   BY <1>0 DEF Clean
<1>2. \A e \in Elems(wal) : (Kept(e)' <=> Kept(e)) /\ (RowFits(e)' <=> RowFits(e))
  BY <1>0 DEF Kept, RowFits
<1>3. CASE Opened
  <2>1. at = "replay" /\ at' = "recover" /\ Elems(tasks) = {}
    BY <1>3, EmptySeq DEF Opened
  <2> QED BY <1>0, <1>1, <1>2, <2>1 DEF LogInv
<1>4. CASE PassOver
  <2>1. at' = at /\ tasks # <<>> /\ tasks' = Tail(tasks) /\ at \in Opening
    BY <1>4 DEF PassOver, Opening
  <2>2. Elems(tasks) = {Head(tasks)} \cup Elems(tasks')   BY <2>1, HeadInLog
  <2>3. at = "replay" => Kept(Head(tasks))   BY <1>4 DEF PassOver, HasNode, Kept
  <2>4. at \in {"replay", "recover"}   BY <1>4 DEF PassOver
  <2> QED BY <1>0, <1>1, <1>2, <2>1, <2>2, <2>3, <2>4 DEF LogInv
<1> QED BY <1>3, <1>4

LEMMA LNext == SInv /\ faults \in Nat /\ LogInv /\ [Next]_vars => LogInv'
<1> SUFFICES ASSUME SInv, faults \in Nat, LogInv, [Next]_vars PROVE LogInv'   OBVIOUS
<1>0. SUFFICES ASSUME Clean' PROVE LogInv'   BY DEF LogInv
<1>c. Clean   BY <1>0, CleanBefore
<1>1. CASE UNCHANGED vars
  <2>1. UNCHANGED <<at, tree, rows, wal, op, tasks, evicted, faults, spoilt>>
    BY <1>1 DEF vars, durable, memory, todo, ghost
  <2>2. \A e \in Elems(wal) : (Kept(e)' <=> Kept(e)) /\ (RowFits(e)' <=> RowFits(e))
    BY <2>1 DEF Kept, RowFits
  <2> QED BY <1>c, <2>1, <2>2 DEF LogInv
<1>2. ASSUME NEW p \in Paths, NEW c, EditFile(p, c) PROVE LogInv'
  <2>1. UNCHANGED <<at, tree, rows, wal, op, tasks, evicted, faults, spoilt>>
    BY <1>2 DEF EditFile, memory, todo
  <2>2. \A e \in Elems(wal) : (Kept(e)' <=> Kept(e)) /\ (RowFits(e)' <=> RowFits(e))
    BY <2>1 DEF Kept, RowFits
  <2> QED BY <1>c, <2>1, <2>2 DEF LogInv
<1>3. ASSUME NEW p \in Paths,
             RecordChange(p) \/ RecordDelete(p) \/ \E v \in DOMAIN tree : Decline(p, v)
      PROVE  LogInv'
  <2>1. at = "idle" /\ at' = "log" /\ UNCHANGED <<rows, tree, evicted, wal>>
    BY <1>3 DEF RecordChange, RecordDelete, Decline, Start, Ready
  <2> QED BY <1>c, <2>1, LogFrame
<1>4. CASE MarkDone
  <2>1. at = "done" /\ at' \in {"idle", "gc"} /\ UNCHANGED <<rows, tree, evicted>>
    BY <1>4 DEF MarkDone, MaybeRunGc, ghost
  <2> QED BY <1>c, <1>4, <2>1, LogFrame, LogMark DEF MarkDone
<1>5. CASE LogFails \/ SyncFails \/ RestoreOrMarkFails \/ RowFails
  <2>1. faults' = faults + 1
    BY <1>5 DEF LogFails, SyncFails, RestoreOrMarkFails, RowFails, Fail
  <2> QED BY <1>0, <2>1 DEF Clean
<1>6. CASE PlanPass \/ GcUnref \/ GcPassEnds \/ GitCommit
  <2>1. /\ at \in {"gc", "evict", "idle"} /\ at' \in {"gc", "evict", "idle"}
        /\ UNCHANGED <<rows, tree, evicted, wal>>
    BY <1>6 DEF PlanPass, GcUnref, GcPassEnds, GitCommit, Ready, durable, memory, ghost
  <2> QED BY <1>c, <2>1, LogFrame
<1>7. CASE Checkpoint
  <2>1. /\ at = "idle" /\ at' = at /\ UNCHANGED <<rows, tree, evicted>> /\ Elems(wal') = {}
    BY <1>7, EmptySeq DEF Checkpoint, Ready, memory, ghost
  <2> QED BY <1>c, <2>1, LogFrame
<1>8. CASE FinishRestore \/ Recovered
  <2>1. /\ at = "recover" /\ at' \in {"finish", "idle"}
        /\ UNCHANGED <<rows, tree, evicted, wal>>
    BY <1>8 DEF FinishRestore, Recovered, durable, memory, ghost
  <2> QED BY <1>c, <2>1, LogFrame
<1>9. CASE FinishMark
  <2>1. at = "finish" /\ at' = "recover" /\ UNCHANGED <<rows, tree, evicted>>
    BY <1>9 DEF FinishMark, memory, ghost
  <2> QED BY <1>c, <1>9, <2>1, LogFrame, LogMark DEF FinishMark
<1>10. CASE CommitEntry \/ RestoreFile \/ WriteRow \/ RowRefused
  BY <1>10, LCommit, LRestore, LWriteRow, LRefused
<1>11. ASSUME NEW v \in plan.promote, GcPromote(v) PROVE LogInv'   BY <1>11, LPromote
<1>12. ASSUME NEW v \in plan.evict, GcDelete(v) PROVE LogInv'   BY <1>12, LDelete
<1>13. CASE Dies \/ Open \/ Replay \/ Opened \/ PassOver
  BY <1>13, LDies, LOpen, LReplay, LPassOver
<1> QED
  BY <1>1, <1>2, <1>3, <1>4, <1>5, <1>6, <1>7, <1>8, <1>9, <1>10, <1>11, <1>12, <1>13
  DEF Next, Dies

LEMMA LogInvariance == Spec => []LogInv
<1>1. Init => SInv /\ faults \in Nat /\ LogInv
  <2>1. Init => LogInv   BY EmptySeq DEF Init, LogInv
  <2> QED BY <2>1, SInit DEF Init
<1>2. SInv /\ faults \in Nat /\ LogInv /\ [Next]_vars
        => (SInv /\ faults \in Nat /\ LogInv)'
  BY SNext, LNext, Monotone
<1> QED BY <1>1, <1>2, PTL DEF Spec

\* open succeeds after a crash between any two steps and any number of times
\* (ShadowSnapshotEngine::open), as long as no step has failed and no deleted
\* version comes back: the entry that lacks its row is that of the operation
\* the crash has cut short, and the row of its parent is there.
THEOREM OpensAgain == Spec => []OpenSucceeds
<1>1. faults \in Nat /\ LogInv => OpenSucceeds   BY DEF LogInv, OpenSucceeds, Clean
<1>2. Init => faults \in Nat   BY DEF Init
<1>3. faults \in Nat /\ [Next]_vars => (faults \in Nat)'   BY Monotone
<1> QED BY <1>1, <1>2, <1>3, LogInvariance, PTL DEF Spec

-----------------------------------------------------------------------------
(* References. *)

Names(n, b) == n.full = b \/ n.delta = b

\* Sequence number s is that of a version that has blob b, in the table or in
\* the tree, that replay will find in the log, or that is being recorded.
Holds(s, b) ==
    \/ \E v \in DOMAIN rows : rows[v].seq = s /\ Names(rows[v], b)
    \/ \E v \in DOMAIN tree : tree[v].seq = s /\ Names(tree[v], b)
    \/ \E e \in Elems(wal) : ~Kept(e) /\ e.seq = s /\ Names(e, b)
    \/ at \in Busy /\ op.seq = s /\ Names(op, b)

Holders(b) == {s \in 1..MaxSeq : Holds(s, b)}

Count(b) == IF b \in DOMAIN refs THEN refs[b] ELSE 0

\* The reference the collector is about to give up.
Owed(b) == IF plan.unref # <<>> /\ Head(plan.unref) = b THEN 1 ELSE 0

CountInv ==
    "resurrected" \notin spoilt =>
        \A b : b # NoBlob => Cardinality(Holders(b)) + Owed(b) <= Count(b)

RefsInv == (\A b \in DOMAIN refs : refs[b] \in Nat \ {0}) /\ CountInv

LEMMA HoldersFinite ==
    ASSUME NEW b
    PROVE  IsFiniteSet(Holders(b)) /\ Cardinality(Holders(b)) \in Nat
<1>1. MaxSeq \in Nat   BY BoundsAssumption
<1>2. IsFiniteSet(1..MaxSeq)   BY <1>1, FS_Interval
<1>3. Holders(b) \in SUBSET (1..MaxSeq)   BY DEF Holders
<1>4. IsFiniteSet(Holders(b))   BY <1>2, <1>3, FS_Subset
<1> QED BY <1>4, FS_CardinalityType

LEMMA HoldersFinite2 ==
    ASSUME NEW b
    PROVE  IsFiniteSet(Holders(b)') /\ Cardinality(Holders(b)') \in Nat
<1>1. MaxSeq \in Nat   BY BoundsAssumption
<1>2. IsFiniteSet(1..MaxSeq)   BY <1>1, FS_Interval
<1>3. Holders(b)' \in SUBSET (1..MaxSeq)   BY DEF Holders
<1>4. IsFiniteSet(Holders(b)')   BY <1>2, <1>3, FS_Subset
<1> QED BY <1>4, FS_CardinalityType

LEMMA SetShrinks ==
    ASSUME NEW S, NEW T, IsFiniteSet(S), T \subseteq S
    PROVE  Cardinality(T) <= Cardinality(S)
BY FS_Subset

LEMMA SetGrows ==
    ASSUME NEW S, NEW T, NEW x, IsFiniteSet(S), T \subseteq S \cup {x}
    PROVE  Cardinality(T) <= Cardinality(S) + 1
<1>0. Cardinality(S) \in Nat   BY FS_CardinalityType
<1>1. IsFiniteSet(S \cup {x}) /\ Cardinality(S \cup {x}) <= Cardinality(S) + 1
  BY <1>0, FS_AddElement
<1>2. Cardinality(T) <= Cardinality(S \cup {x}) /\ IsFiniteSet(T)   BY <1>1, FS_Subset
<1>3. Cardinality(T) \in Nat /\ Cardinality(S \cup {x}) \in Nat
  BY <1>1, <1>2, FS_CardinalityType
<1> QED BY <1>0, <1>1, <1>2, <1>3

LEMMA SetLoses ==
    ASSUME NEW S, NEW T, NEW x, IsFiniteSet(S), x \in S, T \subseteq S \ {x}
    PROVE  Cardinality(T) + 1 <= Cardinality(S)
<1>1. IsFiniteSet(S \ {x}) /\ Cardinality(S) \in Nat
      /\ Cardinality(S \ {x}) = Cardinality(S) - 1
  BY FS_RemoveElement, FS_CardinalityType
<1>2. Cardinality(T) <= Cardinality(S \ {x}) /\ IsFiniteSet(T)   BY <1>1, FS_Subset
<1>3. Cardinality(T) \in Nat /\ Cardinality(S \ {x}) \in Nat
  BY <1>1, <1>2, FS_CardinalityType
<1> QED BY <1>1, <1>2, <1>3

LEMMA CountType ==
    ASSUME \A b \in DOMAIN refs : refs[b] \in Nat \ {0}
    PROVE  \A b : Count(b) \in Nat /\ Owed(b) \in Nat
BY DEF Count, Owed

LEMMA PutCounts ==
    ASSUME NEW b, \A x \in DOMAIN refs : refs[x] \in Nat \ {0}, refs' = Put(b)
    PROVE  /\ \A x \in DOMAIN refs' : refs'[x] \in Nat \ {0}
           /\ Count(b)' = Count(b) + 1
           /\ \A x : x # b => Count(x)' = Count(x)
<1>1. CASE b \in DOMAIN refs
  <2>1. refs' = [refs EXCEPT ![b] = @ + 1]   BY <1>1 DEF Put
  <2>2. DOMAIN refs' = DOMAIN refs /\ refs'[b] = refs[b] + 1
        /\ \A x \in DOMAIN refs : x # b => refs'[x] = refs[x]
    BY <1>1, <2>1
  <2> QED BY <1>1, <2>2 DEF Count
<1>2. CASE b \notin DOMAIN refs
  <2>1. DOMAIN refs' = DOMAIN refs \cup {b} /\ refs'[b] = 1
        /\ \A x \in DOMAIN refs : refs'[x] = refs[x]
    BY <1>2 DEF Put, With
  <2> QED BY <1>2, <2>1 DEF Count
<1> QED BY <1>1, <1>2

LEMMA UnrefCounts ==
    ASSUME NEW b, \A x \in DOMAIN refs : refs[x] \in Nat \ {0}, refs' = Unref(b)
    PROVE  /\ \A x \in DOMAIN refs' : refs'[x] \in Nat \ {0}
           /\ Count(b) <= Count(b)' + 1
           /\ \A x : x # b => Count(x)' = Count(x)
<1>1. CASE b \in DOMAIN refs /\ refs[b] > 1
  <2>1. refs' = [refs EXCEPT ![b] = @ - 1]   BY <1>1 DEF Unref
  <2>2. DOMAIN refs' = DOMAIN refs /\ refs'[b] = refs[b] - 1
        /\ \A x \in DOMAIN refs : x # b => refs'[x] = refs[x]
    BY <1>1, <2>1
  <2> QED BY <1>1, <2>2 DEF Count
<1>2. CASE ~(b \in DOMAIN refs /\ refs[b] > 1)
  <2>1. DOMAIN refs' = DOMAIN refs \ {b}
        /\ \A x \in DOMAIN refs : x # b => refs'[x] = refs[x]
    BY <1>2 DEF Unref, Without
  <2>2. b \in DOMAIN refs => refs[b] = 1   BY <1>2
  <2> QED BY <2>1, <2>2 DEF Count
<1> QED BY <1>1, <1>2

\* A step after which no blob has a new holder.
LEMMA RefsFrame ==
    ASSUME RefsInv, refs' = refs,
           "resurrected" \notin spoilt' => "resurrected" \notin spoilt,
           plan'.unref = plan.unref \/ plan'.unref = <<>>,
           \A s, b : b # NoBlob /\ "resurrected" \notin spoilt' /\ Holds(s, b)' => Holds(s, b)
    PROVE  RefsInv'
<1>1. \A b \in DOMAIN refs' : refs'[b] \in Nat \ {0}   BY DEF RefsInv
<1>2. SUFFICES ASSUME "resurrected" \notin spoilt', NEW b, b # NoBlob
               PROVE  Cardinality(Holders(b)') + Owed(b)' <= Count(b)'
  BY <1>1 DEF RefsInv, CountInv
<1>3. Holders(b)' \subseteq Holders(b)   BY <1>2 DEF Holders
<1>4. Cardinality(Holders(b)') <= Cardinality(Holders(b))
  BY <1>3, HoldersFinite, SetShrinks
<1>5. Owed(b)' <= Owed(b) /\ Owed(b) \in Nat /\ Owed(b)' \in Nat   BY DEF Owed
<1>6. Count(b)' = Count(b) /\ Count(b) \in Nat   BY CountType DEF Count, RefsInv
<1>7. Cardinality(Holders(b)) + Owed(b) <= Count(b)   BY <1>2 DEF RefsInv, CountInv
<1>8. Cardinality(Holders(b)) \in Nat /\ Cardinality(Holders(b)') \in Nat
  BY HoldersFinite, HoldersFinite2
<1> QED BY <1>4, <1>5, <1>6, <1>7, <1>8

\* A step that takes a reference for a new holder.
LEMMA RefsPut ==
    ASSUME RefsInv, NEW x, NEW t, refs' = Put(x),
           "resurrected" \notin spoilt' => "resurrected" \notin spoilt,
           plan.unref = <<>>, plan'.unref = <<>>,
           \A s, b : b # NoBlob /\ Holds(s, b)' => Holds(s, b) \/ (s = t /\ b = x)
    PROVE  RefsInv'
<1>0. /\ \A b \in DOMAIN refs' : refs'[b] \in Nat \ {0}
      /\ Count(x)' = Count(x) + 1
      /\ \A b : b # x => Count(b)' = Count(b)
  BY PutCounts DEF RefsInv
<1>2. SUFFICES ASSUME "resurrected" \notin spoilt', NEW b, b # NoBlob
               PROVE  Cardinality(Holders(b)') + Owed(b)' <= Count(b)'
  BY <1>0 DEF RefsInv, CountInv
<1>3. Owed(b)' = 0 /\ Owed(b) = 0 /\ Count(b) \in Nat   BY CountType DEF Owed, RefsInv
<1>4. Cardinality(Holders(b)) + Owed(b) <= Count(b)   BY <1>2 DEF RefsInv, CountInv
<1>5. Cardinality(Holders(b)) \in Nat /\ Cardinality(Holders(b)') \in Nat
  BY HoldersFinite, HoldersFinite2
<1>6. CASE b = x
  <2>1. Holders(b)' \subseteq Holders(b) \cup {t}   BY <1>2 DEF Holders
  <2>2. Cardinality(Holders(b)') <= Cardinality(Holders(b)) + 1
    BY <2>1, HoldersFinite, SetGrows
  <2> QED BY <1>0, <1>3, <1>4, <1>5, <1>6, <2>2
<1>7. CASE b # x
  <2>1. Holders(b)' \subseteq Holders(b)   BY <1>2, <1>7 DEF Holders
  <2>2. Cardinality(Holders(b)') <= Cardinality(Holders(b))
    BY <2>1, HoldersFinite, SetShrinks
  <2> QED BY <1>0, <1>3, <1>4, <1>5, <1>7, <2>2
<1> QED BY <1>6, <1>7

\* Where a step changes nothing but the point of the program.
LEMMA HoldsFrame ==
    ASSUME UNCHANGED <<rows, tree, wal, evicted>>,
           at' \in Busy => at \in Busy /\ op' = op
    PROVE  \A s, b : Holds(s, b)' => Holds(s, b)
<1>1. \A e : Kept(e)' <=> Kept(e)   BY DEF Kept
<1> QED BY <1>1 DEF Holds, Names

LEMMA RStart ==
    ASSUME SInv, RefsInv, Ready, NEW p \in Paths, NEW c, NEW shape, NEW trigger,
           shape.full = NoBlob \/ shape.delta = NoBlob,
           Start(p, c, shape, trigger)
    PROVE  RefsInv'
<1> DEFINE blob == IF shape.full # NoBlob THEN shape.full ELSE shape.delta
<1>0. /\ UNCHANGED <<wal, rows, tree, evicted, spoilt, plan>> /\ at = "idle"
      /\ at' = "log" /\ plan.unref = <<>>
      /\ op'.seq = seqNo /\ op'.full = shape.full /\ op'.delta = shape.delta
      /\ refs' = IF blob = NoBlob THEN refs ELSE Put(blob)
  BY NoPlanFields DEF Start, todo, Ready, SInv, TodoInv
<1>1. \A e : Kept(e)' <=> Kept(e)   BY <1>0 DEF Kept
<1>2. ASSUME NEW s, NEW b, b # NoBlob, Holds(s, b)' PROVE Holds(s, b) \/ (s = seqNo /\ b = blob)
  <2>1. CASE at' \in Busy /\ op'.seq = s /\ Names(op', b)
    BY <1>0, <1>2, <2>1 DEF Names
  <2> QED BY <1>0, <1>1, <1>2, <2>1 DEF Holds, Names
<1> HIDE DEF blob
<1>3. CASE blob = NoBlob
  <2>1. \A s, b : b # NoBlob /\ Holds(s, b)' => Holds(s, b)   BY <1>2, <1>3
  <2> QED BY <1>0, <1>3, <2>1, RefsFrame
<1>4. CASE blob # NoBlob
  <2>1. refs' = Put(blob) /\ plan'.unref = <<>>   BY <1>0, <1>4
  <2>2. \A s, b : b # NoBlob /\ Holds(s, b)' => Holds(s, b) \/ (s = seqNo /\ b = blob)
    BY <1>2
  <2> QED BY <1>0, <2>1, <2>2, RefsPut
<1> QED BY <1>3, <1>4

LEMMA RRecord ==
    ASSUME SInv, RefsInv, NEW p \in Paths,
           \/ RecordChange(p) \/ RecordDelete(p)
           \/ \E v \in DOMAIN tree : Decline(p, v)
    PROVE  RefsInv'
<1>1. CASE RecordChange(p)
  BY <1>1, SnapshotShape, RStart, Zenon DEF RecordChange
<1>2. CASE RecordDelete(p)
  <2>1. Tombstone.full = NoBlob   BY DEF Tombstone
  <2> QED BY <1>2, <2>1, RStart, Zenon DEF RecordDelete
<1>3. ASSUME NEW v \in DOMAIN tree, Decline(p, v) PROVE RefsInv'
  <2>1. Full(Read(tree, v)).delta = NoBlob   BY DEF Full
  <2> QED BY <1>3, <2>1, RStart, Zenon DEF Decline
<1> QED BY <1>1, <1>2, <1>3

LEMMA RCommit == SInv /\ RefsInv /\ CommitEntry => RefsInv'
<1> SUFFICES ASSUME SInv, RefsInv, CommitEntry PROVE RefsInv'   OBVIOUS
<1>0. /\ UNCHANGED <<rows, tree, refs, evicted, spoilt, op, plan>> /\ at = "log"
      /\ at' \in {"restore", "row"}
  BY DEF CommitEntry, memory, todo, ghost
<1> DEFINE d == Entry(op, op.parent, op.trigger)
<1>1. Elems(wal') = Elems(wal) \cup {d}   BY AppendSeq DEF SInv, NumbersInv, CommitEntry
<1>2. d.seq = op.seq /\ d.full = op.full /\ d.delta = op.delta   BY EntryFields
<1>3. \A e : Kept(e)' <=> Kept(e)   BY <1>0 DEF Kept
<1> HIDE DEF d
<1>4. \A s, b : Holds(s, b)' => Holds(s, b)
  BY <1>0, <1>1, <1>2, <1>3 DEF Holds, Names, Busy
<1> QED BY <1>0, <1>4, RefsFrame

LEMMA RRow ==
    ASSUME SInv, RefsInv, WriteRow \/ RowFails \/ RowRefused
    PROVE  RefsInv'
<1> DEFINE n == NodeOf(op, op.depth)
<1>0. /\ at = "row" /\ at' \in {"done", "idle", "gc"}
      /\ tree' = With(tree, nextId, n)
      /\ rows' = rows \/ rows' = With(rows, nextId, n)
      /\ UNCHANGED <<wal, refs, evicted, spoilt, plan>>
  BY DEF WriteRow, RowFails, RowRefused, Fail, AdvanceHead, MaybeRunGc, todo, ghost, durable
<1>1. n.seq = op.seq /\ n.full = op.full /\ n.delta = op.delta   BY DEF NodeOf
<1>2. nextId \notin DOMAIN tree /\ nextId \notin DOMAIN rows   BY SRow
<1> HIDE DEF n
<1>3. SeqsOf(rows) \subseteq SeqsOf(rows')   BY <1>0, <1>2 DEF SeqsOf, With
<1>4. \A e : Kept(e) => Kept(e)'   BY <1>0, <1>3 DEF Kept
<1>5. \A v \in DOMAIN tree' : (v \in DOMAIN tree /\ tree'[v] = tree[v]) \/ tree'[v] = n
  BY <1>0 DEF With
<1>6. \A v \in DOMAIN rows' : (v \in DOMAIN rows /\ rows'[v] = rows[v]) \/ rows'[v] = n
  BY <1>0 DEF With
<1>7. ASSUME NEW s, NEW b, Holds(s, b)' PROVE Holds(s, b)
  <2>1. ASSUME NEW v \in DOMAIN tree', tree'[v].seq = s, Names(tree'[v], b) PROVE Holds(s, b)
    BY <1>0, <1>1, <1>5, <2>1 DEF Holds, Names, Busy
  <2>2. ASSUME NEW v \in DOMAIN rows', rows'[v].seq = s, Names(rows'[v], b) PROVE Holds(s, b)
    BY <1>0, <1>1, <1>6, <2>2 DEF Holds, Names, Busy
  <2>3. ASSUME NEW e \in Elems(wal), ~Kept(e)', e.seq = s, Names(e, b) PROVE Holds(s, b)
    BY <1>4, <2>3 DEF Holds
  <2> QED BY <1>0, <1>7, <2>1, <2>2, <2>3 DEF Holds, Names, Busy
<1> QED BY <1>0, <1>7, RefsFrame

LEMMA RMark ==
    ASSUME SInv, RefsInv, NEW e, at' \in {"idle", "gc", "recover"},
           wal' = Append(wal, Entry(e, Root, "DeclineDone")),
           UNCHANGED <<rows, tree, refs, evicted, spoilt, plan>>
    PROVE  RefsInv'
<1>1. \A d \in Elems(wal') : d \in Elems(wal) \/ d.trigger = "DeclineDone"   BY LogMark
<1>2. \A d : Kept(d)' <=> Kept(d)   BY DEF Kept
<1>3. \A d \in Elems(wal') : Kept(d) \/ d \in Elems(wal)   BY <1>1 DEF Kept
<1>4. \A s, b : Holds(s, b)' => Holds(s, b)   BY <1>2, <1>3 DEF Holds, Names, Busy
<1> QED BY <1>4, RefsFrame

\* A promotion takes the new blob's reference before it owes the old one's.
LEMMA RPromote ==
    ASSUME SInv, RefsInv, NEW v \in plan.promote, GcPromote(v)
    PROVE  RefsInv'
<1> DEFINE n == Promoted(tree[v], Read(tree, v))
<1>x. PICK x : x = <<Read(tree, v)>>   OBVIOUS
<1>y. PICK y : y = tree[v].delta   OBVIOUS
<1>t. PICK t : t = tree[v].seq   OBVIOUS
<1>0. /\ at = "evict" /\ plan.unref = <<>> /\ v \in DOMAIN tree
      /\ UNCHANGED <<wal, op, evicted, spoilt>> /\ at' \in {"evict", "idle"}
  BY DEF GcPromote, SInv, TodoInv, ghost
<1>1. CASE Read(tree, v) = Unreadable
  <2>1. plan' = NoPlan /\ UNCHANGED <<refs, tree, rows>>   BY <1>1 DEF GcPromote
  <2>2. \A s, b : Holds(s, b)' => Holds(s, b)   BY <1>0, <2>1, HoldsFrame DEF Busy
  <2> QED BY <1>0, <2>1, <2>2, NoPlanFields, RefsFrame
<1>2. CASE Read(tree, v) # Unreadable
  <2>1. /\ n.seq = t /\ n.full = x /\ n.delta = NoBlob /\ n.parent = tree[v].parent
    BY <1>x, <1>t DEF Promoted
  <2>2. refs' = Put(x) /\ tree' = With(tree, v, n)   BY <1>2, <2>1 DEF GcPromote
  <2>3. /\ DOMAIN tree' = DOMAIN tree /\ tree'[v] = n
        /\ \A u \in DOMAIN tree : u # v => tree'[u] = tree[u]
    <3> HIDE DEF n
    <3> QED BY <1>0, <2>2 DEF With
  <2>4. \A u \in DOMAIN tree : u # v => tree[u].seq # t
    BY <1>0, <1>t DEF SInv, NodesInv, AreNodes
  <2>5. \/ RowFits(n) /\ rows' = With(rows, v, n) /\ plan'.unref = <<y>>
        \/ rows' = rows /\ plan' = NoPlan
    BY <1>0, <1>2, <1>y DEF GcPromote, SInv, TodoInv
  <2>6. \A u \in DOMAIN rows : u \in DOMAIN tree /\ rows[u] = tree[u]
    BY <1>0 DEF SInv, NodesInv
  <2>7. \A u \in DOMAIN rows' :
          (u \in DOMAIN rows /\ rows'[u] = rows[u]) \/ (u = v /\ rows'[u] = n)
    <3> HIDE DEF n
    <3> QED BY <2>5 DEF With
  <2>8. SeqsOf(rows) \subseteq SeqsOf(rows')
    <3>1. CASE rows' = rows   BY <3>1 DEF SeqsOf
    <3>2. CASE rows' = With(rows, v, n)
      <4>1. \A u \in DOMAIN rows : u \in DOMAIN rows' /\ rows'[u].seq = rows[u].seq
        <5> HIDE DEF n
        <5> QED BY <1>t, <2>1, <2>6, <3>2 DEF With
      <4> QED BY <4>1 DEF SeqsOf
    <3> QED BY <2>5, <3>1, <3>2
  <2>9. \A e : Kept(e) => Kept(e)'   BY <1>0, <2>8 DEF Kept
  <2> HIDE DEF n
  <2>10. ASSUME NEW s, NEW b, b # NoBlob, Holds(s, b)' PROVE Holds(s, b) \/ (s = t /\ b = x)
    <3>1. ASSUME NEW u \in DOMAIN tree', tree'[u].seq = s, Names(tree'[u], b)
          PROVE  Holds(s, b) \/ (s = t /\ b = x)
      BY <2>1, <2>3, <2>10, <3>1 DEF Holds, Names
    <3>2. ASSUME NEW u \in DOMAIN rows', rows'[u].seq = s, Names(rows'[u], b)
          PROVE  Holds(s, b) \/ (s = t /\ b = x)
      BY <2>1, <2>7, <2>10, <3>2 DEF Holds, Names
    <3>3. ASSUME NEW e \in Elems(wal), ~Kept(e)', e.seq = s, Names(e, b) PROVE Holds(s, b)
      BY <2>9, <3>3 DEF Holds
    <3> QED BY <1>0, <2>10, <3>1, <3>2, <3>3 DEF Holds, Names, Busy
  <2>11. CASE plan' = NoPlan
    <3>1. plan'.unref = <<>>   BY <2>11, NoPlanFields
    <3>2. \A s, b : b # NoBlob /\ Holds(s, b)' => Holds(s, b) \/ (s = t /\ b = x)
      BY <2>10
    <3> QED BY <1>0, <2>2, <3>1, <3>2, RefsPut
  <2>12. CASE RowFits(n) /\ rows' = With(rows, v, n) /\ plan'.unref = <<y>>
    <3>0. /\ \A b \in DOMAIN refs' : refs'[b] \in Nat \ {0}
          /\ Count(x)' = Count(x) + 1
          /\ \A b : b # x => Count(b)' = Count(b)
      BY <2>2, PutCounts DEF RefsInv
    <3>1. SUFFICES ASSUME "resurrected" \notin spoilt', NEW b, b # NoBlob
                   PROVE  Cardinality(Holders(b)') + Owed(b)' <= Count(b)'
      BY <3>0 DEF RefsInv, CountInv
    <3>2. Owed(b)' = (IF b = y THEN 1 ELSE 0) /\ Owed(b) = 0 /\ Count(b) \in Nat
      BY <1>0, <2>12, CountType DEF Owed, RefsInv
    <3>3. Cardinality(Holders(b)) + Owed(b) <= Count(b)
      BY <1>0, <3>1 DEF RefsInv, CountInv
    <3>4. Cardinality(Holders(b)) \in Nat /\ Cardinality(Holders(b)') \in Nat
      BY HoldersFinite, HoldersFinite2
    <3>5. ASSUME b = y PROVE t \in Holders(b)
      <4>1. t \in 1..MaxSeq   BY <1>0, <1>t DEF SInv, NodesInv, AreNodes, IsNode
      <4>2. Holds(t, b)   BY <1>0, <1>t, <1>y, <3>5 DEF Holds, Names
      <4> QED BY <4>1, <4>2 DEF Holders
    <3>6. CASE b = x
      <4>1. Holders(b)' \subseteq Holders(b) \cup {t}   BY <2>10, <3>1 DEF Holders
      <4>2. CASE b = y
        <5>1. Holders(b)' \subseteq Holders(b)   BY <4>1, <4>2, <3>5
        <5>2. Cardinality(Holders(b)') <= Cardinality(Holders(b))
          BY <5>1, HoldersFinite, SetShrinks
        <5> QED BY <3>0, <3>2, <3>3, <3>4, <3>6, <4>2, <5>2
      <4>3. CASE b # y
        <5>1. Cardinality(Holders(b)') <= Cardinality(Holders(b)) + 1
          BY <4>1, HoldersFinite, SetGrows
        <5> QED BY <3>0, <3>2, <3>3, <3>4, <3>6, <4>3, <5>1
      <4> QED BY <4>2, <4>3
    <3>7. CASE b # x
      <4>1. Holders(b)' \subseteq Holders(b)   BY <2>10, <3>1, <3>7 DEF Holders
      <4>2. CASE b # y
        <5>1. Cardinality(Holders(b)') <= Cardinality(Holders(b))
          BY <4>1, HoldersFinite, SetShrinks
        <5> QED BY <3>0, <3>2, <3>3, <3>4, <3>7, <4>2, <5>1
      <4>3. CASE b = y
        <5>1. ~Holds(t, b)'
          <6>1. \A u \in DOMAIN tree' : tree'[u].seq = t => ~Names(tree'[u], b)
            BY <2>1, <2>3, <2>4, <3>1, <3>7 DEF Names
          <6>2. \A u \in DOMAIN rows' : rows'[u].seq = t => ~Names(rows'[u], b)
            BY <2>1, <2>4, <2>6, <2>7, <2>12, <3>1, <3>7 DEF Names, With
          <6>3. t \in SeqsOf(rows')   BY <2>1, <2>12 DEF SeqsOf, With
          <6>4. \A e \in Elems(wal') : e.seq = t => Kept(e)'   BY <6>3 DEF Kept
          <6> QED BY <1>0, <6>1, <6>2, <6>4 DEF Holds, Busy
        <5>2. Holders(b)' \subseteq Holders(b) \ {t}   BY <4>1, <5>1 DEF Holders
        <5>3. Cardinality(Holders(b)') + 1 <= Cardinality(Holders(b))
          BY <3>5, <4>3, <5>2, HoldersFinite, SetLoses
        <5> QED BY <3>0, <3>2, <3>3, <3>4, <3>7, <4>3, <5>3
      <4> QED BY <4>2, <4>3
    <3> QED BY <3>6, <3>7
  <2> QED BY <2>5, <2>11, <2>12
<1> QED BY <1>1, <1>2

\* A node that is deleted holds its blob no more, and neither does its entry.
LEMMA RDelete ==
    ASSUME SInv, RefsInv, NEW v \in plan.evict, GcDelete(v)
    PROVE  RefsInv'
<1>t. PICK t : t = tree[v].seq   OBVIOUS
<1>0. /\ at = "evict" /\ at' = at /\ plan.unref = <<>> /\ v \in DOMAIN tree
      /\ UNCHANGED <<wal, refs, op, spoilt>> /\ evicted' = evicted \cup {t}
      /\ tree' = Removed(tree, v) /\ rows' = Removed(rows, v)
      /\ plan'.unref = BlobsOf(tree[v])
  BY <1>t DEF GcDelete, SInv, TodoInv
<1>1. AreNodes(tree) /\ AreNodes(rows)   BY DEF SInv, NodesInv
<1>2. ASSUME NEW u, u \in DOMAIN tree'
      PROVE  /\ u \in DOMAIN tree /\ u # v /\ tree'[u].seq = tree[u].seq
             /\ tree'[u].full = tree[u].full /\ tree'[u].delta = tree[u].delta
  <2>0. DOMAIN tree' = DOMAIN tree \ {v}   BY <1>0 DEF Removed, Detached, Without
  <2>1. u \in DOMAIN tree /\ u # v   BY <1>2, <2>0
  <2> QED BY <1>0, <1>1, <2>1, RemovedNode
<1>3. ASSUME NEW u, u \in DOMAIN rows'
      PROVE  /\ u \in DOMAIN rows /\ u # v /\ rows'[u].seq = rows[u].seq
             /\ rows'[u].full = rows[u].full /\ rows'[u].delta = rows[u].delta
  <2>0. DOMAIN rows' = DOMAIN rows \ {v}   BY <1>0 DEF Removed, Detached, Without
  <2>1. u \in DOMAIN rows /\ u # v   BY <1>3, <2>0
  <2> QED BY <1>0, <1>1, <2>1, RemovedNode
<1>4. \A e : Kept(e) => Kept(e)'   BY <1>0, <1>t, DeletedSeqs DEF Kept
<1>5. ASSUME NEW s, NEW b, Holds(s, b)' PROVE Holds(s, b) /\ s # t
  <2>1. ASSUME NEW u \in DOMAIN tree', tree'[u].seq = s, Names(tree'[u], b)
        PROVE  Holds(s, b) /\ s # t
    BY <1>0, <1>1, <1>2, <1>t, <2>1 DEF Holds, Names, AreNodes
  <2>2. ASSUME NEW u \in DOMAIN rows', rows'[u].seq = s, Names(rows'[u], b)
        PROVE  Holds(s, b) /\ s # t
    <3>1. u \in DOMAIN tree /\ tree[u] = rows[u] /\ u # v
      BY <1>0, <1>3, <2>2 DEF SInv, NodesInv
    <3>2. s # t   BY <1>0, <1>1, <1>3, <1>t, <2>2, <3>1 DEF AreNodes
    <3> QED BY <1>3, <2>2, <3>2 DEF Holds, Names
  <2>3. ASSUME NEW e \in Elems(wal), ~Kept(e)', e.seq = s, Names(e, b)
        PROVE  Holds(s, b) /\ s # t
    <3>1. s # t   BY <1>0, <2>3 DEF Kept
    <3> QED BY <1>4, <2>3, <3>1 DEF Holds
  <2> QED BY <1>0, <1>5, <2>1, <2>2, <2>3 DEF Holds, Names, Busy
<1>6. \A b \in DOMAIN refs' : refs'[b] \in Nat \ {0}   BY <1>0 DEF RefsInv
<1>7. SUFFICES ASSUME "resurrected" \notin spoilt', NEW b, b # NoBlob
               PROVE  Cardinality(Holders(b)') + Owed(b)' <= Count(b)'
  BY <1>6 DEF RefsInv, CountInv
<1>8. Owed(b) = 0 /\ Count(b)' = Count(b) /\ Count(b) \in Nat /\ Owed(b)' \in {0, 1}
  BY <1>0, CountType DEF Owed, Count, RefsInv
<1>9. Cardinality(Holders(b)) + Owed(b) <= Count(b)   BY <1>0, <1>7 DEF RefsInv, CountInv
<1>10. Cardinality(Holders(b)) \in Nat /\ Cardinality(Holders(b)') \in Nat
  BY HoldersFinite, HoldersFinite2
<1>11. CASE Owed(b)' = 0
  <2>1. Holders(b)' \subseteq Holders(b)   BY <1>5 DEF Holders
  <2>2. Cardinality(Holders(b)') <= Cardinality(Holders(b))
    BY <2>1, HoldersFinite, SetShrinks
  <2> QED BY <1>8, <1>9, <1>10, <1>11, <2>2
<1>12. CASE Owed(b)' = 1
  <2>1. Names(tree[v], b)
    <3>1. BlobsOf(tree[v]) # <<>> /\ Head(BlobsOf(tree[v])) = b
      BY <1>0, <1>12 DEF Owed
    <3>2. tree[v].full = NoBlob \/ tree[v].delta = NoBlob
      BY <1>0, <1>1 DEF AreNodes, IsNode
    <3>3. \A z : <<>> \o <<z>> = <<z>> /\ <<z>> \o <<>> = <<z>> /\ Head(<<z>>) = z
      OBVIOUS
    <3>4. <<>> \o <<>> = <<>>   OBVIOUS
    <3> QED BY <3>1, <3>2, <3>3, <3>4 DEF BlobsOf, Names
  <2>2. t \in Holders(b)
    BY <1>0, <1>1, <1>t, <2>1 DEF Holders, Holds, AreNodes, IsNode
  <2>3. Holders(b)' \subseteq Holders(b) \ {t}   BY <1>5 DEF Holders
  <2>4. Cardinality(Holders(b)') + 1 <= Cardinality(Holders(b))
    BY <2>2, <2>3, HoldersFinite, SetLoses
  <2> QED BY <1>8, <1>9, <1>10, <1>12, <2>4
<1> QED BY <1>8, <1>11, <1>12

LEMMA RUnref == SInv /\ RefsInv /\ GcUnref => RefsInv'
<1> SUFFICES ASSUME SInv, RefsInv, GcUnref PROVE RefsInv'   OBVIOUS
<1>0. /\ at = "evict" /\ at' \in {"evict", "idle"} /\ plan.unref # <<>>
      /\ UNCHANGED <<wal, rows, tree, op, evicted, spoilt>>
  BY DEF GcUnref, memory, ghost
<1>1. \A s, b : Holds(s, b)' => Holds(s, b)   BY <1>0, HoldsFrame DEF Busy
<1>2. CASE UnrefFails(Head(plan.unref))
  <2>1. plan' = NoPlan /\ refs' = refs   BY <1>2 DEF GcUnref
  <2> QED BY <1>0, <1>1, <2>1, NoPlanFields, RefsFrame
<1>3. CASE ~UnrefFails(Head(plan.unref))
  <2>1. PICK x : plan.unref = <<x>>   BY <1>0 DEF SInv, TodoInv
  <2>2. Head(plan.unref) = x /\ Tail(plan.unref) = <<>>   BY <2>1
  <2>3. refs' = Unref(x) /\ plan' = [plan EXCEPT !.unref = Tail(@)]   BY <1>3, <2>2 DEF GcUnref
  <2>4. plan'.unref = <<>>   BY <2>2, <2>3 DEF SInv, TodoInv
  <2>5. /\ \A b \in DOMAIN refs' : refs'[b] \in Nat \ {0}
        /\ Count(x) <= Count(x)' + 1
        /\ \A b : b # x => Count(b)' = Count(b)
    BY <2>3, UnrefCounts DEF RefsInv
  <2>6. SUFFICES ASSUME "resurrected" \notin spoilt', NEW b, b # NoBlob
                 PROVE  Cardinality(Holders(b)') + Owed(b)' <= Count(b)'
    BY <2>5 DEF RefsInv, CountInv
  <2>7. Owed(b)' = 0 /\ Owed(b) = IF b = x THEN 1 ELSE 0   BY <1>0, <2>2, <2>4 DEF Owed
  <2>8. Count(b) \in Nat /\ Count(b)' \in Nat   BY <2>5, CountType DEF RefsInv, Count
  <2>9. Cardinality(Holders(b)) + Owed(b) <= Count(b)   BY <1>0, <2>6 DEF RefsInv, CountInv
  <2>10. Cardinality(Holders(b)) \in Nat /\ Cardinality(Holders(b)') \in Nat
    BY HoldersFinite, HoldersFinite2
  <2>11. Holders(b)' \subseteq Holders(b)   BY <1>1 DEF Holders
  <2>12. Cardinality(Holders(b)') <= Cardinality(Holders(b))
    BY <2>11, HoldersFinite, SetShrinks
  <2>13. CASE b = x   BY <2>5, <2>7, <2>8, <2>9, <2>10, <2>12, <2>13
  <2>14. CASE b # x   BY <2>5, <2>7, <2>8, <2>9, <2>10, <2>12, <2>14
  <2> QED BY <2>13, <2>14
<1> QED BY <1>2, <1>3

\* A crash leaves the rows and the log; the tree was more than the rows.
LEMMA RDies == SInv /\ RefsInv /\ Dies => RefsInv'
<1> SUFFICES ASSUME SInv, RefsInv, Dies PROVE RefsInv'   OBVIOUS
<1>0. /\ at' = "down" /\ UNCHANGED <<wal, spoilt>> /\ evicted \subseteq evicted'
      /\ DOMAIN tree' = {} /\ plan'.unref = <<>> /\ Loosened(rows, rows')
      /\ refs' = refs \/ (plan.unref = <<>> /\ \E c : refs' = Put(<<c>>))
  <2>1. /\ at' = "down" /\ UNCHANGED <<wal, spoilt>> /\ evicted \subseteq evicted'
        /\ tree' = <<>> /\ plan' = NoPlan /\ Loosened(rows, rows')
    BY DiesWhat
  <2>2. refs' = refs \/ (plan.unref = <<>> /\ \E c : refs' = Put(<<c>>))   BY DiesWhat, Zenon
  <2>3. DOMAIN tree' = {} /\ plan'.unref = <<>>   BY <2>1, NoPlanFields
  <2> QED BY <2>1, <2>2, <2>3, Zenon
<1>1. /\ SeqsOf(rows') = SeqsOf(rows) /\ DOMAIN rows' = DOMAIN rows
      /\ \A v \in DOMAIN rows : /\ rows'[v].seq = rows[v].seq
                                /\ rows'[v].full = rows[v].full /\ rows'[v].delta = rows[v].delta
  BY <1>0 DEF Loosened, SeqsOf
<1>2. \A e : Kept(e) => Kept(e)'   BY <1>0, <1>1 DEF Kept
<1>3. \A s, b : Holds(s, b)' => Holds(s, b)   BY <1>0, <1>1, <1>2 DEF Holds, Names, Busy
<1>4. CASE refs' = refs   BY <1>0, <1>3, <1>4, RefsFrame
<1>5. ASSUME NEW c, refs' = Put(<<c>>), plan.unref = <<>> PROVE RefsInv'
  BY <1>0, <1>3, <1>5, RefsPut
<1> QED BY <1>0, <1>4, <1>5

LEMMA ROpen == SInv /\ RefsInv /\ Open => RefsInv'
<1> SUFFICES ASSUME SInv, RefsInv, Open PROVE RefsInv'   OBVIOUS
<1>0. /\ at' = "replay" /\ UNCHANGED <<wal, rows, refs, evicted, spoilt, plan>>
      /\ tree' = rows
  BY DEF Open, durable, ghost
<1>1. \A e : Kept(e)' <=> Kept(e)   BY <1>0 DEF Kept
<1>2. \A s, b : Holds(s, b)' => Holds(s, b)   BY <1>0, <1>1 DEF Holds, Names, Busy
<1> QED BY <1>0, <1>2, RefsFrame

\* A replayed version has held its blob in the log.
LEMMA RReplay == SInv /\ RefsInv /\ Replay => RefsInv'
<1> SUFFICES ASSUME SInv, RefsInv, Replay PROVE RefsInv'   OBVIOUS
<1>e. PICK e : e = Head(tasks)   OBVIOUS
<1>n. PICK n : n = NodeOf(e, ReplayDepth(e))   OBVIOUS
<1>0. /\ at = "replay" /\ tasks # <<>> /\ ~HasNode(e) /\ at' \in {"replay", "failed"}
      /\ spoilt' = IF e.seq \in evicted THEN spoilt \cup {"resurrected"} ELSE spoilt
      /\ UNCHANGED <<wal, refs, plan, evicted>>
      /\ \/ tree' = With(tree, nextId, n) /\ rows' = With(rows, nextId, n)
         \/ UNCHANGED <<tree, rows>>
  BY <1>e, <1>n, ReplayStep
<1>1. e \in Elems(wal)   BY <1>0, <1>e, HeadInLog DEF Opening
<1>2. n.seq = e.seq /\ n.full = e.full /\ n.delta = e.delta   BY <1>n DEF NodeOf
<1>3. nextId \notin DOMAIN rows /\ tree = rows   BY <1>0 DEF SInv, NumbersInv, NodesInv
<1>4. SeqsOf(rows) \subseteq SeqsOf(rows')   BY <1>0, <1>3 DEF SeqsOf, With
<1>5. \A d : Kept(d) => Kept(d)'   BY <1>0, <1>4 DEF Kept
<1>6. \A v \in DOMAIN tree' : (v \in DOMAIN tree /\ tree'[v] = tree[v]) \/ tree'[v] = n
  BY <1>0 DEF With
<1>7. \A v \in DOMAIN rows' : (v \in DOMAIN rows /\ rows'[v] = rows[v]) \/ rows'[v] = n
  BY <1>0 DEF With
<1>8. ASSUME NEW s, NEW b, "resurrected" \notin spoilt', Holds(s, b)' PROVE Holds(s, b)
  <2>0. ~Kept(e)   BY <1>0, <1>8 DEF Kept, HasNode
  <2>1. ASSUME NEW v \in DOMAIN tree', tree'[v].seq = s, Names(tree'[v], b) PROVE Holds(s, b)
    BY <1>1, <1>2, <1>6, <2>0, <2>1 DEF Holds, Names
  <2>2. ASSUME NEW v \in DOMAIN rows', rows'[v].seq = s, Names(rows'[v], b) PROVE Holds(s, b)
    BY <1>1, <1>2, <1>7, <2>0, <2>2 DEF Holds, Names
  <2>3. ASSUME NEW d \in Elems(wal), ~Kept(d)', d.seq = s, Names(d, b) PROVE Holds(s, b)
    BY <1>5, <2>3 DEF Holds
  <2> QED BY <1>0, <1>8, <2>1, <2>2, <2>3 DEF Holds, Names, Busy
<1>9. "resurrected" \notin spoilt' => "resurrected" \notin spoilt   BY <1>0
<1> QED BY <1>0, <1>8, <1>9, RefsFrame

LEMMA RNext == SInv /\ RefsInv /\ [Next]_vars => RefsInv'
<1> SUFFICES ASSUME SInv, RefsInv, [Next]_vars PROVE RefsInv'   OBVIOUS
<1>1. CASE UNCHANGED vars
  <2>1. UNCHANGED <<at, tree, rows, refs, wal, op, plan, evicted, spoilt>>
    BY <1>1 DEF vars, durable, memory, todo, ghost
  <2> QED BY <2>1, HoldsFrame, RefsFrame
<1>2. ASSUME NEW p \in Paths, NEW c, EditFile(p, c) PROVE RefsInv'
  <2>1. UNCHANGED <<at, tree, rows, refs, wal, op, plan, evicted, spoilt>>
    BY <1>2 DEF EditFile, memory, todo
  <2> QED BY <2>1, HoldsFrame, RefsFrame
<1>3. ASSUME NEW p \in Paths,
             RecordChange(p) \/ RecordDelete(p) \/ \E v \in DOMAIN tree : Decline(p, v)
      PROVE  RefsInv'
  BY <1>3, RRecord
<1>4. CASE MarkDone
  BY <1>4, RMark DEF MarkDone, MaybeRunGc, todo, ghost
<1>5. CASE FinishMark
  BY <1>5, RMark DEF FinishMark, memory, ghost
<1>6. CASE RestoreFile \/ LogFails \/ SyncFails \/ RestoreOrMarkFails
  <2>1. /\ UNCHANGED <<tree, rows, refs, wal, plan, evicted, spoilt>>
        /\ at' \in Busy => at \in Busy /\ op' = op
    BY <1>6 DEF RestoreFile, LogFails, SyncFails, RestoreOrMarkFails, Fail, memory, todo,
                durable, Busy
  <2> QED BY <2>1, HoldsFrame, RefsFrame
<1>7. CASE WriteRow \/ RowFails \/ RowRefused   BY <1>7, RRow
<1>8. CASE PlanPass \/ GcPassEnds
  <2>1. /\ UNCHANGED <<tree, rows, refs, wal, evicted, spoilt>> /\ at' \notin Busy
        /\ plan'.unref = plan.unref \/ plan'.unref = <<>>
    BY <1>8, NoPlanFields DEF PlanPass, GcPassEnds, durable, memory, ghost, Busy
  <2> QED BY <2>1, HoldsFrame, RefsFrame
<1>9. CASE GitCommit \/ Recovered \/ PassOver
  <2>1. /\ UNCHANGED <<tree, rows, refs, wal, plan, evicted, spoilt>> /\ at' \notin Busy
    BY <1>9 DEF GitCommit, Ready, Recovered, PassOver, durable, memory, todo, ghost, Busy
  <2> QED BY <2>1, HoldsFrame, RefsFrame
<1>10. CASE Opened \/ FinishRestore
  <2>1. /\ UNCHANGED <<tree, rows, refs, wal, plan, evicted>> /\ at' \notin Busy
        /\ spoilt \subseteq spoilt'
    BY <1>10 DEF Opened, FinishRestore, durable, memory, Busy
  <2> QED BY <2>1, HoldsFrame, RefsFrame
<1>11. CASE Checkpoint
  <2>1. /\ UNCHANGED <<tree, rows, refs, plan, evicted, spoilt>> /\ at' = "idle"
        /\ Elems(wal') = {}
    BY <1>11, EmptySeq DEF Checkpoint, Ready, memory, todo, ghost
  <2>2. \A s, b : Holds(s, b)' => Holds(s, b)   BY <2>1 DEF Holds, Names, Busy
  <2> QED BY <2>1, <2>2, RefsFrame
<1>12. ASSUME NEW v \in plan.promote, GcPromote(v) PROVE RefsInv'   BY <1>12, RPromote
<1>13. ASSUME NEW v \in plan.evict, GcDelete(v) PROVE RefsInv'   BY <1>13, RDelete
<1>14. CASE CommitEntry \/ GcUnref   BY <1>14, RCommit, RUnref
<1>15. CASE Dies \/ Open \/ Replay   BY <1>15, RDies, ROpen, RReplay
<1> QED
  BY <1>1, <1>2, <1>3, <1>4, <1>5, <1>6, <1>7, <1>8, <1>9, <1>10, <1>11, <1>12, <1>13, <1>14,
     <1>15
  DEF Next, Dies

LEMMA RInvariance == Spec => []RefsInv
<1>1. Init => RefsInv
  <2> SUFFICES ASSUME Init PROVE RefsInv   OBVIOUS
  <2>1. DOMAIN refs = {} /\ DOMAIN rows = {} /\ DOMAIN tree = {} /\ Elems(wal) = {}
        /\ plan.unref = <<>> /\ at = "idle"
    BY EmptySeq, NoPlanFields DEF Init
  <2>2. \A b : Holders(b) = {}   BY <2>1 DEF Holders, Holds, Busy
  <2>3. \A b : Owed(b) = 0 /\ Count(b) = 0   BY <2>1 DEF Owed, Count
  <2>4. Cardinality({}) = 0   BY FS_EmptySet
  <2>5. \A b \in DOMAIN refs : refs[b] \in Nat \ {0}   BY <2>1
  <2>6. ASSUME NEW b PROVE Cardinality(Holders(b)) + Owed(b) <= Count(b)
    <3>1. Holders(b) = {}   BY <2>2
    <3>2. Cardinality(Holders(b)) = 0   BY <3>1, <2>4
    <3>3. Owed(b) = 0 /\ Count(b) = 0   BY <2>3
    <3> QED BY <3>2, <3>3
  <2> QED BY <2>5, <2>6 DEF RefsInv, CountInv
<1>2. SInv /\ RefsInv /\ [Next]_vars => (SInv /\ RefsInv)'   BY SNext, RNext
<1> QED BY <1>1, <1>2, SInit, PTL DEF Spec

\* The nodes of the tree that name a blob are no more than its holders.
LEMMA NodesAreHolders ==
    ASSUME SInv, NEW b
    PROVE  /\ Cardinality({v \in DOMAIN tree : b \in {tree[v].full, tree[v].delta}})
                <= Cardinality(Holders(b))
           /\ Cardinality({v \in DOMAIN tree : b \in {tree[v].full, tree[v].delta}}) \in Nat
<1> DEFINE V == {v \in DOMAIN tree : b \in {tree[v].full, tree[v].delta}}
           f == [v \in V |-> tree[v].seq]
<1>1. \A v \in V : tree[v].seq \in Holders(b)
  BY DEF Holders, Holds, Names, SInv, NodesInv, AreNodes, IsNode
<1>2. \A u, v \in V : tree[u].seq = tree[v].seq => u = v   BY DEF SInv, NodesInv, AreNodes
<1>3. f \in Injection(V, Holders(b))   BY <1>1, <1>2 DEF Injection, IsInjective
<1> HIDE DEF V, f
<1>4. IsFiniteSet(Holders(b))   BY HoldersFinite
<1>5. IsFiniteSet(V) /\ Cardinality(V) <= Cardinality(Holders(b))
  BY <1>3, <1>4, FS_Injection
<1>6. Cardinality(V) \in Nat   BY <1>5, FS_CardinalityType
<1> QED BY <1>5, <1>6 DEF V

LEMMA RefsCover == SInv /\ RefsInv => RefsCoverNodes
<1>1. ASSUME SInv, RefsInv, "resurrected" \notin spoilt,
             NEW b \in (UNION {{tree[v].full, tree[v].delta} : v \in DOMAIN tree}) \ {NoBlob}
      PROVE  /\ b \in DOMAIN refs
             /\ refs[b] >= Cardinality({v \in DOMAIN tree :
                               b \in {tree[v].full, tree[v].delta}})
  <2> DEFINE V == {v \in DOMAIN tree : b \in {tree[v].full, tree[v].delta}}
  <2>a. b # NoBlob   OBVIOUS
  <2>b. CountInv   BY <1>1 DEF RefsInv
  <2>1. Cardinality(Holders(b)) + Owed(b) <= Count(b)   BY <1>1, <2>a, <2>b, Zenon DEF CountInv
  <2>2. Cardinality(V) <= Cardinality(Holders(b)) /\ Cardinality(V) \in Nat
    BY <1>1, NodesAreHolders
  <2>3. PICK v \in DOMAIN tree : Names(tree[v], b)   BY <1>1 DEF Names
  <2>4. tree[v].seq \in Holders(b)
    BY <1>1, <2>3 DEF Holders, Holds, SInv, NodesInv, AreNodes, IsNode
  <2>5. Cardinality(Holders(b)) \in Nat /\ Cardinality(Holders(b)) # 0
    BY <2>4, HoldersFinite, FS_EmptySet
  <2>6. Owed(b) \in Nat /\ Count(b) \in Nat   BY <1>1, CountType DEF RefsInv
  <2> HIDE DEF V
  <2>7. b \in DOMAIN refs /\ Count(b) = refs[b]   BY <2>1, <2>5, <2>6 DEF Count
  <2>8. refs[b] >= Cardinality(V)   BY <2>1, <2>2, <2>5, <2>6, <2>7
  <2> QED BY <2>7, <2>8 DEF V
<1>2. spoilt \cap {"resurrected"} = {} => "resurrected" \notin spoilt   OBVIOUS
<1> QED BY <1>1, <1>2 DEF RefsCoverNodes

\* For any number of crashes, replays and failed steps: a blob has a reference
\* for each node that names it (BlobStore::put and unref as record, promotion,
\* eviction and replay call them), unless a deleted version came back.
THEOREM BlobsAreReferenced == Spec => []RefsCoverNodes
BY RefsCover, SInvariance, RInvariance, PTL

-----------------------------------------------------------------------------
(* What a file holds. *)

\* No step failed, and no restart went wrong in one of the known ways.
Quiet == faults = 0 /\ spoilt = {}

\* The versions of a path, present or to be replayed, by sequence number.
Version(p, s) ==
    \/ \E v \in DOMAIN rows : rows[v].path = p /\ rows[v].seq = s
    \/ \E e \in Elems(wal) : ~Kept(e) /\ e.path = p /\ e.seq = s

Newest(p, s) == Version(p, s) /\ \A t \in 1..MaxSeq : Version(p, t) => t <= s

\* What was recorded under a number is known, and an undo restores just that.
TruthInv ==
    /\ \A v \in DOMAIN rows : rows[v].seq \in DOMAIN truth
    /\ \A e \in Elems(wal) : e.seq \in DOMAIN truth
    /\ \A e \in Elems(wal) : e.trigger = "Decline" => e.full = <<truth[e.seq]>>
    /\ at \in Busy \cup {"done"} =>
         /\ op.seq \in DOMAIN truth
         /\ op.trigger = "Decline" => op.full = <<truth[op.seq]>>

\* The operation under way is newer than all others, and than all deleted ones.
NewerInv ==
    /\ \A s \in evicted : s \in Nat /\ \E v \in DOMAIN rows : s < rows[v].seq
    /\ at \in Busy =>
         /\ op.trigger \in {"Write", "Delete", "Decline"}
         /\ \A v \in DOMAIN rows : rows[v].seq < op.seq
    /\ at = "log" => \A e \in Elems(wal) : e.seq < op.seq
    /\ at = "restore" => op.trigger = "Decline"
    /\ at \in {"restore", "row"} => \E e \in Elems(wal) : e.seq = op.seq
    /\ at \in {"restore", "row", "done"} =>
         \A e \in Elems(wal) :
             /\ e.seq <= op.seq
             /\ e.seq = op.seq =>
                  e.path = op.path /\ e.full = op.full /\ e.trigger = op.trigger

\* A head is the newest version of its path, and the collector spares it.
HeadsInv ==
    at \notin {"down", "replay"} =>
        /\ \A v \in DOMAIN rows : rows[v].path \in DOMAIN heads
        /\ \A p \in DOMAIN heads :
             /\ heads[p] \in DOMAIN rows /\ rows[heads[p]].path = p
             /\ heads[p] \notin plan.evict
             /\ \A v \in DOMAIN rows :
                  rows[v].path = p => rows[v].seq <= rows[heads[p]].seq
        /\ \A v \in plan.promote : tree[v].delta # NoBlob

\* Entries with the same number are of the same path and blob, and the row of an
\* undo is a full snapshot of what the undo restores.
LinkInv ==
    /\ \A d, e \in Elems(wal) : d.seq = e.seq => d.path = e.path /\ d.full = e.full
    /\ \A e \in Elems(wal) : e.trigger = "Decline" =>
         \A v \in DOMAIN rows : rows[v].seq = e.seq => rows[v].full = e.full

\* An undo that has not been completed is the newest version of its path; it is
\* under way, or waits for the recovery.
PendInv ==
    /\ \A e \in Pending : Newest(e.path, e.seq)
    /\ at \in {"idle", "gc", "evict", "log"} => Pending = {}
    /\ at \in {"restore", "row", "done"} => \A e \in Pending : e.seq = op.seq
    /\ at \in {"recover", "finish"} => \A e \in Pending : e \in Elems(tasks)
    /\ at = "recover" => \A e \in Pending : file[e.path] # Absent
    /\ at = "finish" =>
         /\ Head(tasks) \in Pending
         /\ file[Head(tasks).path] = truth[Head(tasks).seq]
         /\ \A e \in Pending : e.path # Head(tasks).path => file[e.path] # Absent

\* The undo of a path is going to restore the version.
Due(p, s) ==
    /\ at \in {"restore", "down", "replay", "recover", "finish"}
    /\ \E e \in Pending : e.path = p /\ e.seq = s

\* The operation under way has recorded the file but is not in the log yet.
Ahead(p) == at = "log" /\ op.path = p /\ op.trigger # "Decline"

\* A file nobody has touched holds what its newest version recorded, or what
\* the operation under way is about to.
FileInv ==
    /\ DOMAIN file = Paths
    /\ \A p \in Paths \ dirty : Ahead(p) => file[p] = truth[op.seq]
    /\ \A p \in Paths \ dirty : \A s \in 1..MaxSeq :
         Newest(p, s) /\ ~Ahead(p) => file[p] = truth[s] \/ Due(p, s)

QuietInv == TruthInv /\ NewerInv /\ HeadsInv /\ LinkInv /\ PendInv /\ FileInv

QInv == Quiet => QuietInv

-----------------------------------------------------------------------------
(* The collector spares the heads. *)

\* protected_set's walk with at most n more steps, f being the shorter ones.
Walk(f, n) == [v \in Nat |->
    IF v \notin DOMAIN tree THEN {}
    ELSE {v} \cup (IF tree[v].full # NoBlob \/ n = 0 THEN {}
                   ELSE f[n - 1][tree[v].parent])]

AreWalks(f, n) == f = [m \in 0..n |-> Walk(f, m)]

LEMMA WalksExist == \A n \in Nat : \E f : AreWalks(f, n)
<1> DEFINE T == {n \in Nat : \A f : ~AreWalks(f, n)}
<1> SUFFICES ASSUME T # {} PROVE FALSE   OBVIOUS
<1>1. PICK n \in T : \A m \in T : n <= m   BY LeastNumber
<1>2. n # 0
  <2> SUFFICES ASSUME n = 0 PROVE FALSE   OBVIOUS
  <2> DEFINE g == [m \in 0..0 |-> Walk(<<>>, 0)]
  <2>1. Walk(g, 0) = Walk(<<>>, 0)   BY DEF Walk
  <2>2. g = [m \in 0..0 |-> Walk(g, m)]
    <3>1. \A m \in 0..0 : g[m] = Walk(g, m)
      <4> SUFFICES ASSUME NEW m \in 0..0 PROVE g[m] = Walk(g, m)   OBVIOUS
      <4>1. m = 0   OBVIOUS
      <4>2. g[m] = Walk(<<>>, 0)   OBVIOUS
      <4> HIDE DEF g
      <4> QED BY <4>1, <4>2, <2>1
    <3> QED BY <3>1
  <2> QED BY <2>2 DEF AreWalks
<1>3. n - 1 \in Nat /\ n - 1 \notin T   BY <1>1, <1>2
<1>4. PICK f : AreWalks(f, n - 1)   BY <1>3
<1> DEFINE g == [m \in 0..n |-> IF m = n THEN Walk(f, n) ELSE f[m]]
<1>5. \A m \in 0..n : g[m] = Walk(g, m)
  <2> SUFFICES ASSUME NEW m \in 0..n PROVE g[m] = Walk(g, m)   OBVIOUS
  <2>1. \A k \in 0..(n - 1) : g[k] = f[k]   BY <1>3
  <2>2. m # 0 => g[m - 1] = f[m - 1]   BY <1>3, <2>1
  <2>3. Walk(g, m) = Walk(f, m)
    <3> HIDE DEF g
    <3> QED BY <2>2 DEF Walk
  <2>4. CASE m = n
    <3>1. g[m] = Walk(f, n)   BY <2>4
    <3> QED BY <2>3, <2>4, <3>1
  <2>5. CASE m # n
    <3>1. m \in 0..(n - 1)   BY <1>3, <2>5
    <3>2. f[m] = Walk(f, m)   BY <1>4, <3>1 DEF AreWalks
    <3> QED BY <2>1, <2>3, <3>1, <3>2
  <2> QED BY <2>4, <2>5
<1>6. AreWalks(g, n)   BY <1>5 DEF AreWalks
<1> QED BY <1>6

LEMMA HeadsProtected ==
    ASSUME NEW p \in DOMAIN heads, heads[p] \in DOMAIN tree, heads[p] \in Nat
    PROVE  heads[p] \in Protected
<1>0. D_MAX \in Nat   BY BoundsAssumption
<1> DEFINE P(f) == f = [left \in 0..D_MAX |-> [v \in Nat |->
                          IF v \notin DOMAIN tree THEN {}
                          ELSE {v} \cup (IF tree[v].full # NoBlob \/ left = 0 THEN {}
                                         ELSE f[left - 1][tree[v].parent])]]
<1>1. \E f : P(f)
  <2>1. PICK f : AreWalks(f, D_MAX)   BY <1>0, WalksExist
  <2> QED BY <2>1 DEF AreWalks, Walk
<1>2. PICK f : P(f) /\ Protected = UNION {f[D_MAX][heads[q]] : q \in DOMAIN heads}
  <2>1. P(CHOOSE f : P(f))   BY <1>1
  <2>2. Protected = UNION {(CHOOSE f : P(f))[D_MAX][heads[q]] : q \in DOMAIN heads}
    BY DEF Protected
  <2> QED BY <2>1, <2>2
<1>3. AreWalks(f, D_MAX)   BY <1>2 DEF AreWalks, Walk
<1>4. f[D_MAX] = Walk(f, D_MAX)   BY <1>0, <1>3 DEF AreWalks
<1>5. heads[p] \in f[D_MAX][heads[p]]   BY <1>4 DEF Walk
<1> QED BY <1>2, <1>5

-----------------------------------------------------------------------------
(* Versions and intents from one state to the next. *)

Marks(d, e) ==
    d.trigger = "DeclineDone" /\ d.path = e.path /\ d.seq = e.seq /\ d.full = e.full

LEMMA PendingIs ==
    \A e : e \in Pending <=> /\ e \in Elems(wal) /\ e.trigger = "Decline"
                             /\ \A d \in Elems(wal) : ~Marks(d, e)
BY DEF Pending, Elems, Marks

LEMMA PendingIsNext ==
    \A e : e \in Pending' <=> /\ e \in Elems(wal') /\ e.trigger = "Decline"
                              /\ \A d \in Elems(wal') : ~Marks(d, e)
BY DEF Pending, Elems, Marks

LEMMA PendingSame == ASSUME wal' = wal PROVE Pending' = Pending
BY DEF Pending

\* A completion mark takes its intents away.
LEMMA PendingMarked ==
    ASSUME SInv, NEW e, wal' = Append(wal, Entry(e, Root, "DeclineDone"))
    PROVE  \A d : d \in Pending' <=>
             d \in Pending /\ ~(d.path = e.path /\ d.seq = e.seq /\ d.full = e.full)
<1> DEFINE m == Entry(e, Root, "DeclineDone")
<1>1. Elems(wal') = Elems(wal) \cup {m}   BY AppendSeq DEF SInv, NumbersInv
<1>2. m.path = e.path /\ m.seq = e.seq /\ m.full = e.full /\ m.trigger = "DeclineDone"
  BY EntryFields
<1> HIDE DEF m
<1>3. ASSUME NEW d
      PROVE  d \in Pending' <=>
               d \in Pending /\ ~(d.path = e.path /\ d.seq = e.seq /\ d.full = e.full)
  <2>1. Marks(m, d) <=> (d.path = e.path /\ d.seq = e.seq /\ d.full = e.full)
    BY <1>2 DEF Marks
  <2>2. d = m => d.trigger # "Decline"   BY <1>2
  <2> QED BY <1>1, <2>1, <2>2, PendingIs, PendingIsNext
<1> QED BY <1>3

\* An entry that is no mark leaves the intents, and may be one.
LEMMA PendingGrows ==
    ASSUME SInv, NEW e, wal' = Append(wal, e), e.trigger # "DeclineDone",
           \A d \in Elems(wal) : d.seq # e.seq
    PROVE  \A d : d \in Pending' <=> d \in Pending \/ (d = e /\ e.trigger = "Decline")
<1>1. Elems(wal') = Elems(wal) \cup {e}   BY AppendSeq DEF SInv, NumbersInv
<1>2. \A d : ~Marks(e, d)   BY DEF Marks
<1>3. \A d \in Elems(wal) : ~Marks(d, e)   BY DEF Marks
<1> QED BY <1>1, <1>2, <1>3, PendingIs, PendingIsNext

LEMMA VersionType ==
    ASSUME SInv, NEW p, NEW s, Version(p, s)
    PROVE  s \in 1..MaxSeq /\ p \in Paths
BY DEF Version, SInv, NodesInv, AreNodes, IsNode, NumbersInv

LEMMA SameNewest ==
    ASSUME \A p, s : Version(p, s)' <=> Version(p, s)
    PROVE  \A p, s : Newest(p, s)' <=> Newest(p, s)
BY DEF Newest

\* Marks are no versions, and nothing else changes.
LEMMA SameVersions ==
    ASSUME UNCHANGED <<rows, evicted>>, Elems(wal) \subseteq Elems(wal'),
           \A e \in Elems(wal') : e \in Elems(wal) \/ e.trigger = "DeclineDone"
    PROVE  \A p, s : Newest(p, s)' <=> Newest(p, s)
<1>1. \A e : Kept(e)' <=> Kept(e)   BY DEF Kept
<1>2. \A e : e.trigger = "DeclineDone" => Kept(e)   BY DEF Kept
<1>3. \A p, s : Version(p, s)' <=> Version(p, s)   BY <1>1, <1>2 DEF Version
<1> QED BY <1>3, SameNewest

\* Away from the steps of an operation and from the replay, versions are rows.
LEMMA AllKept ==
    ASSUME LogInv, Clean, at \notin {"restore", "row", "down", "replay"}
    PROVE  /\ \A e \in Elems(wal) : Kept(e)
           /\ \A p, s : Version(p, s) <=>
                \E v \in DOMAIN rows : rows[v].path = p /\ rows[v].seq = s
<1>1. \A e \in Elems(wal) : Kept(e)   BY DEF LogInv
<1> QED BY <1>1 DEF Version

LEMMA QuietIsClean == Quiet => Clean
BY DEF Quiet, Clean

LEMMA QuietBefore == ASSUME [Next]_vars, faults \in Nat, Quiet' PROVE Quiet
BY Monotone DEF Quiet

\* The invariants where the step leaves alone what they are about.
LEMMA TruthFrame ==
    ASSUME TruthInv, UNCHANGED <<rows, wal, truth>>,
           at' \in Busy \cup {"done"} => at \in Busy \cup {"done"} /\ op' = op
    PROVE  TruthInv'
BY DEF TruthInv

LEMMA NewerFrame ==
    ASSUME NewerInv, UNCHANGED <<rows, evicted>>,
           at' \notin Busy \cup {"done"} \/ UNCHANGED <<wal, at, op>>
    PROVE  NewerInv'
<1>1. CASE at' \notin Busy \cup {"done"}   BY <1>1 DEF NewerInv, Busy
<1>2. CASE UNCHANGED <<wal, at, op>>   BY <1>2 DEF NewerInv
<1> QED BY <1>1, <1>2

LEMMA HeadsFrame ==
    ASSUME HeadsInv, UNCHANGED <<rows, tree, heads>>,
           at' \in {"down", "replay"} \/ at \notin {"down", "replay"},
           plan'.evict \subseteq plan.evict, plan'.promote \subseteq plan.promote
    PROVE  HeadsInv'
BY DEF HeadsInv

LEMMA LinkFrame == ASSUME LinkInv, UNCHANGED <<rows, wal>> PROVE LinkInv'
BY DEF LinkInv

LEMMA FileFrame ==
    ASSUME FileInv, UNCHANGED <<file, truth>>, dirty \subseteq dirty',
           \A p, s : Newest(p, s)' => Newest(p, s),
           at # "log", at' # "log",
           \A p, s : Due(p, s) => Due(p, s)' \/ file[p] = truth[s]
    PROVE  FileInv'
BY DEF FileInv, Ahead

\* A step that changes none of this, or only where the collector is.
LEMMA QuietFrame ==
    ASSUME QuietInv, UNCHANGED <<rows, tree, heads, wal, evicted, truth, file, op, tasks>>,
           \/ dirty' = dirty /\ at' = at
           \/ /\ at \in {"idle", "gc", "evict"} /\ at' \in {"idle", "gc", "evict"}
              /\ dirty \subseteq dirty',
           plan'.evict \subseteq plan.evict, plan'.promote \subseteq plan.promote
    PROVE  QuietInv'
<1> USE DEF QuietInv
<1>0. dirty \subseteq dirty'   OBVIOUS
<1>1. TruthInv'   BY TruthFrame DEF Busy
<1>2. NewerInv'   BY NewerFrame DEF Busy
<1>3. HeadsInv'   BY HeadsFrame
<1>4. LinkInv'   BY LinkFrame
<1>5. \A p, s : Newest(p, s)' <=> Newest(p, s)   BY SameVersions
<1>6. Pending' = Pending   BY PendingSame
<1>7. PendInv'   BY <1>5, <1>6 DEF PendInv
<1>8. FileInv'
  <2>1. CASE dirty' = dirty /\ at' = at
    BY <1>5, <1>6, <2>1 DEF FileInv, Ahead, Due
  <2>2. CASE at \in {"idle", "gc", "evict"} /\ at' \in {"idle", "gc", "evict"}
    BY <1>0, <1>5, <2>2, FileFrame DEF Due
  <2> QED BY <2>1, <2>2
<1> QED BY <1>1, <1>2, <1>3, <1>4, <1>7, <1>8

\* The operation under way has a number that nothing had before.
LEMMA NotEvicted ==
    ASSUME SInv, QuietInv, at \in Busy
    PROVE  op.seq \notin evicted
<1> SUFFICES ASSUME op.seq \in evicted PROVE FALSE   OBVIOUS
<1>1. PICK v \in DOMAIN rows : op.seq < rows[v].seq   BY DEF QuietInv, NewerInv
<1>2. rows[v].seq < op.seq   BY DEF QuietInv, NewerInv
<1>3. rows[v].seq \in Int /\ op.seq \in Int
  BY BoundsAssumption DEF SInv, NodesInv, AreNodes, IsNode, OpInv
<1> QED BY <1>1, <1>2, <1>3

\* Once logged it is the newest version of its path, and the only intent.
LEMMA OwnVersion ==
    ASSUME SInv, QuietInv, at \in {"restore", "row"}
    PROVE  /\ \A s : Newest(op.path, s) => s = op.seq
           /\ \A e \in Pending : e.path = op.path /\ e.seq = op.seq
<1> USE DEF QuietInv
<1>1. PICK e \in Elems(wal) : e.seq = op.seq   BY DEF NewerInv
<1>2. e.path = op.path /\ e.trigger # "DeclineDone"   BY <1>1 DEF NewerInv, Busy
<1>3. at \in Busy   BY DEF Busy
<1>4. \A v \in DOMAIN rows : rows[v].seq # op.seq
  BY <1>3 DEF NewerInv, SInv, NodesInv, AreNodes, IsNode, OpInv
<1>5. ~Kept(e)   BY <1>1, <1>2, <1>3, <1>4, NotEvicted DEF Kept, SeqsOf
<1>6. Version(op.path, op.seq)   BY <1>1, <1>2, <1>5 DEF Version
<1>7. op.seq \in 1..MaxSeq /\ MaxSeq \in Nat   BY <1>3, BoundsAssumption DEF SInv, OpInv
<1>8. ASSUME NEW s, Newest(op.path, s) PROVE s = op.seq
  <2>1. op.seq <= s /\ s \in 1..MaxSeq   BY <1>6, <1>7, <1>8, VersionType DEF Newest
  <2>2. s <= op.seq
    <3>1. Version(op.path, s)   BY <1>8 DEF Newest
    <3>2. \A v \in DOMAIN rows : rows[v].seq <= op.seq
      BY <1>3, <1>7 DEF NewerInv, SInv, NodesInv, AreNodes, IsNode
    <3> QED BY <3>1, <3>2 DEF Version, NewerInv
  <2> QED BY <1>7, <2>1, <2>2
<1>9. \A d \in Pending : d.path = op.path /\ d.seq = op.seq
  BY PendingIs DEF PendInv, NewerInv
<1> QED BY <1>8, <1>9

-----------------------------------------------------------------------------
(* Every step keeps what is known of the files. *)

LEMMA QEdit ==
    ASSUME QuietInv, NEW p \in Paths, NEW c, EditFile(p, c)
    PROVE  QuietInv'
<1> USE DEF QuietInv
<1>0. /\ UNCHANGED <<rows, tree, heads, wal, evicted, truth, op, tasks, plan, at>>
      /\ at \in {"idle", "down"} /\ dirty' = dirty \cup {p}
      /\ DOMAIN file' = Paths /\ \A q \in Paths : q # p => file'[q] = file[q]
  <2>1. UNCHANGED <<rows, tree, heads, wal, evicted, truth, op, tasks, plan, at>>
    BY DEF EditFile, memory, todo
  <2>2. DOMAIN file' = Paths /\ \A q \in Paths : q # p => file'[q] = file[q]
    BY DEF EditFile, FileInv
  <2> QED BY <2>1, <2>2 DEF EditFile
<1>1. TruthInv'   BY <1>0, TruthFrame
<1>2. NewerInv'   BY <1>0, NewerFrame
<1>3. HeadsInv'   BY <1>0, HeadsFrame
<1>4. LinkInv'   BY <1>0, LinkFrame
<1>5. \A q, s : Newest(q, s)' <=> Newest(q, s)   BY <1>0, SameVersions
<1>6. Pending' = Pending   BY <1>0, PendingSame
<1>7. PendInv'   BY <1>0, <1>5, <1>6 DEF PendInv
<1>8. FileInv'   BY <1>0, <1>5, <1>6 DEF FileInv, Ahead, Due
<1> QED BY <1>1, <1>2, <1>3, <1>4, <1>7, <1>8

\* The operation is ahead of all versions, and only its own path is.
LEMMA QStart ==
    ASSUME SInv, QuietInv, Ready, NEW p \in Paths, NEW c, NEW shape, NEW trigger,
           Start(p, c, shape, trigger), trigger \in {"Write", "Delete", "Decline"},
           trigger = "Decline" => shape.full = <<c>> /\ dirty' = dirty,
           trigger # "Decline" => file[p] = c /\ dirty' = dirty \ {p}
    PROVE  QuietInv'
<1> USE DEF QuietInv
<1>0. /\ UNCHANGED <<file, wal, rows, tree, heads, plan, tasks, evicted>>
      /\ at = "idle" /\ at' = "log"
      /\ op'.path = p /\ op'.seq = seqNo /\ op'.full = shape.full /\ op'.trigger = trigger
      /\ truth' = With(truth, seqNo, c)
  BY DEF Start, todo, Ready
<1>1. seqNo \in Nat /\ (\A v \in DOMAIN rows : rows[v].seq < seqNo)
      /\ (\A e \in Elems(wal) : e.seq < seqNo)
  BY <1>0 DEF SInv, NumbersInv, NodesInv
<1>2. DOMAIN truth' = DOMAIN truth \cup {seqNo} /\ truth'[seqNo] = c
      /\ \A s \in DOMAIN truth : s # seqNo => truth'[s] = truth[s]
  BY <1>0 DEF With
<1>2a. \A v \in DOMAIN rows : rows[v].seq # seqNo
  BY <1>1 DEF SInv, NodesInv, AreNodes, IsNode
<1>2b. \A e \in Elems(wal) : e.seq # seqNo   BY <1>1 DEF SInv, NumbersInv
<1>3. TruthInv'   BY <1>0, <1>2, <1>2a, <1>2b DEF TruthInv
<1>4. NewerInv'   BY <1>0, <1>1 DEF NewerInv, Busy
<1>5. HeadsInv'   BY <1>0, HeadsFrame
<1>6. LinkInv'   BY <1>0, LinkFrame
<1>7. \A q, s : Newest(q, s)' <=> Newest(q, s)   BY <1>0, SameVersions
<1>8. Pending' = Pending /\ Pending = {}   BY <1>0, PendingSame DEF PendInv
<1>9. PendInv'   BY <1>0, <1>8 DEF PendInv
<1>10. FileInv'
  <2>1. ASSUME NEW q \in Paths, q \notin dirty', Ahead(q)' PROVE file'[q] = truth'[op'.seq]
    BY <1>0, <1>2, <2>1 DEF Ahead
  <2>2. ASSUME NEW q \in Paths, q \notin dirty', NEW s \in 1..MaxSeq, Newest(q, s)', ~Ahead(q)'
        PROVE  file'[q] = truth'[s]
    <3>1. q \notin dirty   BY <1>0, <2>2 DEF Ahead
    <3>2. Newest(q, s) /\ ~Ahead(q) /\ ~Due(q, s)   BY <1>0, <1>7, <2>2 DEF Ahead, Due
    <3>3. file[q] = truth[s]   BY <3>1, <3>2 DEF FileInv
    <3>4. s \in DOMAIN truth /\ s # seqNo
      BY <3>2, <1>2a, <1>2b DEF Newest, Version, TruthInv
    <3> QED BY <1>0, <1>2, <3>3, <3>4
  <2> QED BY <1>0, <2>1, <2>2 DEF FileInv
<1> QED BY <1>3, <1>4, <1>5, <1>6, <1>9, <1>10

LEMMA QRecord ==
    ASSUME SInv, QuietInv, NEW p \in Paths,
           \/ RecordChange(p) \/ RecordDelete(p)
           \/ \E v \in DOMAIN tree : Decline(p, v)
    PROVE  QuietInv'
<1>1. CASE RecordChange(p)
  <2>1. "Write" # "Decline" /\ "Write" \in {"Write", "Delete", "Decline"}   OBVIOUS
  <2> QED BY <1>1, <2>1, QStart, Zenon DEF RecordChange
<1>2. CASE RecordDelete(p)
  <2>1. "Delete" # "Decline" /\ "Delete" \in {"Write", "Delete", "Decline"}   OBVIOUS
  <2> QED BY <1>2, <2>1, QStart, Zenon DEF RecordDelete
<1>3. ASSUME NEW v \in DOMAIN tree, Decline(p, v) PROVE QuietInv'
  <2>1. Full(Read(tree, v)).full = <<Read(tree, v)>>   BY DEF Full
  <2>2. dirty' = dirty /\ "Decline" \in {"Write", "Delete", "Decline"}   BY <1>3 DEF Decline
  <2> QED BY <1>3, <2>1, <2>2, QStart, Zenon DEF Decline
<1> QED BY <1>1, <1>2, <1>3

LEMMA QCommit ==
    ASSUME SInv, LogInv, Quiet, QuietInv, CommitEntry
    PROVE  QuietInv'
<1> USE DEF QuietInv
<1>e. PICK e : e = Entry(op, op.parent, op.trigger)   OBVIOUS
<1>0. /\ at = "log" /\ at' = IF op.trigger = "Decline" THEN "restore" ELSE "row"
      /\ wal' = Append(wal, e)
      /\ UNCHANGED <<file, rows, tree, heads, op, plan, tasks, truth, dirty, evicted>>
  BY <1>e DEF CommitEntry, memory, todo, ghost
<1>0a. at' \in {"restore", "row"}   BY <1>0
<1>1. /\ e.path = op.path /\ e.seq = op.seq /\ e.full = op.full /\ e.trigger = op.trigger
  BY <1>e, EntryFields
<1>1a. e.trigger # "DeclineDone"   BY <1>0, <1>1 DEF NewerInv, Busy
<1>2. Elems(wal') = Elems(wal) \cup {e}   BY <1>0, AppendSeq DEF SInv, NumbersInv
<1>3. /\ op.seq \in 1..MaxSeq /\ op.path \in Paths
      /\ \A v \in DOMAIN rows : rows[v].seq < op.seq
      /\ \A d \in Elems(wal) : d.seq < op.seq
  BY <1>0 DEF SInv, OpInv, NewerInv, Busy
<1>3a. /\ \A v \in DOMAIN rows : rows[v].seq # op.seq
       /\ \A d \in Elems(wal) : d.seq # op.seq /\ d.seq <= op.seq
  BY <1>3 DEF SInv, NodesInv, AreNodes, IsNode, NumbersInv
<1>4. TruthInv'   BY <1>0, <1>0a, <1>1, <1>2 DEF TruthInv, Busy
<1>5. NewerInv'   BY <1>0, <1>0a, <1>1, <1>2, <1>3, <1>3a DEF NewerInv, Busy
<1>6. HeadsInv'   BY <1>0, <1>0a, HeadsFrame
<1>7. LinkInv'   BY <1>0, <1>1, <1>2, <1>3a DEF LinkInv
<1>8. Pending = {} /\ \A d : d \in Pending' <=> d = e /\ e.trigger = "Decline"
  <2>1. Pending = {}   BY <1>0 DEF PendInv
  <2> QED BY <2>1, <1>0, <1>1, <1>1a, <1>3a, PendingGrows
<1>9. /\ \A q, s : q # op.path => (Newest(q, s)' <=> Newest(q, s))
      /\ \A s : Newest(op.path, s)' => s = op.seq
      /\ e.trigger = "Decline" => Newest(op.path, op.seq)'
  <2>0. \A d : Kept(d)' <=> Kept(d)   BY <1>0 DEF Kept
  <2>1. \A q, s : q # op.path => (Version(q, s)' <=> Version(q, s))
    BY <1>0, <1>1, <1>2, <2>0 DEF Version
  <2>2. \A q, s : q # op.path => (Newest(q, s)' <=> Newest(q, s))   BY <2>1 DEF Newest
  <2>3. ~Kept(e)
    <3>1. op.seq \notin evicted   BY <1>0, NotEvicted DEF Busy
    <3> QED BY <1>1, <1>1a, <1>3a, <3>1 DEF Kept, SeqsOf
  <2>4. Version(op.path, op.seq)'   BY <1>0, <1>1, <1>2, <2>0, <2>3 DEF Version
  <2>5. \A s : Version(op.path, s)' => s <= op.seq /\ s \in 1..MaxSeq
    BY <1>0, <1>1, <1>2, <1>3, <1>3a DEF Version, SInv, NodesInv, AreNodes, IsNode, NumbersInv
  <2>6. \A s : Newest(op.path, s)' => s = op.seq
    <3>1. ASSUME NEW s, Newest(op.path, s)' PROVE s = op.seq
      <4>1. Version(op.path, s)' /\ op.seq <= s   BY <1>0, <1>3, <2>4, <3>1 DEF Newest
      <4>2. s <= op.seq /\ s \in 1..MaxSeq   BY <2>5, <4>1
      <4> QED BY <1>3, <4>1, <4>2
    <3> QED BY <3>1
  <2>7. Newest(op.path, op.seq)'   BY <1>0, <2>4, <2>5 DEF Newest
  <2> QED BY <2>2, <2>6, <2>7
<1>10. PendInv'   BY <1>0, <1>0a, <1>1, <1>8, <1>9 DEF PendInv
<1>11. FileInv'
  <2>1. ASSUME NEW q \in Paths, q \notin dirty, NEW s \in 1..MaxSeq, Newest(q, s)'
        PROVE  file[q] = truth[s] \/ Due(q, s)'
    <3>1. CASE q # op.path
      <4>1. Newest(q, s) /\ ~Ahead(q)   BY <1>9, <2>1, <3>1 DEF Ahead
      <4>2. ~Due(q, s)   BY <1>0 DEF Due
      <4>3. file[q] = truth[s] \/ Due(q, s)   BY <2>1, <4>1 DEF FileInv
      <4> QED BY <4>2, <4>3
    <3>2. CASE q = op.path /\ op.trigger = "Decline"
      <4>1. e \in Pending' /\ e.path = q /\ at' = "restore"
        BY <1>0, <1>1, <1>8, <3>2
      <4>2. e.seq = s   BY <1>0, <1>1, <1>9, <2>1, <3>2
      <4> QED BY <4>1, <4>2 DEF Due
    <3>3. CASE q = op.path /\ op.trigger # "Decline"
      <4>1. Ahead(q)   BY <1>0, <3>3 DEF Ahead
      <4>2. file[q] = truth[op.seq]   BY <2>1, <4>1 DEF FileInv
      <4> QED BY <1>0, <1>9, <2>1, <3>3, <4>2
    <3> QED BY <3>1, <3>2, <3>3
  <2> QED BY <1>0, <1>0a, <2>1 DEF FileInv, Ahead
<1> QED BY <1>4, <1>5, <1>6, <1>7, <1>10, <1>11

LEMMA QRestore ==
    ASSUME SInv, QuietInv, RestoreFile
    PROVE  QuietInv'
<1> USE DEF QuietInv
<1>0. /\ at = "restore" /\ at' = "row"
      /\ UNCHANGED <<wal, rows, tree, heads, op, plan, tasks, truth, evicted>>
      /\ file' = [file EXCEPT ![op.path] = op.full[1]] /\ dirty' = dirty \ {op.path}
  BY DEF RestoreFile, memory, todo
<1>1. /\ DOMAIN file' = Paths /\ op.path \in Paths /\ file'[op.path] = op.full[1]
      /\ \A q \in Paths : q # op.path => file'[q] = file[q]
  BY <1>0 DEF FileInv, SInv, OpInv, Busy
<1>2. TruthInv'   BY <1>0, TruthFrame DEF Busy
<1>3. NewerInv'   BY <1>0 DEF NewerInv, Busy
<1>4. HeadsInv'   BY <1>0, HeadsFrame
<1>5. LinkInv'   BY <1>0, LinkFrame
<1>6. \A q, s : Newest(q, s)' <=> Newest(q, s)   BY <1>0, SameVersions
<1>7. Pending' = Pending   BY <1>0, PendingSame
<1>8. PendInv'   BY <1>0, <1>6, <1>7 DEF PendInv
<1>9. FileInv'
  <2>1. ASSUME NEW q \in Paths, q \notin dirty', NEW s \in 1..MaxSeq, Newest(q, s)'
        PROVE  file'[q] = truth[s]
    <3>1. CASE q # op.path
      <4>1. q \notin dirty /\ Newest(q, s) /\ ~Ahead(q)   BY <1>0, <1>6, <2>1, <3>1 DEF Ahead
      <4>2. ~Due(q, s)   BY <3>1, <1>0, OwnVersion DEF Due
      <4> QED BY <1>1, <3>1, <4>1, <4>2 DEF FileInv
    <3>2. CASE q = op.path
      <4>1. op.trigger = "Decline"   BY <1>0 DEF NewerInv
      <4>2. op.full = <<truth[op.seq]>>   BY <1>0, <4>1 DEF TruthInv, Busy
      <4>3. s = op.seq   BY <1>0, <1>6, <2>1, <3>2, OwnVersion
      <4> QED BY <1>1, <3>2, <4>2, <4>3
    <3> QED BY <3>1, <3>2
  <2> QED BY <1>0, <1>1, <2>1 DEF FileInv, Ahead
<1> QED BY <1>2, <1>3, <1>4, <1>5, <1>8, <1>9

\* The newest version is a row now.
LEMMA QWriteRow ==
    ASSUME SInv, LogInv, Quiet, QuietInv, WriteRow
    PROVE  QuietInv'
<1> USE DEF QuietInv
<1>n. PICK n : n = NodeOf(op, op.depth)   OBVIOUS
<1>0. /\ at = "row" /\ at' \in {"done", "idle", "gc"}
      /\ at' = "done" => op' = op /\ op.trigger = "Decline"
      /\ at' # "done" => op.trigger # "Decline"
      /\ tree' = With(tree, nextId, n) /\ rows' = With(rows, nextId, n)
      /\ heads' = With(heads, op.path, nextId)
      /\ UNCHANGED <<file, wal, plan, tasks, truth, dirty, evicted>>
  BY <1>n DEF WriteRow, AdvanceHead, MaybeRunGc, ghost, todo
<1>1. n.path = op.path /\ n.seq = op.seq /\ n.full = op.full   BY <1>n DEF NodeOf
<1>2. tree = rows /\ nextId \notin DOMAIN rows   BY <1>0, SRow, QuietIsClean DEF LogInv
<1>3. /\ DOMAIN rows' = DOMAIN rows \cup {nextId} /\ rows'[nextId] = n
      /\ \A v \in DOMAIN rows : rows'[v] = rows[v]
  BY <1>0, <1>2 DEF With
<1>4. /\ op.seq \in 1..MaxSeq /\ op.path \in Paths /\ MaxSeq \in Nat
      /\ \A v \in DOMAIN rows : rows[v].seq < op.seq
      /\ op.seq \notin evicted
      /\ \A v \in DOMAIN rows : rows[v].seq <= op.seq /\ rows[v].seq # op.seq
  <2>1. op.seq \in 1..MaxSeq /\ op.path \in Paths /\ MaxSeq \in Nat
        /\ \A v \in DOMAIN rows : rows[v].seq < op.seq
    BY <1>0, BoundsAssumption DEF SInv, OpInv, NewerInv, Busy
  <2>2. \A v \in DOMAIN rows : rows[v].seq <= op.seq /\ rows[v].seq # op.seq
    BY <2>1 DEF SInv, NodesInv, AreNodes, IsNode
  <2> QED BY <1>0, <2>1, <2>2, NotEvicted DEF Busy
<1>5. \A q, s : Version(q, s)' <=> Version(q, s)
  <2>0. SeqsOf(rows') = SeqsOf(rows) \cup {op.seq}   BY <1>1, <1>3 DEF SeqsOf
  <2>1. \A e : Kept(e)' <=> Kept(e) \/ e.seq = op.seq   BY <1>0, <2>0 DEF Kept
  <2>2. PICK e \in Elems(wal) : e.seq = op.seq   BY <1>0 DEF NewerInv
  <2>3. \A d \in Elems(wal) : d.seq = op.seq => d.path = op.path /\ d.trigger = op.trigger
    BY <1>0 DEF NewerInv
  <2>4. ~Kept(e)
    <3>1. e.trigger # "DeclineDone"   BY <1>0, <2>2, <2>3 DEF NewerInv, Busy
    <3> QED BY <1>4, <2>2, <3>1 DEF Kept, SeqsOf
  <2>5. ASSUME NEW q, NEW s, Version(q, s)' PROVE Version(q, s)
    <3>1. ASSUME NEW v \in DOMAIN rows', rows'[v].path = q, rows'[v].seq = s
          PROVE  Version(q, s)
      <4>1. CASE v \in DOMAIN rows   BY <1>3, <3>1, <4>1 DEF Version
      <4>2. CASE v = nextId
        <5>1. q = op.path /\ s = op.seq   BY <1>1, <1>3, <3>1, <4>2
        <5> QED BY <2>2, <2>3, <2>4, <5>1 DEF Version
      <4> QED BY <1>3, <4>1, <4>2
    <3>2. ASSUME NEW d \in Elems(wal), ~Kept(d)', d.path = q, d.seq = s PROVE Version(q, s)
      BY <2>1, <3>2 DEF Version
    <3> QED BY <1>0, <2>5, <3>1, <3>2 DEF Version
  <2>6. ASSUME NEW q, NEW s, Version(q, s) PROVE Version(q, s)'
    <3>1. ASSUME NEW v \in DOMAIN rows, rows[v].path = q, rows[v].seq = s
          PROVE  Version(q, s)'
      <4>1. v \in DOMAIN rows' /\ rows'[v].path = q /\ rows'[v].seq = s   BY <1>3, <3>1
      <4> QED BY <4>1 DEF Version
    <3>2. ASSUME NEW d \in Elems(wal), ~Kept(d), d.path = q, d.seq = s PROVE Version(q, s)'
      <4>1. CASE d.seq # op.seq   BY <1>0, <2>1, <3>2, <4>1 DEF Version
      <4>2. CASE d.seq = op.seq
        <5>1. nextId \in DOMAIN rows' /\ rows'[nextId].path = q /\ rows'[nextId].seq = s
          BY <1>1, <1>3, <2>3, <3>2, <4>2
        <5> QED BY <5>1 DEF Version
      <4> QED BY <4>1, <4>2
    <3> QED BY <2>6, <3>1, <3>2 DEF Version
  <2> QED BY <2>5, <2>6
<1>6. \A q, s : Newest(q, s)' <=> Newest(q, s)   BY <1>5, SameNewest
<1>7. Pending' = Pending   BY <1>0, PendingSame
<1>8. TruthInv'   BY <1>0, <1>1, <1>3 DEF TruthInv, Busy
<1>9. NewerInv'
  <2>1. \A s \in evicted : s \in Nat /\ \E v \in DOMAIN rows' : s < rows'[v].seq
    BY <1>3 DEF NewerInv
  <2> QED BY <1>0, <2>1 DEF NewerInv, Busy
<1>10. HeadsInv'
  <2>1. DOMAIN heads' = DOMAIN heads \cup {op.path} /\ heads'[op.path] = nextId
        /\ \A q \in DOMAIN heads : q # op.path => heads'[q] = heads[q]
    BY <1>0 DEF With
  <2>2. plan = NoPlan /\ plan.evict = {} /\ plan.promote = {}
    BY <1>0, NoPlanFields DEF SInv, TodoInv
  <2>3. \A v \in DOMAIN rows' : rows'[v].path \in DOMAIN heads'
    BY <1>0, <1>1, <1>3, <2>1 DEF HeadsInv
  <2>4. ASSUME NEW q \in DOMAIN heads'
        PROVE  /\ heads'[q] \in DOMAIN rows' /\ rows'[heads'[q]].path = q
               /\ \A v \in DOMAIN rows' :
                    rows'[v].path = q => rows'[v].seq <= rows'[heads'[q]].seq
    <3>1. CASE q = op.path   BY <1>1, <1>3, <1>4, <2>1, <3>1
    <3>2. CASE q # op.path
      <4>1. q \in DOMAIN heads /\ heads'[q] = heads[q]   BY <2>1, <3>2
      <4>2. heads[q] \in DOMAIN rows /\ rows[heads[q]].path = q
            /\ \A v \in DOMAIN rows :
                 rows[v].path = q => rows[v].seq <= rows[heads[q]].seq
        BY <1>0, <4>1 DEF HeadsInv
      <4> QED BY <1>1, <1>3, <3>2, <4>1, <4>2
    <3> QED BY <3>1, <3>2
  <2> QED BY <1>0, <2>2, <2>3, <2>4 DEF HeadsInv
<1>11. LinkInv'   BY <1>0, <1>1, <1>3 DEF LinkInv, NewerInv
<1>12. PendInv'
  <2>1. at' # "done" => Pending = {}
    BY <1>0, PendingIs DEF PendInv, NewerInv
  <2> QED BY <1>0, <1>6, <1>7, <2>1 DEF PendInv
<1>13. FileInv'
  <2>1. \A q, s : ~Due(q, s)   BY <1>0 DEF Due
  <2> QED BY <1>0, <1>6, <2>1, FileFrame
<1> QED BY <1>8, <1>9, <1>10, <1>11, <1>12, <1>13

LEMMA QMarkDone ==
    ASSUME SInv, QuietInv, MarkDone
    PROVE  QuietInv'
<1> USE DEF QuietInv
<1>0. /\ at = "done" /\ at' \in {"idle", "gc"}
      /\ wal' = Append(wal, Entry(op, Root, "DeclineDone"))
      /\ UNCHANGED <<file, rows, tree, heads, plan, tasks, truth, dirty, evicted>>
  BY DEF MarkDone, MaybeRunGc, ghost, todo
<1>m. PICK m : m = Entry(op, Root, "DeclineDone")   OBVIOUS
<1>1. Elems(wal') = Elems(wal) \cup {m} /\ m.seq = op.seq /\ m.trigger = "DeclineDone"
      /\ m.path = op.path /\ m.full = op.full
  BY <1>0, <1>m, AppendSeq, EntryFields DEF SInv, NumbersInv
<1>2. TruthInv'   BY <1>0, <1>1 DEF TruthInv, Busy
<1>3. NewerInv'   BY <1>0, NewerFrame DEF Busy
<1>4. HeadsInv'   BY <1>0, HeadsFrame
<1>5. LinkInv'   BY <1>0, <1>1 DEF LinkInv, NewerInv
<1>6. \A q, s : Newest(q, s)' <=> Newest(q, s)   BY <1>0, <1>1, SameVersions
<1>7. Pending' = {}
  <2>1. \A d \in Pending : d.path = op.path /\ d.seq = op.seq /\ d.full = op.full
    BY <1>0, PendingIs DEF PendInv, NewerInv
  <2> QED BY <1>0, <2>1, PendingMarked
<1>8. PendInv'   BY <1>0, <1>7 DEF PendInv
<1>9. FileInv'
  <2>1. \A q, s : ~Due(q, s)   BY <1>0 DEF Due
  <2> QED BY <1>0, <1>6, <2>1, FileFrame
<1> QED BY <1>2, <1>3, <1>4, <1>5, <1>8, <1>9

\* The collector's plan spares the heads.
LEMMA QPlan ==
    ASSUME SInv, LogInv, Quiet, QuietInv, PlanPass
    PROVE  QuietInv'
<1>0. /\ at = "gc" /\ at' \in {"idle", "evict"}
      /\ UNCHANGED <<file, wal, rows, tree, heads, op, tasks, truth, dirty, evicted>>
      /\ plan' = plan \/ plan' = [promote |-> ToPromote, evict |-> Victims, unref |-> <<>>,
                                  again |-> Freed(Victims) > 0]
  BY DEF PlanPass, durable, memory, ghost
<1>1. CASE plan' = plan   BY <1>0, <1>1, QuietFrame
<1>2. CASE plan' # plan
  <2> USE DEF QuietInv
  <2>1. plan'.promote = ToPromote /\ plan'.evict = Victims   BY <1>0, <1>2
  <2>2. tree = rows   BY <1>0, QuietIsClean DEF LogInv
  <2>3. \A p \in DOMAIN heads : heads[p] \notin Victims
    <3>1. \A p \in DOMAIN heads : heads[p] \in DOMAIN tree /\ heads[p] \in Nat
      BY DEF SInv, NodesInv, AreNodes
    <3>2. \A p \in DOMAIN heads : heads[p] \in Protected   BY <3>1, HeadsProtected
    <3> QED BY <3>2 DEF Victims, Candidates
  <2>4. \A v \in ToPromote : tree[v].delta # NoBlob   BY DEF ToPromote
  <2>5. HeadsInv'   BY <1>0, <2>1, <2>3, <2>4 DEF HeadsInv
  <2>6. \A q, s : Newest(q, s)' <=> Newest(q, s)   BY <1>0, SameVersions
  <2>7. Pending' = Pending   BY <1>0, PendingSame
  <2>8. PendInv'   BY <1>0, <2>6, <2>7 DEF PendInv
  <2>9. FileInv'   BY <1>0, <2>6, FileFrame DEF Due
  <2>10. TruthInv'   BY <1>0, TruthFrame DEF Busy
  <2>11. NewerInv'   BY <1>0, NewerFrame DEF Busy
  <2>12. LinkInv'   BY <1>0, LinkFrame
  <2> QED BY <2>5, <2>8, <2>9, <2>10, <2>11, <2>12
<1> QED BY <1>1, <1>2

LEMMA QCollect ==
    ASSUME SInv, QuietInv, GcUnref \/ GcPassEnds \/ GitCommit
    PROVE  QuietInv'
<1>1. /\ UNCHANGED <<rows, tree, heads, wal, evicted, truth, file, op, tasks, dirty>>
      /\ at \in {"idle", "gc", "evict"} /\ at' \in {"idle", "gc", "evict"}
  BY DEF GcUnref, GcPassEnds, GitCommit, Ready, durable, memory, todo, ghost
<1>2. plan'.evict \subseteq plan.evict /\ plan'.promote \subseteq plan.promote
  <2>1. CASE plan' = NoPlan   BY <2>1, NoPlanFields
  <2>2. CASE plan' = [plan EXCEPT !.unref = Tail(@)]   BY <2>2 DEF SInv, TodoInv
  <2>3. CASE plan' = plan   BY <2>3
  <2> QED BY <2>1, <2>2, <2>3 DEF GcUnref, GcPassEnds, GitCommit, todo
<1> QED BY <1>1, <1>2, QuietFrame

\* A promoted node keeps its number and its path, and was not an undo's.
LEMMA QPromote ==
    ASSUME SInv, LogInv, Quiet, QuietInv, NEW v \in plan.promote, GcPromote(v)
    PROVE  QuietInv'
<1> USE DEF QuietInv
<1>n. PICK n : n = Promoted(tree[v], Read(tree, v))   OBVIOUS
<1>0. /\ at = "evict" /\ at' \in {"idle", "evict"} /\ v \in DOMAIN tree
      /\ UNCHANGED <<file, wal, heads, op, tasks, truth, dirty, evicted>>
  BY DEF GcPromote, ghost, SInv, TodoInv
<1>1. tree = rows   BY <1>0, QuietIsClean DEF LogInv
<1>2. IsNode(n) /\ n.seq = tree[v].seq /\ n.path = tree[v].path /\ n.parent = tree[v].parent
      /\ tree[v].delta # NoBlob /\ IsNode(tree[v])
  BY <1>0, <1>n, PromotedIsNode DEF SInv, NodesInv, AreNodes, HeadsInv
<1>3. RowFits(n)   BY <1>0, <1>1, <1>2 DEF RowFits, SInv, NodesInv
<1>4. \/ UNCHANGED <<tree, rows>> /\ plan' = NoPlan
      \/ /\ tree' = With(tree, v, n) /\ rows' = With(rows, v, n)
         /\ plan' = [plan EXCEPT !.promote = @ \ {v}, !.unref = <<tree[v].delta>>]
  BY <1>3, <1>n DEF GcPromote
<1>5. CASE UNCHANGED <<tree, rows>> /\ plan' = NoPlan
  BY <1>0, <1>5, NoPlanFields, QuietFrame
<1>6. CASE /\ tree' = With(tree, v, n) /\ rows' = With(rows, v, n)
           /\ plan' = [plan EXCEPT !.promote = @ \ {v}, !.unref = <<tree[v].delta>>]
  <2>1. /\ DOMAIN rows' = DOMAIN rows /\ tree' = rows'
        /\ \A u \in DOMAIN rows : rows'[u].seq = rows[u].seq /\ rows'[u].path = rows[u].path
        /\ \A u \in DOMAIN rows : u # v => rows'[u] = rows[u]
    BY <1>0, <1>1, <1>2, <1>6 DEF With
  <2>2. plan'.promote = plan.promote \ {v} /\ plan'.evict = plan.evict
    BY <1>6 DEF SInv, TodoInv
  <2>3. SeqsOf(rows') = SeqsOf(rows)   BY <2>1 DEF SeqsOf
  <2>4. \A e : Kept(e)' <=> Kept(e)   BY <1>0, <2>3 DEF Kept
  <2>5. \A q, s : Version(q, s)' <=> Version(q, s)
    BY <1>0, <2>1, <2>4 DEF Version
  <2>6. \A q, s : Newest(q, s)' <=> Newest(q, s)   BY <2>5, SameNewest
  <2>7. Pending' = Pending   BY <1>0, PendingSame
  <2>8. TruthInv'   BY <1>0, <2>1 DEF TruthInv, Busy
  <2>9. NewerInv'   BY <1>0, <2>1 DEF NewerInv, Busy
  <2>10. HeadsInv'
    <3>1. plan.promote \subseteq DOMAIN rows   BY <1>1 DEF SInv, TodoInv
    <3>2. \A u \in plan'.promote : tree'[u].delta # NoBlob
      BY <1>0, <1>1, <2>1, <2>2, <3>1 DEF HeadsInv
    <3> QED BY <1>0, <2>1, <2>2, <3>2 DEF HeadsInv
  <2>11. LinkInv'
    <3>1. ASSUME NEW e \in Elems(wal), e.trigger = "Decline", e.seq = rows[v].seq
          PROVE  FALSE
      <4>1. rows[v].full = <<truth[e.seq]>>   BY <1>0, <1>1, <3>1 DEF LinkInv, TruthInv
      <4> QED BY <1>1, <1>2, <4>1 DEF IsNode, NoBlob
    <3> QED BY <1>0, <1>1, <2>1, <3>1 DEF LinkInv
  <2>12. PendInv'   BY <1>0, <2>6, <2>7 DEF PendInv
  <2>13. FileInv'   BY <1>0, <2>6, FileFrame DEF Due
  <2> QED BY <2>8, <2>9, <2>10, <2>11, <2>12, <2>13
<1> QED BY <1>4, <1>5, <1>6

\* The path of a victim has a newer version: its head.
LEMMA VictimIsOlder ==
    ASSUME SInv, HeadsInv, NEW v \in DOMAIN rows, v \in plan.evict, at = "evict"
    PROVE  \E h \in DOMAIN rows :
               h # v /\ rows[v].seq < rows[h].seq /\ rows[h].path = rows[v].path
<1>1. rows[v].path \in DOMAIN heads   BY DEF HeadsInv
<1>2. PICK h : h = heads[rows[v].path]   OBVIOUS
<1>3. h \in DOMAIN rows /\ h # v /\ rows[h].path = rows[v].path
      /\ rows[v].seq <= rows[h].seq
  BY <1>1, <1>2 DEF HeadsInv
<1>4. rows[v].seq # rows[h].seq /\ rows[v].seq \in Int /\ rows[h].seq \in Int
  BY <1>3, BoundsAssumption DEF SInv, NodesInv, AreNodes, IsNode
<1> QED BY <1>3, <1>4

\* A version that goes is not the newest of its path.
LEMMA QDelete ==
    ASSUME SInv, LogInv, Quiet, QuietInv, NEW v \in plan.evict, GcDelete(v)
    PROVE  QuietInv'
<1> USE DEF QuietInv
<1>0. /\ at = "evict" /\ at' = at /\ v \in DOMAIN tree
      /\ UNCHANGED <<file, wal, op, tasks, truth, dirty>>
      /\ evicted' = evicted \cup {tree[v].seq}
      /\ rows' = Removed(rows, v) /\ tree' = Removed(tree, v)
      /\ heads' = [p \in {q \in DOMAIN heads : heads[q] # v} |-> heads[p]]
      /\ plan.promote = {}
      /\ plan' = [plan EXCEPT !.evict = @ \ {v}, !.unref = BlobsOf(tree[v])]
  BY DEF GcDelete, SInv, TodoInv
<1>1. tree = rows /\ AreNodes(rows)   BY <1>0, QuietIsClean DEF LogInv, SInv, NodesInv
<1>2. plan'.promote = {} /\ plan'.evict = plan.evict \ {v}   BY <1>0 DEF SInv, TodoInv
<1>3. DOMAIN rows' = DOMAIN rows \ {v}   BY <1>0 DEF Removed, Detached, Without
<1>4. ASSUME NEW u, u \in DOMAIN rows, u # v
      PROVE  /\ u \in DOMAIN rows' /\ rows'[u].path = rows[u].path
             /\ rows'[u].seq = rows[u].seq /\ rows'[u].full = rows[u].full
  BY <1>0, <1>1, <1>3, <1>4, RemovedNode
<1>5. DOMAIN heads' = DOMAIN heads /\ \A p \in DOMAIN heads : heads'[p] = heads[p]
  <2>1. \A p \in DOMAIN heads : heads[p] # v   BY <1>0 DEF HeadsInv
  <2>2. {q \in DOMAIN heads : heads[q] # v} = DOMAIN heads   BY <2>1
  <2> QED BY <1>0, <2>2
<1>6. PICK h \in DOMAIN rows : h # v /\ rows[v].seq < rows[h].seq /\ rows[h].path = rows[v].path
  BY <1>0, <1>1, VictimIsOlder
<1>7. /\ \A e \in Elems(wal) : Kept(e)
      /\ \A p, s : Version(p, s) <=>
           \E u \in DOMAIN rows : rows[u].path = p /\ rows[u].seq = s
  BY <1>0, AllKept, QuietIsClean
<1>8. \A e \in Elems(wal) : Kept(e)'   BY <1>0, <1>1, <1>7, DeletedSeqs DEF Kept
<1>9. \A p, s : Version(p, s)' <=>
        \E u \in DOMAIN rows' : rows'[u].path = p /\ rows'[u].seq = s
  BY <1>0, <1>8 DEF Version
<1>10. \A p, s : Newest(p, s)' => Newest(p, s)
  <2> SUFFICES ASSUME NEW p, NEW s, Newest(p, s)' PROVE Newest(p, s)   OBVIOUS
  <2>1. PICK u \in DOMAIN rows' : rows'[u].path = p /\ rows'[u].seq = s
    BY <1>9 DEF Newest
  <2>2. u \in DOMAIN rows /\ u # v   BY <1>3, <2>1
  <2>3. rows[u].path = p /\ rows[u].seq = s   BY <1>4, <2>1, <2>2
  <2>4. Version(p, s)   BY <1>7, <2>2, <2>3
  <2>5. s \in 1..MaxSeq /\ MaxSeq \in Nat /\ \A w \in DOMAIN rows : rows[w].seq \in 1..MaxSeq
    BY <1>1, <2>2, <2>3, BoundsAssumption DEF AreNodes, IsNode
  <2>6. ASSUME NEW w, w \in DOMAIN rows, w # v, rows[w].path = p PROVE rows[w].seq <= s
    <3>1. PICK t \in 1..MaxSeq : t = rows[w].seq   BY <2>5, <2>6
    <3>2. Version(p, t)'   BY <1>4, <1>9, <2>6, <3>1
    <3> QED BY <3>1, <3>2 DEF Newest
  <2>7. rows[v].path = p => rows[v].seq <= s
    BY <1>0, <1>1, <1>6, <2>5, <2>6
  <2>8. \A t \in 1..MaxSeq : Version(p, t) => t <= s   BY <1>7, <2>6, <2>7
  <2> QED BY <2>4, <2>8 DEF Newest
<1>11. Pending' = Pending /\ Pending = {}   BY <1>0, PendingSame DEF PendInv
<1>12. TruthInv'
  <2>1. \A u \in DOMAIN rows' : rows'[u].seq \in DOMAIN truth
    BY <1>3, <1>4 DEF TruthInv
  <2> QED BY <1>0, <2>1 DEF TruthInv, Busy
<1>13. NewerInv'
  <2>0. \A w \in DOMAIN rows : rows[w].seq \in Nat
    BY <1>1, BoundsAssumption DEF AreNodes, IsNode
  <2>1. ASSUME NEW s \in evicted'
        PROVE  s \in Nat /\ \E w \in DOMAIN rows : s < rows[w].seq
    BY <1>0, <1>1, <1>6, <2>0 DEF NewerInv
  <2>2. ASSUME NEW s \in evicted' PROVE s \in Nat /\ \E w \in DOMAIN rows' : s < rows'[w].seq
    <3>1. PICK w \in DOMAIN rows : s < rows[w].seq   BY <2>1
    <3>2. CASE w # v   BY <1>4, <2>1, <3>1, <3>2
    <3>3. CASE w = v
      <4>1. s < rows[h].seq   BY <1>6, <2>0, <2>1, <3>1, <3>3
      <4> QED BY <1>4, <1>6, <2>1, <4>1
    <3> QED BY <3>2, <3>3
  <2> QED BY <1>0, <2>2 DEF NewerInv, Busy
<1>14. HeadsInv'
  <2>1. \A u \in DOMAIN rows' : rows'[u].path \in DOMAIN heads
    BY <1>0, <1>3, <1>4 DEF HeadsInv
  <2>2. ASSUME NEW p \in DOMAIN heads
        PROVE  /\ heads[p] \in DOMAIN rows' /\ rows'[heads[p]].path = p
               /\ heads[p] \notin plan'.evict
               /\ \A u \in DOMAIN rows' : rows'[u].path = p => rows'[u].seq <= rows'[heads[p]].seq
    <3>1. heads[p] \in DOMAIN rows /\ rows[heads[p]].path = p /\ heads[p] \notin plan.evict
          /\ \A u \in DOMAIN rows : rows[u].path = p => rows[u].seq <= rows[heads[p]].seq
      BY <1>0 DEF HeadsInv
    <3>2. heads[p] # v   BY <3>1
    <3> QED BY <1>2, <1>3, <1>4, <3>1, <3>2
  <2> QED BY <1>2, <1>5, <2>1, <2>2 DEF HeadsInv
<1>15. LinkInv'   BY <1>0, <1>3, <1>4 DEF LinkInv
<1>16. PendInv'   BY <1>0, <1>11 DEF PendInv
<1>17. FileInv'   BY <1>0, <1>10, FileFrame DEF Due
<1> QED BY <1>12, <1>13, <1>14, <1>15, <1>16, <1>17

-----------------------------------------------------------------------------
(* Restart. *)

LEMMA QCheckpoint ==
    ASSUME SInv, LogInv, Quiet, QuietInv, Checkpoint
    PROVE  QuietInv'
<1> USE DEF QuietInv
<1>0. /\ at = "idle" /\ at' = "idle" /\ wal' = <<>>
      /\ UNCHANGED <<file, rows, tree, heads, op, plan, tasks, truth, dirty, evicted>>
  BY DEF Checkpoint, Ready, memory, todo, ghost
<1>1. Elems(wal') = {}   BY <1>0, EmptySeq
<1>2. Pending' = {}   BY <1>1, PendingIsNext
<1>3. \A e : Kept(e)' <=> Kept(e)   BY <1>0 DEF Kept
<1>4. \A q, s : Version(q, s)' <=> Version(q, s)
  <2>1. \A q, s : Version(q, s) <=>
          \E v \in DOMAIN rows : rows[v].path = q /\ rows[v].seq = s
    BY <1>0, AllKept, QuietIsClean
  <2>2. \A q, s : Version(q, s)' <=>
          \E v \in DOMAIN rows' : rows'[v].path = q /\ rows'[v].seq = s
    BY <1>1 DEF Version
  <2> QED BY <1>0, <2>1, <2>2
<1>5. \A q, s : Newest(q, s)' <=> Newest(q, s)   BY <1>4, SameNewest
<1>6. TruthInv'   BY <1>0, <1>1 DEF TruthInv, Busy
<1>7. NewerInv'   BY <1>0, NewerFrame DEF Busy
<1>8. HeadsInv'   BY <1>0, HeadsFrame
<1>9. LinkInv'   BY <1>1 DEF LinkInv
<1>10. PendInv'   BY <1>0, <1>2 DEF PendInv
<1>11. FileInv'   BY <1>0, <1>5, FileFrame DEF Due
<1> QED BY <1>6, <1>7, <1>8, <1>9, <1>10, <1>11

\* A crash leaves the versions, and what an undo has yet to restore is due.
LEMMA QDies ==
    ASSUME SInv, LogInv, Quiet, QuietInv, Dies
    PROVE  QuietInv'
<1> USE DEF QuietInv
<1>0. /\ at # "down" /\ at' = "down"
      /\ UNCHANGED <<file, wal, truth>>
      /\ dirty' = IF at = "log" /\ op.trigger # "Decline" THEN dirty \cup {op.path} ELSE dirty
      /\ Loosened(rows, rows')
  BY DiesWhat
<1>1. /\ DOMAIN rows' = DOMAIN rows /\ SeqsOf(rows') = SeqsOf(rows)
      /\ \A u \in DOMAIN rows : /\ rows'[u].path = rows[u].path
                                /\ rows'[u].seq = rows[u].seq /\ rows'[u].full = rows[u].full
  BY <1>0 DEF Loosened, SeqsOf
<1>2. ASSUME NEW s \in evicted', s \notin evicted
      PROVE  s \in Nat /\ s \in SeqsOf(rows) /\ \E h \in DOMAIN rows : s < rows[h].seq
  <2>1. PICK v \in plan.evict : at = "evict" /\ s = tree[v].seq   BY <1>2, DiesWhat
  <2>2. tree = rows /\ v \in DOMAIN rows
    BY <2>1, QuietIsClean DEF LogInv, SInv, TodoInv
  <2>3. \E h \in DOMAIN rows : rows[v].seq < rows[h].seq   BY <2>1, <2>2, VictimIsOlder
  <2>4. rows[v].seq \in Nat
    BY <2>2, BoundsAssumption DEF SInv, NodesInv, AreNodes, IsNode
  <2> QED BY <2>1, <2>2, <2>3, <2>4 DEF SeqsOf
<1>3. TruthInv'   BY <1>0, <1>1 DEF TruthInv, Busy
<1>4. NewerInv'
  <2>1. \A s \in evicted' : s \in Nat /\ \E w \in DOMAIN rows' : s < rows'[w].seq
    BY <1>1, <1>2 DEF NewerInv
  <2> QED BY <1>0, <2>1 DEF NewerInv, Busy
<1>5. HeadsInv'   BY <1>0 DEF HeadsInv
<1>6. LinkInv'   BY <1>0, <1>1 DEF LinkInv
<1>7. \A q, s : Newest(q, s)' <=> Newest(q, s)
  <2>1. evicted \subseteq evicted'   BY DiesWhat
  <2>2. \A e : Kept(e)' <=> Kept(e)   BY <1>1, <1>2, <2>1 DEF Kept
  <2>3. \A q, s : Version(q, s)' <=> Version(q, s)   BY <1>0, <1>1, <2>2 DEF Version
  <2> QED BY <2>3, SameNewest
<1>8. Pending' = Pending   BY <1>0, PendingSame
<1>9. PendInv'   BY <1>0, <1>7, <1>8 DEF PendInv
<1>10. FileInv'
  <2>1. \A q : q \notin dirty' => q \notin dirty /\ ~Ahead(q)   BY <1>0 DEF Ahead
  <2>2. \A q, s : Due(q, s) => Due(q, s)'   BY <1>0, <1>8 DEF Due
  <2>3. \A q : ~Ahead(q)'   BY <1>0 DEF Ahead
  <2> QED BY <1>0, <1>7, <2>1, <2>2, <2>3 DEF FileInv
<1> QED BY <1>3, <1>4, <1>5, <1>6, <1>9, <1>10

LEMMA QOpen ==
    ASSUME SInv, QuietInv, Open
    PROVE  QuietInv'
<1> USE DEF QuietInv
<1>0. /\ at = "down" /\ at' = "replay"
      /\ UNCHANGED <<file, wal, rows, truth, dirty, evicted>>
  BY DEF Open, durable, ghost
<1>1. TruthInv'   BY <1>0, TruthFrame DEF Busy
<1>2. NewerInv'   BY <1>0, NewerFrame DEF Busy
<1>3. HeadsInv'   BY <1>0 DEF HeadsInv
<1>4. LinkInv'   BY <1>0, LinkFrame
<1>5. \A q, s : Newest(q, s)' <=> Newest(q, s)   BY <1>0, SameVersions
<1>6. Pending' = Pending   BY <1>0, PendingSame
<1>7. PendInv'   BY <1>0, <1>5, <1>6 DEF PendInv
<1>8. FileInv'   BY <1>0, <1>5, <1>6, FileFrame DEF Due
<1> QED BY <1>1, <1>2, <1>3, <1>4, <1>7, <1>8

\* The row takes the place of the entries with its number.
LEMMA QReplay ==
    ASSUME SInv, LogInv, Quiet, Quiet', QuietInv, Replay
    PROVE  QuietInv'
<1> USE DEF QuietInv
<1>e. PICK e : e = Head(tasks)   OBVIOUS
<1>n. PICK n : n = NodeOf(e, ReplayDepth(e))   OBVIOUS
<1>0. /\ at = "replay" /\ tasks # <<>> /\ ~HasNode(e)
      /\ spoilt' = IF e.seq \in evicted THEN spoilt \cup {"resurrected"} ELSE spoilt
      /\ UNCHANGED <<file, wal, heads, op, plan, truth, dirty, evicted>>
  BY <1>e, ReplayStep
<1>1. e.seq \notin evicted   BY <1>0 DEF Quiet
<1>2. e \in Elems(wal) /\ e \in Elems(tasks)   BY <1>e, <1>0, HeadInLog DEF Opening
<1>3. ~Kept(e)   BY <1>0, <1>1 DEF Kept, HasNode
<1>4. RowFits(e)   BY <1>0, <1>2, <1>3, QuietIsClean DEF LogInv
<1>5. rows' = With(rows, nextId, n) /\ at' = "replay"
  BY <1>e, <1>n, <1>4, ReplayStep
<1>6. n.path = e.path /\ n.seq = e.seq /\ n.full = e.full   BY <1>n DEF NodeOf
<1>7. nextId \notin DOMAIN rows   BY <1>0 DEF SInv, NumbersInv, NodesInv
<1>8. /\ DOMAIN rows' = DOMAIN rows \cup {nextId} /\ rows'[nextId] = n
      /\ \A v \in DOMAIN rows : rows'[v] = rows[v]
  BY <1>5, <1>7 DEF With
<1>9. \A q, s : Version(q, s)' <=> Version(q, s)
  <2>0. SeqsOf(rows') = SeqsOf(rows) \cup {e.seq}   BY <1>6, <1>8 DEF SeqsOf
  <2>1. \A d : Kept(d)' <=> Kept(d) \/ d.seq = e.seq   BY <1>0, <2>0 DEF Kept
  <2>3. \A d \in Elems(wal) : d.seq = e.seq => d.path = e.path   BY <1>2 DEF LinkInv
  <2>5. ASSUME NEW q, NEW s, Version(q, s)' PROVE Version(q, s)
    <3>1. ASSUME NEW v \in DOMAIN rows', rows'[v].path = q, rows'[v].seq = s
          PROVE  Version(q, s)
      <4>1. CASE v \in DOMAIN rows   BY <1>8, <3>1, <4>1 DEF Version
      <4>2. CASE v = nextId
        <5>1. q = e.path /\ s = e.seq   BY <1>6, <1>8, <3>1, <4>2
        <5> QED BY <1>2, <1>3, <5>1 DEF Version
      <4> QED BY <1>8, <4>1, <4>2
    <3>2. ASSUME NEW d \in Elems(wal), ~Kept(d)', d.path = q, d.seq = s PROVE Version(q, s)
      BY <2>1, <3>2 DEF Version
    <3> QED BY <1>0, <2>5, <3>1, <3>2 DEF Version
  <2>6. ASSUME NEW q, NEW s, Version(q, s) PROVE Version(q, s)'
    <3>1. ASSUME NEW v \in DOMAIN rows, rows[v].path = q, rows[v].seq = s
          PROVE  Version(q, s)'
      <4>1. v \in DOMAIN rows' /\ rows'[v].path = q /\ rows'[v].seq = s   BY <1>8, <3>1
      <4> QED BY <4>1 DEF Version
    <3>2. ASSUME NEW d \in Elems(wal), ~Kept(d), d.path = q, d.seq = s PROVE Version(q, s)'
      <4>1. CASE d.seq # e.seq   BY <1>0, <2>1, <3>2, <4>1 DEF Version
      <4>2. CASE d.seq = e.seq
        <5>1. nextId \in DOMAIN rows' /\ rows'[nextId].path = q /\ rows'[nextId].seq = s
          BY <1>6, <1>8, <2>3, <3>2, <4>2
        <5> QED BY <5>1 DEF Version
      <4> QED BY <4>1, <4>2
    <3> QED BY <2>6, <3>1, <3>2 DEF Version
  <2> QED BY <2>5, <2>6
<1>10. \A q, s : Newest(q, s)' <=> Newest(q, s)   BY <1>9, SameNewest
<1>11. Pending' = Pending   BY <1>0, PendingSame
<1>12. TruthInv'   BY <1>0, <1>2, <1>5, <1>6, <1>8 DEF TruthInv, Busy
<1>13. NewerInv'
  <2>1. \A s \in evicted : s \in Nat /\ \E v \in DOMAIN rows' : s < rows'[v].seq
    BY <1>8 DEF NewerInv
  <2> QED BY <1>0, <1>5, <2>1 DEF NewerInv, Busy
<1>14. HeadsInv'   BY <1>5 DEF HeadsInv
<1>15. LinkInv'   BY <1>0, <1>2, <1>6, <1>8 DEF LinkInv
<1>16. PendInv'   BY <1>0, <1>5, <1>10, <1>11 DEF PendInv
<1>17. FileInv'   BY <1>0, <1>5, <1>10, <1>11, FileFrame DEF Due
<1> QED BY <1>12, <1>13, <1>14, <1>15, <1>16, <1>17

\* The heads are the newest rows, and every undo cut short is taken up.
LEMMA QOpened ==
    ASSUME SInv, Quiet', QuietInv, Opened
    PROVE  QuietInv'
<1> USE DEF QuietInv
<1>0. /\ at = "replay" /\ at' = "recover" /\ tasks' = wal /\ heads' = NewestHeads(tree)
      /\ UNCHANGED <<file, wal, rows, tree, op, plan, truth, dirty, evicted>>
      /\ spoilt' = IF \E e \in Pending : ~Recoverable(e) THEN spoilt \cup {"skipped"} ELSE spoilt
  BY DEF Opened, durable
<1>1. \A e \in Pending : Recoverable(e)   BY <1>0 DEF Quiet
<1>2. TruthInv'   BY <1>0, TruthFrame DEF Busy
<1>3. NewerInv'   BY <1>0, NewerFrame DEF Busy
<1>4. HeadsInv'
  <2>1. tree = rows /\ AreNodes(tree)   BY <1>0 DEF SInv, NodesInv
  <2>2. plan.evict = {} /\ plan.promote = {}
    BY <1>0, NoPlanFields DEF SInv, TodoInv
  <2>3. /\ \A v \in DOMAIN tree : tree[v].path \in DOMAIN heads'
        /\ \A p \in DOMAIN heads' :
             /\ heads'[p] \in DOMAIN tree /\ tree[heads'[p]].path = p
             /\ \A u \in DOMAIN tree :
                  tree[u].path = p => tree[u].seq <= tree[heads'[p]].seq
    BY <1>0, <2>1, NewestIsThere
  <2> QED BY <1>0, <2>1, <2>2, <2>3 DEF HeadsInv
<1>5. LinkInv'   BY <1>0, LinkFrame
<1>6. \A q, s : Newest(q, s)' <=> Newest(q, s)   BY <1>0, SameVersions
<1>7. Pending' = Pending   BY <1>0, PendingSame
<1>8. PendInv'
  <2>1. \A e \in Pending : e \in Elems(tasks') /\ file'[e.path] # Absent
    BY <1>0, <1>1, PendingIs DEF Recoverable
  <2> QED BY <1>0, <1>6, <1>7, <2>1 DEF PendInv
<1>9. FileInv'   BY <1>0, <1>6, <1>7, FileFrame DEF Due
<1> QED BY <1>2, <1>3, <1>4, <1>5, <1>8, <1>9

LEMMA QPassOver ==
    ASSUME SInv, QuietInv, PassOver
    PROVE  QuietInv'
<1> USE DEF QuietInv
<1>0. /\ at' = at /\ at \in {"replay", "recover"} /\ tasks # <<>> /\ tasks' = Tail(tasks)
      /\ at = "recover" => ~Recoverable(Head(tasks))
      /\ UNCHANGED <<file, wal, rows, tree, heads, op, plan, truth, dirty, evicted>>
  BY DEF PassOver, durable, memory, ghost
<1>1. TruthInv'   BY <1>0, TruthFrame DEF Busy
<1>2. NewerInv'   BY <1>0, NewerFrame DEF Busy
<1>3. HeadsInv'   BY <1>0, HeadsFrame
<1>4. LinkInv'   BY <1>0, LinkFrame
<1>5. \A q, s : Newest(q, s)' <=> Newest(q, s)   BY <1>0, SameVersions
<1>6. Pending' = Pending   BY <1>0, PendingSame
<1>7. Elems(tasks) = {Head(tasks)} \cup Elems(tasks')   BY <1>0, HeadInLog DEF Opening
<1>8. at = "recover" => \A e \in Pending : e \in Elems(tasks') /\ file[e.path] # Absent
  <2>1. at = "recover" => \A e \in Pending : e \in Elems(tasks) /\ file[e.path] # Absent
    BY DEF PendInv
  <2>2. at = "recover" => \A e \in Pending : e # Head(tasks)   BY <1>0, <2>1 DEF Recoverable
  <2> QED BY <1>7, <2>1, <2>2
<1>9. PendInv'   BY <1>0, <1>5, <1>6, <1>8 DEF PendInv
<1>10. FileInv'   BY <1>0, <1>5, <1>6, FileFrame DEF Due
<1> QED BY <1>1, <1>2, <1>3, <1>4, <1>9, <1>10

\* The blob of an undo that was cut short is there: the undo's row names it.
LEMMA IntentReadable ==
    ASSUME SInv, LogInv, RefsInv, Quiet, QuietInv, at = "recover", NEW e \in Pending
    PROVE  e.full \in DOMAIN refs /\ e.full = <<truth[e.seq]>>
<1> USE DEF QuietInv
<1>1. e \in Elems(wal) /\ e.trigger = "Decline"   BY PendingIs
<1>2. e.full = <<truth[e.seq]>> /\ e.full # NoBlob   BY <1>1 DEF TruthInv, NoBlob
<1>3. Version(e.path, e.seq)   BY DEF PendInv, Newest
<1>4. PICK v \in DOMAIN rows : rows[v].path = e.path /\ rows[v].seq = e.seq
  BY <1>3, AllKept, QuietIsClean
<1>5. rows[v].full = e.full /\ rows[v].seq \in 1..MaxSeq
  BY <1>1, <1>4 DEF LinkInv, SInv, NodesInv, AreNodes, IsNode
<1>6. e.seq \in Holders(e.full)   BY <1>4, <1>5 DEF Holders, Holds, Names
<1>7. Cardinality(Holders(e.full)) \in Nat /\ Cardinality(Holders(e.full)) # 0
  BY <1>6, HoldersFinite, FS_EmptySet
<1>8. Cardinality(Holders(e.full)) + Owed(e.full) <= Count(e.full)
  <2>1. "resurrected" \notin spoilt   BY DEF Quiet
  <2>2. CountInv   BY DEF RefsInv
  <2> QED BY <1>2, <2>1, <2>2, Zenon DEF CountInv
<1>9. Owed(e.full) \in Nat /\ Count(e.full) \in Nat   BY CountType DEF RefsInv
<1>10. e.full \in DOMAIN refs   BY <1>7, <1>8, <1>9 DEF Count
<1> QED BY <1>2, <1>10

LEMMA OneNewest ==
    ASSUME NEW p, NEW s \in 1..MaxSeq, NEW t \in 1..MaxSeq, Newest(p, s), Newest(p, t)
    PROVE  s = t
<1>1. s <= t /\ t <= s   BY DEF Newest
<1>2. MaxSeq \in Nat   BY BoundsAssumption
<1> QED BY <1>1, <1>2

LEMMA QFinishRestore ==
    ASSUME SInv, LogInv, RefsInv, Quiet, QuietInv, FinishRestore
    PROVE  QuietInv'
<1> USE DEF QuietInv
<1>e. PICK e : e = Head(tasks)   OBVIOUS
<1>0. /\ at = "recover" /\ tasks # <<>> /\ Recoverable(e)
      /\ UNCHANGED <<wal, rows, tree, heads, op, plan, truth, evicted>>
  BY <1>e DEF FinishRestore, memory
<1>1. e \in Pending   BY <1>0 DEF Recoverable
<1>2. e.full \in DOMAIN refs /\ e.full = <<truth[e.seq]>>   BY <1>0, <1>1, IntentReadable
<1>3. /\ file' = [file EXCEPT ![e.path] = e.full[1]] /\ dirty' = dirty \ {e.path}
      /\ at' = "finish" /\ tasks' = tasks
  BY <1>e, <1>2 DEF FinishRestore
<1>4. e \in Elems(wal) /\ e.path \in Paths /\ e.seq \in 1..MaxSeq
  BY <1>1, PendingIs DEF SInv, NumbersInv
<1>5. /\ DOMAIN file' = Paths /\ file'[e.path] = truth[e.seq]
      /\ \A q \in Paths : q # e.path => file'[q] = file[q]
  BY <1>2, <1>3, <1>4 DEF FileInv
<1>6. TruthInv'   BY <1>0, <1>3, TruthFrame DEF Busy
<1>7. NewerInv'   BY <1>0, <1>3, NewerFrame DEF Busy
<1>8. HeadsInv'   BY <1>0, <1>3, HeadsFrame
<1>9. LinkInv'   BY <1>0, LinkFrame
<1>10. \A q, s : Newest(q, s)' <=> Newest(q, s)   BY <1>0, SameVersions
<1>11. Pending' = Pending   BY <1>0, PendingSame
<1>12. PendInv'
  <2>1. \A d \in Pending : d \in Elems(tasks) /\ file[d.path] # Absent
    BY <1>0 DEF PendInv
  <2>2. \A d \in Pending : d.path \in Paths   BY PendingIs DEF SInv, NumbersInv
  <2>3. \A d \in Pending' : d.path # Head(tasks').path => file'[d.path] # Absent
    BY <1>e, <1>3, <1>5, <1>11, <2>1, <2>2
  <2>4. file'[Head(tasks').path] = truth'[Head(tasks').seq]   BY <1>e, <1>0, <1>3, <1>5
  <2>5. \A d \in Pending' : d \in Elems(tasks')   BY <1>3, <1>11, <2>1
  <2>6. Head(tasks') \in Pending'   BY <1>e, <1>1, <1>3, <1>11
  <2>7. \A d \in Pending' : Newest(d.path, d.seq)'   BY <1>10, <1>11 DEF PendInv
  <2> QED BY <1>3, <2>3, <2>4, <2>5, <2>6, <2>7 DEF PendInv
<1>13. FileInv'
  <2>1. ASSUME NEW q \in Paths, q \notin dirty', NEW s \in 1..MaxSeq, Newest(q, s)'
        PROVE  file'[q] = truth[s] \/ Due(q, s)'
    <3>0. Newest(q, s) /\ ~Ahead(q)   BY <1>0, <1>10, <2>1 DEF Ahead
    <3>1. CASE q # e.path
      <4>1. file[q] = truth[s] \/ Due(q, s)   BY <1>3, <2>1, <3>0, <3>1 DEF FileInv
      <4>2. Due(q, s) => Due(q, s)'   BY <1>3, <1>11 DEF Due
      <4> QED BY <1>5, <3>1, <4>1, <4>2
    <3>2. CASE q = e.path
      <4>1. Newest(e.path, e.seq)   BY <1>1 DEF PendInv
      <4>2. s = e.seq   BY <1>4, <2>1, <3>0, <3>2, <4>1, OneNewest
      <4> QED BY <1>5, <3>2, <4>2
    <3> QED BY <3>1, <3>2
  <2> QED BY <1>0, <1>3, <1>5, <2>1 DEF FileInv, Ahead
<1> QED BY <1>6, <1>7, <1>8, <1>9, <1>12, <1>13

\* The mark takes away all intents of its path: they are one version's.
LEMMA QFinishMark ==
    ASSUME SInv, QuietInv, FinishMark
    PROVE  QuietInv'
<1> USE DEF QuietInv
<1>e. PICK e : e = Head(tasks)   OBVIOUS
<1>m. PICK m : m = Entry(e, Root, "DeclineDone")   OBVIOUS
<1>0. /\ at = "finish" /\ at' = "recover" /\ tasks' = Tail(tasks)
      /\ wal' = Append(wal, m)
      /\ UNCHANGED <<file, rows, tree, heads, op, plan, truth, dirty, evicted>>
  BY <1>e, <1>m DEF FinishMark, memory, ghost
<1>1. /\ Elems(wal') = Elems(wal) \cup {m} /\ m.seq = e.seq /\ m.trigger = "DeclineDone"
      /\ m.path = e.path /\ m.full = e.full
  BY <1>0, <1>m, AppendSeq, EntryFields DEF SInv, NumbersInv
<1>2. /\ e \in Pending /\ file[e.path] = truth[e.seq]
      /\ \A d \in Pending : d.path # e.path => file[d.path] # Absent
  BY <1>0, <1>e DEF PendInv
<1>3. e \in Elems(wal) /\ tasks # <<>>   BY <1>0, <1>2, PendingIs DEF SInv, TodoInv
<1>4. \A d : d \in Pending' => d \in Pending /\ d.path # e.path
  <2>1. \A d : d \in Pending' <=>
           d \in Pending /\ ~(d.path = e.path /\ d.seq = e.seq /\ d.full = e.full)
    BY <1>0, <1>m, PendingMarked
  <2>2. ASSUME NEW d \in Pending, d.path = e.path PROVE d.seq = e.seq /\ d.full = e.full
    <3>1. d \in Elems(wal)   BY PendingIs
    <3>2. d.seq \in 1..MaxSeq /\ e.seq \in 1..MaxSeq   BY <1>3, <3>1 DEF SInv, NumbersInv
    <3>3. Newest(e.path, d.seq) /\ Newest(e.path, e.seq)   BY <1>2, <2>2 DEF PendInv
    <3>4. d.seq = e.seq   BY <3>2, <3>3, OneNewest
    <3> QED BY <1>3, <3>1, <3>4 DEF LinkInv
  <2> QED BY <2>1, <2>2
<1>5. Elems(tasks) = {e} \cup Elems(tasks')   BY <1>e, <1>0, <1>3, HeadInLog DEF Opening
<1>6. \A q, s : Newest(q, s)' <=> Newest(q, s)   BY <1>0, <1>1, SameVersions
<1>7. TruthInv'   BY <1>0, <1>1, <1>3 DEF TruthInv, Busy
<1>8. NewerInv'   BY <1>0, NewerFrame DEF Busy
<1>9. HeadsInv'   BY <1>0, HeadsFrame
<1>10. LinkInv'   BY <1>0, <1>1, <1>3 DEF LinkInv
<1>11. PendInv'
  <2>1. \A d \in Pending' : d \in Elems(tasks') /\ file'[d.path] # Absent
    BY <1>0, <1>2, <1>4, <1>5 DEF PendInv
  <2>2. \A d \in Pending' : Newest(d.path, d.seq)'   BY <1>4, <1>6 DEF PendInv
  <2> QED BY <1>0, <2>1, <2>2 DEF PendInv
<1>12. FileInv'
  <2>1. ASSUME NEW q \in Paths \ dirty, NEW s \in 1..MaxSeq, Newest(q, s)
        PROVE  file[q] = truth[s] \/ Due(q, s)'
    <3>1. CASE q = e.path
      <4>1. Newest(e.path, e.seq) /\ e.seq \in 1..MaxSeq
        BY <1>2, <1>3 DEF PendInv, SInv, NumbersInv
      <4>2. s = e.seq   BY <2>1, <3>1, <4>1, OneNewest
      <4> QED BY <1>2, <3>1, <4>2
    <3>2. CASE q # e.path
      <4>1. file[q] = truth[s] \/ Due(q, s)   BY <1>0, <2>1 DEF FileInv, Ahead
      <4>2. ASSUME Due(q, s) PROVE Due(q, s)'
        <5>1. PICK d \in Pending : d.path = q /\ d.seq = s   BY <4>2 DEF Due
        <5>2. d \in Pending'   BY <1>0, <1>m, <3>2, <5>1, PendingMarked
        <5> QED BY <1>0, <5>1, <5>2 DEF Due
      <4> QED BY <4>1, <4>2
    <3> QED BY <3>1, <3>2
  <2> QED BY <1>0, <1>6, <2>1 DEF FileInv, Ahead
<1> QED BY <1>7, <1>8, <1>9, <1>10, <1>11, <1>12

LEMMA QRecovered ==
    ASSUME SInv, QuietInv, Recovered
    PROVE  QuietInv'
<1> USE DEF QuietInv
<1>0. /\ at = "recover" /\ at' = "idle" /\ tasks = <<>>
      /\ UNCHANGED <<file, wal, rows, tree, heads, op, plan, tasks, truth, dirty, evicted>>
  BY DEF Recovered, durable, memory, todo, ghost
<1>1. Pending' = Pending /\ Pending = {}
  BY <1>0, PendingSame, EmptySeq DEF PendInv
<1>2. TruthInv'   BY <1>0, TruthFrame DEF Busy
<1>3. NewerInv'   BY <1>0, NewerFrame DEF Busy
<1>4. HeadsInv'   BY <1>0, HeadsFrame
<1>5. LinkInv'   BY <1>0, LinkFrame
<1>6. \A q, s : Newest(q, s)' <=> Newest(q, s)   BY <1>0, SameVersions
<1>7. PendInv'   BY <1>0, <1>1 DEF PendInv
<1>8. FileInv'
  <2>1. \A q, s : ~Due(q, s)   BY <1>1 DEF Due
  <2> QED BY <1>0, <1>6, <2>1, FileFrame
<1> QED BY <1>2, <1>3, <1>4, <1>5, <1>7, <1>8

\* Without a failure the row of the parent is always there.
LEMMA NeverRefused ==
    ASSUME SInv, LogInv, Quiet, RowRefused
    PROVE  FALSE
<1>1. at = "row" /\ ~RowFits(op)   BY DEF RowRefused
<1>2. tree = rows   BY <1>1, QuietIsClean DEF LogInv
<1> QED BY <1>1, <1>2 DEF RowFits, SInv, OpInv, Busy

LEMMA QNext == SInv /\ LogInv /\ RefsInv /\ faults \in Nat /\ QInv /\ [Next]_vars => QInv'
<1> SUFFICES ASSUME SInv, LogInv, RefsInv, faults \in Nat, QInv, [Next]_vars, Quiet'
             PROVE  QuietInv'
  BY DEF QInv
<1>0. Quiet /\ QuietInv   BY QuietBefore DEF QInv
<1>1. CASE UNCHANGED vars
  <2>1. UNCHANGED <<rows, tree, heads, wal, evicted, truth, file, op, tasks, dirty, at, plan>>
    BY <1>1 DEF vars, durable, memory, todo, ghost
  <2> QED BY <1>0, <2>1, QuietFrame
<1>2. ASSUME NEW p \in Paths, NEW c, EditFile(p, c) PROVE QuietInv'   BY <1>0, <1>2, QEdit
<1>3. ASSUME NEW p \in Paths,
             RecordChange(p) \/ RecordDelete(p) \/ \E v \in DOMAIN tree : Decline(p, v)
      PROVE  QuietInv'
  BY <1>0, <1>3, QRecord
<1>4. CASE LogFails \/ SyncFails \/ RestoreOrMarkFails \/ RowFails
  <2>1. faults' = faults + 1
    BY <1>4 DEF LogFails, SyncFails, RestoreOrMarkFails, RowFails, Fail
  <2> QED BY <1>0, <2>1 DEF Quiet
<1>5. CASE CommitEntry \/ RestoreFile   BY <1>0, <1>5, QCommit, QRestore
<1>6. CASE WriteRow \/ MarkDone   BY <1>0, <1>6, QWriteRow, QMarkDone
<1>7. CASE RowRefused   BY <1>0, <1>7, NeverRefused
<1>8. CASE PlanPass   BY <1>0, <1>8, QPlan
<1>9. CASE GcUnref \/ GcPassEnds \/ GitCommit   BY <1>0, <1>9, QCollect
<1>10. ASSUME NEW v \in plan.promote, GcPromote(v) PROVE QuietInv'   BY <1>0, <1>10, QPromote
<1>11. ASSUME NEW v \in plan.evict, GcDelete(v) PROVE QuietInv'   BY <1>0, <1>11, QDelete
<1>12. CASE Checkpoint   BY <1>0, <1>12, QCheckpoint
<1>13. CASE Dies \/ Open   BY <1>0, <1>13, QDies, QOpen
<1>14. CASE Replay   BY <1>0, <1>14, QReplay
<1>15. CASE Opened \/ PassOver   BY <1>0, <1>15, QOpened, QPassOver
<1>16. CASE FinishRestore   BY <1>0, <1>16, QFinishRestore
<1>17. CASE FinishMark \/ Recovered   BY <1>0, <1>17, QFinishMark, QRecovered
<1> QED
  BY <1>1, <1>2, <1>3, <1>4, <1>5, <1>6, <1>7, <1>8, <1>9, <1>10, <1>11, <1>12, <1>13,
     <1>14, <1>15, <1>16, <1>17
  DEF Next, Dies

LEMMA QInvariance == Spec => []QInv
<1>1. Init => QInv
  <2> SUFFICES ASSUME Init PROVE QuietInv   BY DEF QInv
  <2>1. /\ DOMAIN rows = {} /\ DOMAIN heads = {} /\ Elems(wal) = {} /\ at = "idle"
        /\ evicted = {} /\ plan.evict = {} /\ plan.promote = {} /\ DOMAIN file = Paths
    BY EmptySeq, NoPlanFields DEF Init
  <2>2. Pending = {}   BY <2>1, PendingIs
  <2>3. \A q, s : ~Newest(q, s)   BY <2>1 DEF Newest, Version
  <2>4. TruthInv /\ NewerInv   BY <2>1 DEF TruthInv, NewerInv, Busy
  <2>5. HeadsInv /\ LinkInv   BY <2>1 DEF HeadsInv, LinkInv
  <2>6. PendInv   BY <2>1, <2>2 DEF PendInv
  <2>7. FileInv   BY <2>1, <2>3 DEF FileInv, Ahead
  <2> QED BY <2>4, <2>5, <2>6, <2>7 DEF QuietInv
<1>2. Init => faults \in Nat   BY DEF Init
<1>3. faults \in Nat /\ [Next]_vars => (faults \in Nat)'   BY Monotone
<1> QED BY <1>1, <1>2, <1>3, QNext, SInvariance, LogInvariance, RInvariance, PTL DEF Spec

\* For any number of crashes at any step, and whatever the collector deletes: a
\* file that nobody has touched since the engine read or wrote it holds what its
\* head recorded, once the engine is idle (record, DeclineProtocol::decline and
\* recover_incomplete_restores), as long as no step failed and no restart went
\* wrong in one of the two known ways.
THEOREM QuietFileHoldsHead == Spec => []QuietFileIsHead
<1>1. ASSUME SInv, LogInv, QInv, at = "idle", Quiet, NEW p \in DOMAIN heads \ dirty
      PROVE  file[p] = truth[tree[heads[p]].seq]
  <2> USE DEF QuietInv
  <2>0. QuietInv   BY <1>1 DEF QInv
  <2>1. tree = rows   BY <1>1, QuietIsClean DEF LogInv
  <2>2. PICK h : h = heads[p]   OBVIOUS
  <2>3. h \in DOMAIN rows /\ rows[h].path = p
        /\ \A v \in DOMAIN rows : rows[v].path = p => rows[v].seq <= rows[h].seq
    BY <1>1, <2>0, <2>2 DEF HeadsInv
  <2>4. PICK s : s = rows[h].seq   OBVIOUS
  <2>5. s \in 1..MaxSeq /\ p \in Paths
    BY <1>1, <2>3, <2>4 DEF SInv, NodesInv, AreNodes, IsNode
  <2>6. \A q, t : Version(q, t) <=>
          \E v \in DOMAIN rows : rows[v].path = q /\ rows[v].seq = t
    BY <1>1, AllKept, QuietIsClean
  <2>7. Newest(p, s)   BY <2>3, <2>4, <2>6 DEF Newest
  <2>8. file[p] = truth[s]   BY <1>1, <2>0, <2>5, <2>7 DEF FileInv, Ahead, Due
  <2> QED BY <2>1, <2>2, <2>4, <2>8
<1>2. SInv /\ LogInv /\ QInv => QuietFileIsHead   BY <1>1 DEF QuietFileIsHead, Quiet
<1> QED BY <1>2, SInvariance, LogInvariance, QInvariance, PTL

-----------------------------------------------------------------------------
(* Steps, by what they do to the versions. *)

\* Neither tree nor table change; the log gets a completion mark, or is emptied.
Still ==
    /\ UNCHANGED <<tree, rows, heads, nextId, seqNo, truth, evicted, spoilt, crashes>>
    /\ \/ at' = at
       \/ /\ at \notin {"down", "replay", "failed"}
          /\ at' \notin {"down", "replay", "failed", "log", "restore"}
    /\ at' \in Busy \cup {"done"} => (at \in Busy /\ at # "log") \/ at' = at
    /\ at' \in Busy \cup {"done"} => UNCHANGED <<op, wal>> /\ (at' = "done" => at = "done")
    /\ at' \in Opening => at \in Opening
    /\ at \in {"restore", "row"} =>
         (at' \in {"restore", "row"} /\ op' = op) \/ faults' = faults + 1
    /\ at' = "replay" => \/ tasks' = tasks
                         \/ tasks # <<>> /\ HasNode(Head(tasks)) /\ tasks' = Tail(tasks)
    /\ \/ wal' = wal
       \/ Ready /\ wal' = <<>>
       \/ \E e : /\ wal' = Append(wal, Entry(e, Root, "DeclineDone"))
                 /\ at \in {"done", "finish"}
    /\ DOMAIN refs' \subseteq DOMAIN refs
    /\ faults' = faults \/ faults' = faults + 1
    /\ PlanPass \/ (plan'.promote \subseteq plan.promote /\ plan'.evict \subseteq plan.evict)

\* Content c of path p gets its number, its blob and its shape.
Records(p, c, shape, trigger) ==
    /\ Ready
    /\ Start(p, c, shape, trigger)
    /\ trigger \in {"Write", "Delete", "Decline"}
    /\ trigger = "Delete" <=> shape.full = NoBlob /\ shape.delta = NoBlob
    /\ shape.full = NoBlob \/ shape.delta = NoBlob
    /\ shape.full = NoBlob \/ (shape.full = <<c>> /\ shape.depth = 0)
    /\ trigger = "Decline" => shape.full # NoBlob
    /\ shape.delta # NoBlob =>
         LET h == HeadOf(p) IN
         /\ h \in DOMAIN tree
         /\ Read(tree, h) # Unreadable
         /\ shape.delta = DeltaOf(Read(tree, h), c)
         /\ shape.depth = tree[h].depth + 1
         /\ tree[h].depth + 1 <= D_MAX

\* The three operations begin alike: a full snapshot, a delta of the head, or a tombstone.
LEMMA RecordsWhat ==
    ASSUME NEW p \in Paths,
           \/ RecordChange(p) \/ RecordDelete(p)
           \/ \E v \in DOMAIN tree : Decline(p, v)
    PROVE  \E c, shape, trigger : Records(p, c, shape, trigger)
<1>0. \A c : <<c>> # NoBlob   BY DEF NoBlob
<1>1. CASE RecordChange(p)
  <2> DEFINE c == file[p]
             h == HeadOf(p)
             s == Snapshot(h, c)
  <2>1. \/ s.full = <<c>> /\ s.delta = NoBlob /\ s.depth = 0
        \/ /\ s.full = NoBlob /\ h \in DOMAIN tree /\ tree[h].depth + 1 <= D_MAX
           /\ Read(tree, h) # Unreadable /\ s.delta = DeltaOf(Read(tree, h), c)
           /\ s.depth = tree[h].depth + 1
    <3> HIDE DEF h, c
    <3> QED BY DEF Snapshot
  <2>2. \A a, b : DeltaOf(a, b) # NoBlob   BY DEF DeltaOf, NoBlob
  <2>3. Ready /\ Start(p, c, s, "Write")   BY <1>1 DEF RecordChange
  <2> HIDE DEF c, h, s
  <2>4. Records(p, c, s, "Write")   BY <1>0, <2>1, <2>2, <2>3 DEF Records, h
  <2> QED BY <2>4
<1>2. CASE RecordDelete(p)
  <2>1. Tombstone.full = NoBlob /\ Tombstone.delta = NoBlob   BY DEF Tombstone
  <2>2. Records(p, Absent, Tombstone, "Delete")   BY <1>2, <2>1 DEF Records, RecordDelete
  <2> QED BY <2>2
<1>3. ASSUME NEW v \in DOMAIN tree, Decline(p, v)
      PROVE  \E c, shape, trigger : Records(p, c, shape, trigger)
  <2> DEFINE c == Read(tree, v)
  <2>1. Ready /\ Start(p, c, Full(c), "Decline")   BY <1>3 DEF Decline
  <2> HIDE DEF c
  <2>2. Full(c).full = <<c>> /\ Full(c).delta = NoBlob /\ Full(c).depth = 0   BY DEF Full
  <2>3. Records(p, c, Full(c), "Decline")   BY <1>0, <2>1, <2>2 DEF Records
  <2> QED BY <2>3
<1> QED BY <1>1, <1>2, <1>3

\* The operation's node goes into the tree, and perhaps into the table.
Advances ==
    /\ at = "row" /\ at' \in {"idle", "gc", "done"}
    /\ AdvanceHead
    /\ \/ RowFits(op) /\ rows' = With(rows, nextId, NodeOf(op, op.depth)) /\ faults' = faults
       \/ rows' = rows /\ ~RowFits(op) /\ faults' = faults
       \/ rows' = rows /\ faults' = faults + 1
    /\ at' = "done" => op' = op
    /\ UNCHANGED <<wal, refs, seqNo, plan, tasks, truth, evicted, spoilt, crashes>>

\* A node enters the tree and becomes the head, whether or not its row is written.
LEMMA AdvancesWhat == WriteRow \/ RowFails \/ RowRefused => Advances
BY DEF WriteRow, RowFails, RowRefused, Advances, Fail, MaybeRunGc, todo, ghost, durable

\* These steps leave tree, table and heads alone.
LEMMA StillSteps ==
    ASSUME SInv,
           \/ UNCHANGED vars \/ GitCommit \/ Checkpoint
           \/ \E p \in Paths, c \in Contents \cup {Absent} : EditFile(p, c)
           \/ RestoreFile \/ MarkDone \/ LogFails \/ SyncFails \/ RestoreOrMarkFails
           \/ PlanPass \/ GcUnref \/ GcPassEnds
           \/ PassOver \/ FinishRestore \/ FinishMark \/ Recovered
    PROVE  Still
<1> USE DEF memory, durable, todo, ghost
<1>0. NoPlan.promote = {} /\ NoPlan.evict = {}   BY NoPlanFields
<1>1. CASE UNCHANGED vars   BY <1>1 DEF vars, Still
<1>2. CASE GitCommit   BY <1>2 DEF GitCommit, Still
<1>3. CASE Checkpoint   BY <1>3 DEF Checkpoint, Still, Ready, Busy
<1>4. ASSUME NEW p, NEW c, EditFile(p, c) PROVE Still   BY <1>4 DEF EditFile, Still, Busy
<1>5. CASE RestoreFile   BY <1>5 DEF RestoreFile, Still, Busy, Opening
<1>6. CASE MarkDone   BY <1>6 DEF MarkDone, MaybeRunGc, Still, Busy, Opening
<1>7. CASE LogFails \/ SyncFails \/ RestoreOrMarkFails
  BY <1>7 DEF LogFails, SyncFails, RestoreOrMarkFails, Fail, Still, Busy, Opening
<1>8. CASE PlanPass   BY <1>8 DEF PlanPass, Still, Busy, Opening
<1>9. CASE GcUnref
  <2>1. DOMAIN refs' \subseteq DOMAIN refs
    <3>1. refs' = refs \/ refs' = Unref(Head(plan.unref))   BY <1>9 DEF GcUnref
    <3>2. \A b : DOMAIN Unref(b) \subseteq DOMAIN refs   BY DEF Unref, Without
    <3> QED BY <3>1, <3>2
  <2>2. plan'.promote \subseteq plan.promote /\ plan'.evict \subseteq plan.evict
    <3>1. plan' = NoPlan \/ plan' = [plan EXCEPT !.unref = Tail(@)]   BY <1>9 DEF GcUnref
    <3>2. plan = [promote |-> plan.promote, evict |-> plan.evict, unref |-> plan.unref,
                  again |-> plan.again]
      BY DEF SInv, TodoInv
    <3> QED BY <1>0, <3>1, <3>2
  <2> QED BY <1>9, <2>1, <2>2 DEF GcUnref, Still, Busy, Opening
<1>10. CASE GcPassEnds   BY <1>0, <1>10 DEF GcPassEnds, Still, Busy, Opening
<1>11. CASE PassOver   BY <1>11 DEF PassOver, Still, Busy, Opening
<1>12. CASE FinishRestore   BY <1>12 DEF FinishRestore, Still, Busy, Opening
<1>13. CASE FinishMark   BY <1>13 DEF FinishMark, Still, Busy, Opening
<1>14. CASE Recovered   BY <1>14 DEF Recovered, Still, Busy, Opening
<1> QED
  BY <1>1, <1>2, <1>3, <1>4, <1>5, <1>6, <1>7, <1>8, <1>9, <1>10, <1>11, <1>12, <1>13, <1>14

\* Every step is of one of ten kinds.
LEMMA Kinds ==
    ASSUME SInv, [Next]_vars
    PROVE  \/ Still
           \/ \E p \in Paths : \E c, shape, trigger : Records(p, c, shape, trigger)
           \/ CommitEntry \/ Advances
           \/ \E v \in plan.promote : GcPromote(v)
           \/ \E v \in plan.evict : GcDelete(v)
           \/ Dies \/ Open \/ Replay \/ Opened
<1>1. CASE UNCHANGED vars   BY <1>1, StillSteps
<1>2. CASE Next
  BY <1>2, StillSteps, AdvancesWhat, RecordsWhat DEF Next, Dies
<1> QED BY <1>1, <1>2


\* What such a step leaves in tree and table.
LEMMA AdvancedNodes ==
    ASSUME SInv, Advances
    PROVE  /\ nextId \in Nat /\ nextId \notin DOMAIN tree /\ nextId \notin DOMAIN rows
           /\ DOMAIN tree' = DOMAIN tree \cup {nextId}
           /\ \A u \in DOMAIN tree : u \in Nat /\ u < nextId /\ tree'[u] = tree[u]
           /\ LET n == tree'[nextId] IN
              /\ n.path = op.path /\ n.seq = op.seq /\ n.parent = op.parent
              /\ n.full = op.full /\ n.delta = op.delta /\ n.depth = op.depth
              /\ n.trigger = op.trigger
           /\ \/ rows' = rows
              \/ /\ DOMAIN rows' = DOMAIN rows \cup {nextId} /\ rows'[nextId] = tree'[nextId]
                 /\ \A u \in DOMAIN rows : rows'[u] = rows[u]
           /\ DOMAIN heads' = DOMAIN heads \cup {op.path} /\ heads'[op.path] = nextId
           /\ \A p \in DOMAIN heads : p # op.path => heads'[p] = heads[p]
           /\ nextId' = nextId + 1
<1> DEFINE n == NodeOf(op, op.depth)
<1>1. tree' = With(tree, nextId, n) /\ heads' = With(heads, op.path, nextId)
      /\ nextId' = nextId + 1 /\ (rows' = rows \/ rows' = With(rows, nextId, n))
  BY DEF Advances, AdvanceHead
<1>2. /\ n.path = op.path /\ n.seq = op.seq /\ n.parent = op.parent
      /\ n.full = op.full /\ n.delta = op.delta /\ n.depth = op.depth
      /\ n.trigger = op.trigger
  BY DEF NodeOf
<1> HIDE DEF n
<1>3. nextId \in Nat /\ nextId \notin DOMAIN tree
      /\ \A u \in DOMAIN tree : u \in Nat /\ u < nextId
  BY DEF Advances, SInv, NumbersInv, NodesInv, AreNodes
<1>4. nextId \notin DOMAIN rows   BY <1>3 DEF Advances, SInv, NodesInv
<1>5. DOMAIN tree' = DOMAIN tree \cup {nextId} /\ tree'[nextId] = n
      /\ \A u \in DOMAIN tree : tree'[u] = tree[u]
  BY <1>1, <1>3 DEF With
<1>6. \/ rows' = rows
      \/ /\ DOMAIN rows' = DOMAIN rows \cup {nextId} /\ rows'[nextId] = n
         /\ \A u \in DOMAIN rows : rows'[u] = rows[u]
  BY <1>1, <1>4 DEF With
<1>7. DOMAIN heads' = DOMAIN heads \cup {op.path} /\ heads'[op.path] = nextId
      /\ \A p \in DOMAIN heads : p # op.path => heads'[p] = heads[p]
  BY <1>1 DEF With
<1> QED BY <1>1, <1>2, <1>3, <1>4, <1>5, <1>6, <1>7

\* A promotion changes nothing, or makes one node a full snapshot.
LEMMA PromotedNodes ==
    ASSUME SInv, NEW v \in plan.promote, GcPromote(v)
    PROVE  /\ v \in DOMAIN tree /\ at = "evict" /\ at' \in {"evict", "idle"}
           /\ UNCHANGED <<wal, op, seqNo, heads, nextId, tasks, truth, evicted, spoilt,
                          crashes, faults>>
           /\ plan'.promote \subseteq plan.promote \ {v} /\ plan'.evict \subseteq plan.evict
           /\ \/ UNCHANGED <<tree, rows, refs>>
              \/ /\ Read(tree, v) # Unreadable
                 /\ refs' = Put(<<Read(tree, v)>>)
                 /\ DOMAIN tree' = DOMAIN tree
                 /\ \A u \in DOMAIN tree : u # v => tree'[u] = tree[u]
                 /\ LET n == tree'[v] IN
                    /\ n.path = tree[v].path /\ n.seq = tree[v].seq
                    /\ n.parent = tree[v].parent /\ n.full = <<Read(tree, v)>>
                    /\ n.delta = NoBlob /\ n.depth = 0 /\ n.trigger = tree[v].trigger
                 /\ \/ /\ DOMAIN rows' = DOMAIN rows \cup {v} /\ rows'[v] = tree'[v]
                       /\ \A u \in DOMAIN rows : u # v => rows'[u] = rows[u]
                       /\ tree[v].parent = Root \/ tree[v].parent \in DOMAIN rows
                    \/ /\ rows' = rows /\ v \notin DOMAIN rows
                       /\ ~(tree[v].parent = Root \/ tree[v].parent \in DOMAIN rows)
<1> DEFINE n == Promoted(tree[v], Read(tree, v))
<1>0. /\ at = "evict" /\ v \in DOMAIN tree /\ at' \in {"evict", "idle"}
      /\ UNCHANGED <<wal, op, seqNo, heads, nextId, tasks, truth, evicted, spoilt,
                     crashes, faults>>
  BY DEF GcPromote, SInv, TodoInv, ghost
<1>1. plan'.promote \subseteq plan.promote \ {v} /\ plan'.evict \subseteq plan.evict
  <2>1. \/ plan' = NoPlan
        \/ plan' = [plan EXCEPT !.promote = @ \ {v}, !.unref = <<tree[v].delta>>]
    BY DEF GcPromote
  <2>2. plan = [promote |-> plan.promote, evict |-> plan.evict, unref |-> plan.unref,
                again |-> plan.again]
    BY DEF SInv, TodoInv
  <2> QED BY <2>1, <2>2, NoPlanFields
<1>2. CASE Read(tree, v) = Unreadable
  BY <1>0, <1>1, <1>2 DEF GcPromote
<1>3. CASE Read(tree, v) # Unreadable
  <2>1. /\ refs' = Put(n.full) /\ tree' = With(tree, v, n)
        /\ \/ RowFits(n) /\ rows' = With(rows, v, n)
           \/ ~RowFits(n) /\ rows' = rows
    BY <1>3 DEF GcPromote
  <2>2. /\ n.path = tree[v].path /\ n.seq = tree[v].seq
        /\ n.parent = tree[v].parent /\ n.full = <<Read(tree, v)>>
        /\ n.delta = NoBlob /\ n.depth = 0 /\ n.trigger = tree[v].trigger
    BY DEF Promoted
  <2> HIDE DEF n
  <2>3. DOMAIN tree' = DOMAIN tree /\ tree'[v] = n
        /\ \A u \in DOMAIN tree : u # v => tree'[u] = tree[u]
    BY <1>0, <2>1 DEF With
  <2>4. CASE RowFits(n) /\ rows' = With(rows, v, n)
    <3>1. DOMAIN rows' = DOMAIN rows \cup {v} /\ rows'[v] = n
          /\ \A u \in DOMAIN rows : u # v => rows'[u] = rows[u]
      BY <2>4 DEF With
    <3>2. tree[v].parent = Root \/ tree[v].parent \in DOMAIN rows
      BY <2>2, <2>4 DEF RowFits
    <3> QED BY <1>0, <1>1, <1>3, <2>1, <2>2, <2>3, <3>1, <3>2
  <2>5. CASE ~RowFits(n) /\ rows' = rows
    <3>1. ~(tree[v].parent = Root \/ tree[v].parent \in DOMAIN rows)
      BY <2>2, <2>5 DEF RowFits
    <3>2. v \notin DOMAIN rows   BY <1>0, <3>1 DEF SInv, NodesInv
    <3> QED BY <1>0, <1>1, <1>3, <2>1, <2>2, <2>3, <2>5, <3>1, <3>2
  <2> QED BY <2>1, <2>4, <2>5
<1> QED BY <1>2, <1>3

\* A deletion takes one node away and detaches its children.
LEMMA DeletedNodes ==
    ASSUME SInv, NEW v \in plan.evict, GcDelete(v)
    PROVE  /\ v \in DOMAIN tree /\ at = "evict" /\ at' = "evict"
           /\ UNCHANGED <<wal, refs, op, seqNo, nextId, tasks, truth, spoilt, crashes, faults>>
           /\ plan.promote = {} /\ plan'.promote = {} /\ plan'.evict = plan.evict \ {v}
           /\ evicted' = evicted \cup {tree[v].seq}
           /\ DOMAIN tree' = DOMAIN tree \ {v} /\ DOMAIN rows' = DOMAIN rows \ {v}
           /\ \A u \in DOMAIN tree : u # v =>
                /\ tree'[u].path = tree[u].path /\ tree'[u].seq = tree[u].seq
                /\ tree'[u].full = tree[u].full /\ tree'[u].delta = tree[u].delta
                /\ tree'[u].depth = tree[u].depth /\ tree'[u].trigger = tree[u].trigger
                /\ tree'[u].parent = IF tree[u].parent = v THEN Root ELSE tree[u].parent
           /\ \A u \in DOMAIN rows : u # v =>
                /\ rows'[u].path = rows[u].path /\ rows'[u].seq = rows[u].seq
                /\ rows'[u].full = rows[u].full /\ rows'[u].delta = rows[u].delta
                /\ rows'[u].depth = rows[u].depth /\ rows'[u].trigger = rows[u].trigger
                /\ rows'[u].parent = IF rows[u].parent = v THEN Root ELSE rows[u].parent
           /\ heads' = [p \in {q \in DOMAIN heads : heads[q] # v} |-> heads[p]]
<1>0. /\ at = "evict" /\ at' = "evict" /\ v \in DOMAIN tree
      /\ UNCHANGED <<wal, refs, op, seqNo, nextId, tasks, truth, spoilt, crashes, faults>>
      /\ plan.promote = {} /\ evicted' = evicted \cup {tree[v].seq}
      /\ tree' = Removed(tree, v) /\ rows' = Removed(rows, v)
      /\ plan' = [plan EXCEPT !.evict = @ \ {v}, !.unref = BlobsOf(tree[v])]
      /\ heads' = [p \in {q \in DOMAIN heads : heads[q] # v} |-> heads[p]]
  BY DEF GcDelete, SInv, TodoInv
<1>1. plan'.promote = {} /\ plan'.evict = plan.evict \ {v}
  <2>1. plan = [promote |-> plan.promote, evict |-> plan.evict, unref |-> plan.unref,
                again |-> plan.again]
    BY DEF SInv, TodoInv
  <2> QED BY <1>0, <2>1
<1>2. AreNodes(tree) /\ AreNodes(rows)   BY DEF SInv, NodesInv
<1>3. DOMAIN tree' = DOMAIN tree \ {v} /\ DOMAIN rows' = DOMAIN rows \ {v}
  BY <1>0, <1>2, RemovedNodes
<1>4. ASSUME NEW u \in DOMAIN tree, u # v
      PROVE  /\ tree'[u].path = tree[u].path /\ tree'[u].seq = tree[u].seq
             /\ tree'[u].full = tree[u].full /\ tree'[u].delta = tree[u].delta
             /\ tree'[u].depth = tree[u].depth /\ tree'[u].trigger = tree[u].trigger
             /\ tree'[u].parent = IF tree[u].parent = v THEN Root ELSE tree[u].parent
  <2> DEFINE R == Removed(tree, v)
  <2>1. /\ R[u].path = tree[u].path /\ R[u].seq = tree[u].seq
        /\ R[u].full = tree[u].full /\ R[u].delta = tree[u].delta
        /\ R[u].depth = tree[u].depth /\ R[u].trigger = tree[u].trigger
        /\ R[u].parent = IF tree[u].parent = v THEN Root ELSE tree[u].parent
    BY <1>2, <1>4, RemovedNode
  <2>2. tree' = R   BY <1>0
  <2> HIDE DEF R
  <2> QED BY <2>1, <2>2
<1>5. ASSUME NEW u \in DOMAIN rows, u # v
      PROVE  /\ rows'[u].path = rows[u].path /\ rows'[u].seq = rows[u].seq
             /\ rows'[u].full = rows[u].full /\ rows'[u].delta = rows[u].delta
             /\ rows'[u].depth = rows[u].depth /\ rows'[u].trigger = rows[u].trigger
             /\ rows'[u].parent = IF rows[u].parent = v THEN Root ELSE rows[u].parent
  <2> DEFINE R == Removed(rows, v)
  <2>1. /\ R[u].path = rows[u].path /\ R[u].seq = rows[u].seq
        /\ R[u].full = rows[u].full /\ R[u].delta = rows[u].delta
        /\ R[u].depth = rows[u].depth /\ R[u].trigger = rows[u].trigger
        /\ R[u].parent = IF rows[u].parent = v THEN Root ELSE rows[u].parent
    BY <1>2, <1>5, RemovedNode
  <2>2. rows' = R   BY <1>0
  <2> HIDE DEF R
  <2> QED BY <2>1, <2>2
<1> QED BY <1>0, <1>1, <1>3, <1>4, <1>5, Zenon

\* A replayed entry gets the next id, in tree and table.
LEMMA ReplayedNodes ==
    ASSUME SInv, Replay
    PROVE  LET e == Head(tasks) IN
           /\ at = "replay" /\ tasks # <<>> /\ ~HasNode(e) /\ tree = rows /\ tree' = rows'
           /\ e \in Elems(wal) /\ e \in Elems(tasks)
           /\ UNCHANGED <<wal, refs, op, seqNo, heads, plan, truth, evicted, crashes, faults>>
           /\ spoilt' = IF e.seq \in evicted THEN spoilt \cup {"resurrected"} ELSE spoilt
           /\ nextId \in Nat /\ nextId \notin DOMAIN rows
           /\ \A u \in DOMAIN rows : u \in Nat /\ u < nextId
           /\ \/ /\ ~RowFits(e) /\ at' = "failed" /\ tasks' = <<>>
                 /\ UNCHANGED <<tree, rows, nextId>>
              \/ /\ RowFits(e) /\ at' = "replay" /\ tasks' = Tail(tasks)
                 /\ nextId' = nextId + 1
                 /\ DOMAIN rows' = DOMAIN rows \cup {nextId}
                 /\ \A u \in DOMAIN rows : rows'[u] = rows[u]
                 /\ LET n == rows'[nextId] IN
                    /\ n.path = e.path /\ n.seq = e.seq /\ n.parent = e.parent
                    /\ n.full = e.full /\ n.delta = e.delta /\ n.depth = ReplayDepth(e)
                    /\ n.trigger = e.trigger
<1> DEFINE e == Head(tasks)
           n == NodeOf(e, ReplayDepth(e))
<1>0. /\ at = "replay" /\ tasks # <<>> /\ ~HasNode(e)
      /\ UNCHANGED <<wal, refs, op, seqNo, heads, plan, truth, evicted, crashes, faults>>
      /\ spoilt' = IF e.seq \in evicted THEN spoilt \cup {"resurrected"} ELSE spoilt
      /\ \/ /\ RowFits(e)
            /\ tree' = With(tree, nextId, n) /\ rows' = With(rows, nextId, n)
            /\ nextId' = nextId + 1 /\ tasks' = Tail(tasks) /\ at' = "replay"
         \/ /\ ~RowFits(e)
            /\ at' = "failed" /\ tasks' = <<>> /\ UNCHANGED <<tree, rows, nextId>>
  BY ReplayStep
<1>1. e \in Elems(wal) /\ e \in Elems(tasks)   BY <1>0, HeadInLog DEF Opening
<1>2. tree = rows   BY <1>0 DEF SInv, NodesInv
<1>3. nextId \in Nat /\ nextId \notin DOMAIN rows
      /\ \A u \in DOMAIN rows : u \in Nat /\ u < nextId
  BY <1>0, <1>2 DEF SInv, NumbersInv, NodesInv, AreNodes
<1>4. /\ n.path = e.path /\ n.seq = e.seq /\ n.parent = e.parent
      /\ n.full = e.full /\ n.delta = e.delta /\ n.depth = ReplayDepth(e)
      /\ n.trigger = e.trigger
  BY DEF NodeOf
<1> HIDE DEF n, e
<1>5. CASE /\ ~RowFits(e)
           /\ at' = "failed" /\ tasks' = <<>> /\ UNCHANGED <<tree, rows, nextId>>
  BY <1>0, <1>1, <1>2, <1>3, <1>5 DEF e
<1>6. CASE /\ RowFits(e)
           /\ tree' = With(tree, nextId, n) /\ rows' = With(rows, nextId, n)
           /\ nextId' = nextId + 1 /\ tasks' = Tail(tasks) /\ at' = "replay"
  <2>1. DOMAIN rows' = DOMAIN rows \cup {nextId} /\ rows'[nextId] = n
        /\ \A u \in DOMAIN rows : rows'[u] = rows[u]
    BY <1>3, <1>6 DEF With
  <2>2. tree' = rows'   BY <1>2, <1>6
  <2> QED BY <1>0, <1>1, <1>2, <1>3, <1>4, <1>6, <2>1, <2>2 DEF e
<1> QED BY <1>0, <1>5, <1>6

-----------------------------------------------------------------------------
(* Ids, parents and heads, whatever has failed. *)

\* A version has no blob exactly if it records a deletion.
Shaped(n) == n.trigger = "Delete" <=> n.full = NoBlob /\ n.delta = NoBlob

\* The heads are known.
Loaded == at \notin {"down", "replay", "failed"}

\* Ids are positive and grow from parent to child.
Placed(nodes) ==
    \A v \in DOMAIN nodes : /\ v \in Nat /\ v >= 1 /\ Shaped(nodes[v])
                            /\ nodes[v].parent \in Nat /\ nodes[v].parent < v
                            /\ nodes[v].parent = Root \/ nodes[v].parent \in DOMAIN nodes

IdsInv ==
    /\ nextId >= 1
    /\ Placed(tree) /\ Placed(rows)
    /\ NoBlob \notin DOMAIN refs
    /\ faults \in Nat /\ crashes \in Nat
    /\ at \in {"down", "failed"} \cup Opening => crashes > 0

\* The operation under way is newer than the tree, and is what its entry says.
OrderInv ==
    /\ at \in Busy => /\ Shaped(op) /\ op.parent = HeadOf(op.path)
                      /\ op.trigger # "DeclineDone"
                      /\ \A v \in DOMAIN tree : tree[v].seq < op.seq
    /\ at = "log" => \A e \in Elems(wal) : e.seq < op.seq
    /\ at \in {"restore", "row", "done"} =>
         \A e \in Elems(wal) : e.seq = op.seq => e = Entry(op, op.parent, op.trigger)
    /\ \A e \in Elems(wal) : e.trigger # "DeclineDone" => Shaped(e) /\ e.parent \in Nat

\* A head is the newest node of its path, and no victim.
TopInv ==
    /\ \A v \in plan.promote : tree[v].delta # NoBlob
    /\ Loaded =>
         /\ \A v \in DOMAIN tree : tree[v].path \in DOMAIN heads
         /\ \A p \in DOMAIN heads :
              /\ tree[heads[p]].path = p
              /\ heads[p] \notin plan.evict
              /\ \A v \in DOMAIN tree : tree[v].path = p => tree[v].seq <= tree[heads[p]].seq

TreeInv == IdsInv /\ OrderInv /\ TopInv

\* A node under an older one keeps the ids in order.
LEMMA PlacedWith ==
    ASSUME NEW f, NEW g, Placed(f), NEW x \in Nat, x >= 1,
           DOMAIN g = DOMAIN f \cup {x}, \A u \in DOMAIN f : u # x => g[u] = f[u],
           Shaped(g[x]), g[x].parent \in Nat, g[x].parent < x,
           g[x].parent = Root \/ g[x].parent \in DOMAIN f
    PROVE  Placed(g)
BY DEF Placed

\* A deleted node leaves its children without a parent.
LEMMA PlacedWithout ==
    ASSUME NEW f, NEW g, Placed(f), NEW x,
           DOMAIN g = DOMAIN f \ {x},
           \A u \in DOMAIN f : u # x =>
                /\ g[u].full = f[u].full /\ g[u].delta = f[u].delta
                /\ g[u].trigger = f[u].trigger
                /\ g[u].parent = IF f[u].parent = x THEN Root ELSE f[u].parent
    PROVE  Placed(g)
BY DEF Placed, Shaped, Root

\* Storing a blob takes no other one away.
LEMMA PutBlobs ==
    ASSUME NEW b PROVE DOMAIN Put(b) = DOMAIN refs \cup {b}
BY DEF Put, With

\* The log after a step that marks at most.
LEMMA StillLog ==
    ASSUME SInv, Still
    PROVE  /\ \A e \in Elems(wal') :
                e \in Elems(wal) \/ (e.trigger = "DeclineDone" /\ e.parent = Root)
           /\ Elems(wal') # {} => Elems(wal) \subseteq Elems(wal')
<1>1. CASE wal' = wal   BY <1>1
<1>2. CASE wal' = <<>>   BY <1>2, EmptySeq
<1>3. ASSUME NEW e, wal' = Append(wal, Entry(e, Root, "DeclineDone"))
      PROVE  /\ \A d \in Elems(wal') :
                  d \in Elems(wal) \/ (d.trigger = "DeclineDone" /\ d.parent = Root)
             /\ Elems(wal') # {} => Elems(wal) \subseteq Elems(wal')
  BY <1>3, AppendSeq, EntryFields DEF SInv, NumbersInv
<1> QED BY <1>1, <1>2, <1>3 DEF Still

\* A pass promotes deltas of the tree, and its victims are not protected.
LEMMA PlanSpares ==
    ASSUME SInv, PlanPass
    PROVE  /\ \A v \in plan'.promote : v \in DOMAIN tree /\ tree[v].delta # NoBlob
           /\ \A v \in plan'.evict : v \in DOMAIN tree /\ v \notin Protected
<1>1. \/ plan' = plan /\ plan = NoPlan
      \/ plan'.promote = ToPromote /\ plan'.evict = Victims
  BY DEF PlanPass, SInv, TodoInv
<1>2. \A v \in ToPromote : v \in DOMAIN tree /\ tree[v].delta # NoBlob   BY DEF ToPromote
<1>3. \A v \in Victims : v \in DOMAIN tree /\ v \notin Protected   BY DEF Victims, Candidates
<1> HIDE DEF ToPromote, Victims
<1> QED BY <1>1, <1>2, <1>3, NoPlanFields

\* Nothing is recorded yet.
LEMMA TInit == Init => TreeInv
<1> SUFFICES ASSUME Init PROVE TreeInv   OBVIOUS
<1>1. DOMAIN tree = {} /\ DOMAIN rows = {} /\ DOMAIN refs = {} /\ DOMAIN heads = {}
      /\ at = "idle" /\ nextId = 1 /\ faults = 0 /\ crashes = 0
      /\ Elems(wal) = {} /\ plan.promote = {} /\ plan.evict = {}
  BY EmptySeq, NoPlanFields DEF Init
<1> QED BY <1>1 DEF TreeInv, IdsInv, Placed, OrderInv, TopInv, Busy, Opening

\* One lemma per kind of step: the tree stays in order, and the heads are the newest.
LEMMA TStill ==
    ASSUME SInv, TreeInv, Still
    PROVE  TreeInv'
<1> USE DEF TreeInv
<1>1. UNCHANGED <<tree, rows, heads, nextId, crashes>> /\ DOMAIN refs' \subseteq DOMAIN refs
      /\ faults' \in Nat
  BY DEF Still, IdsInv
<1>2. IdsInv'   BY <1>1 DEF IdsInv, Still, Opening, Shaped
<1>3. OrderInv'
  <2>1. at' \in Busy => at \in Busy /\ op' = op   BY DEF Still, Busy
  <2>2. at' = "log" => at = "log" /\ UNCHANGED <<op, wal>>   BY DEF Still, Busy
  <2>3. at' \in {"restore", "row", "done"} =>
          at \in {"restore", "row", "done"} /\ UNCHANGED <<op, wal>>
    BY DEF Still, Busy
  <2>4. HeadOf(op.path)' = HeadOf(op'.path)   BY <1>1 DEF HeadOf
  <2> QED BY <1>1, <2>1, <2>2, <2>3, <2>4, StillLog DEF OrderInv, Shaped
<1>4. TopInv'
  <2>1. Loaded' => Loaded   BY DEF Still, Loaded
  <2>2. CASE plan'.promote \subseteq plan.promote /\ plan'.evict \subseteq plan.evict
    BY <1>1, <2>1, <2>2 DEF TopInv
  <2>3. CASE PlanPass
    <3>1. ASSUME NEW p \in DOMAIN heads PROVE heads[p] \notin plan'.evict
      <4>1. heads[p] \in DOMAIN tree /\ heads[p] \in Nat   BY DEF SInv, NodesInv, AreNodes
      <4> QED BY <2>3, <4>1, HeadsProtected, PlanSpares
    <3> QED BY <1>1, <2>1, <2>3, <3>1, PlanSpares DEF TopInv
  <2> QED BY <2>2, <2>3 DEF Still
<1> QED BY <1>2, <1>3, <1>4

\* A version that begins has the newest number.
LEMMA TRecord ==
    ASSUME SInv, TreeInv, NEW p \in Paths, NEW c, NEW shape, NEW trigger,
           Records(p, c, shape, trigger)
    PROVE  TreeInv'
<1> USE DEF TreeInv
<1>1. /\ at = "idle" /\ at' = "log"
      /\ UNCHANGED <<wal, rows, tree, heads, nextId, plan, crashes, faults>>
      /\ op' = [path |-> p, seq |-> seqNo, parent |-> HeadOf(p), full |-> shape.full,
                delta |-> shape.delta, depth |-> shape.depth, trigger |-> trigger]
      /\ refs' = refs \/ \E b : b # NoBlob /\ refs' = Put(b)
  BY DEF Records, Start, Ready, todo
<1>2. /\ op'.path = p /\ op'.seq = seqNo /\ op'.parent = HeadOf(p) /\ op'.full = shape.full
      /\ op'.delta = shape.delta /\ op'.trigger = trigger
  BY <1>1
<1>3. NoBlob \notin DOMAIN refs'   BY <1>1, PutBlobs DEF IdsInv
<1>4. IdsInv'   BY <1>1, <1>3 DEF IdsInv, Opening, Shaped
<1>5. OrderInv'
  <2>1. \A v \in DOMAIN tree : tree[v].seq < seqNo   BY <1>1 DEF SInv, NumbersInv
  <2>2. \A e \in Elems(wal) : e.seq < seqNo   BY <1>1 DEF SInv, NumbersInv
  <2>3. HeadOf(op.path)' = HeadOf(p)   BY <1>1, <1>2 DEF HeadOf
  <2>4. Shaped(op)' /\ op'.trigger # "DeclineDone"   BY <1>2 DEF Records, Shaped
  <2> QED BY <1>1, <1>2, <2>1, <2>2, <2>3, <2>4 DEF OrderInv, Busy, Shaped
<1>6. TopInv'   BY <1>1 DEF TopInv, Loaded
<1> QED BY <1>4, <1>5, <1>6

\* An entry is of the version under way.
LEMMA TCommit ==
    ASSUME SInv, TreeInv, CommitEntry
    PROVE  TreeInv'
<1> USE DEF TreeInv
<1> DEFINE e == Entry(op, op.parent, op.trigger)
<1>1. /\ at = "log" /\ at' \in {"restore", "row"}
      /\ UNCHANGED <<rows, tree, heads, nextId, plan, refs, op, crashes, faults>>
  BY DEF CommitEntry, memory, todo, ghost
<1>2. Elems(wal') = Elems(wal) \cup {e}   BY AppendSeq DEF SInv, NumbersInv, CommitEntry
<1>3. /\ e.seq = op.seq /\ e.trigger = op.trigger /\ e.full = op.full /\ e.delta = op.delta
      /\ e.parent = op.parent
  BY EntryFields
<1>4. e = Entry(op', op'.parent, op'.trigger)   BY <1>1
<1> HIDE DEF e
<1>5. IdsInv'   BY <1>1 DEF IdsInv, Opening, Shaped
<1>6. OrderInv'
  <2>1. \A d \in Elems(wal) : d.seq # op.seq
    BY <1>1 DEF OrderInv, SInv, NumbersInv, OpInv, Busy
  <2>2. e.parent \in Nat
    BY <1>1, <1>3 DEF SInv, OpInv, NodesInv, AreNodes, Busy, Root
  <2>3. Shaped(e)   BY <1>1, <1>3 DEF OrderInv, Shaped, Busy
  <2>4. HeadOf(op.path)' = HeadOf(op.path)   BY <1>1 DEF HeadOf
  <2>5. \A d \in Elems(wal') : d.seq = op'.seq => d = e   BY <1>1, <1>2, <2>1
  <2>6. at' # "log" /\ at \in Busy   BY <1>1 DEF Busy
  <2> QED BY <1>1, <1>2, <1>4, <2>2, <2>3, <2>4, <2>5, <2>6 DEF OrderInv, Shaped
<1>7. TopInv'   BY <1>1 DEF TopInv, Loaded
<1> QED BY <1>5, <1>6, <1>7

\* The new node is the newest of its path.
LEMMA TAdvance ==
    ASSUME SInv, TreeInv, Advances
    PROVE  TreeInv'
<1> USE DEF TreeInv
<1>0. /\ at = "row" /\ at' \in {"idle", "gc", "done"}
      /\ UNCHANGED <<wal, refs, plan, crashes>>
      /\ at' = "done" => op' = op
      /\ faults' = faults \/ faults' = faults + 1
  BY DEF Advances
<1>a. at \in Busy   BY <1>0 DEF Busy
<1>b. plan.promote = {} /\ plan.evict = {}   BY <1>0, NoPlanFields DEF SInv, TodoInv
<1>1. op.parent = Root \/ op.parent \in DOMAIN tree   BY <1>a DEF SInv, OpInv
<1>2. op.parent \in Nat /\ op.parent < nextId
  BY <1>1, AdvancedNodes DEF IdsInv, Root
<1>3. IdsInv'
  <2>1. nextId' >= 1 /\ faults' \in Nat /\ nextId >= 1   BY <1>0, AdvancedNodes DEF IdsInv
  <2>2. tree'[nextId].parent = op.parent /\ Shaped(tree'[nextId])
    BY <1>a, AdvancedNodes DEF OrderInv, Shaped
  <2>3. Placed(tree')
    BY <1>1, <1>2, <2>1, <2>2, AdvancedNodes, PlacedWith DEF IdsInv
  <2>4. Placed(rows')
    <3>1. CASE rows' = rows   BY <3>1 DEF IdsInv
    <3>2. CASE rows' # rows
      <4>1. op.parent = Root \/ op.parent \in DOMAIN rows   BY <3>2 DEF Advances, RowFits
      <4> QED BY <1>2, <2>1, <2>2, <3>2, <4>1, AdvancedNodes, PlacedWith DEF IdsInv
    <3> QED BY <3>1, <3>2
  <2>5. at' \notin {"down", "failed"} \cup Opening   BY <1>0 DEF Opening
  <2> QED BY <1>0, <2>1, <2>3, <2>4, <2>5 DEF IdsInv
<1>4. OrderInv'   BY <1>0 DEF OrderInv, Busy, Shaped
<1>5. TopInv'
  <2>1. \A p \in DOMAIN heads : heads[p] \in DOMAIN tree   BY DEF SInv, NodesInv
  <2>2. op.path \in Paths /\ op.seq \in Int   BY <1>a, BoundsAssumption DEF SInv, OpInv
  <2>3. \A v \in DOMAIN tree : tree[v].seq < op.seq /\ tree[v].seq \in Int
    BY <1>a, BoundsAssumption DEF OrderInv, SInv, NodesInv, AreNodes, IsNode
  <2>4. Loaded   BY <1>0 DEF Loaded
  <2>5. \A v \in DOMAIN tree' : tree'[v].path \in DOMAIN heads'
    BY <2>4, AdvancedNodes DEF TopInv
  <2>6. ASSUME NEW p \in DOMAIN heads'
        PROVE  /\ tree'[heads'[p]].path = p
               /\ \A v \in DOMAIN tree' : tree'[v].path = p => tree'[v].seq <= tree'[heads'[p]].seq
    <3>1. CASE p = op.path
      BY <3>1, <2>2, <2>3, AdvancedNodes
    <3>2. CASE p # op.path
      <4>1. p \in DOMAIN heads /\ heads'[p] = heads[p] /\ heads[p] \in DOMAIN tree
        BY <2>1, <3>2, AdvancedNodes
      <4> QED BY <2>4, <3>2, <4>1, AdvancedNodes DEF TopInv
    <3> QED BY <3>1, <3>2
  <2> QED BY <1>0, <1>b, <2>5, <2>6 DEF TopInv
<1> QED BY <1>3, <1>4, <1>5

\* A promoted node stays where it is.
LEMMA TPromote ==
    ASSUME SInv, TreeInv, NEW v \in plan.promote, GcPromote(v)
    PROVE  TreeInv'
<1> USE DEF TreeInv
<1>0. /\ at = "evict" /\ at' \in {"evict", "idle"} /\ v \in DOMAIN tree
      /\ UNCHANGED <<wal, op, heads, nextId, crashes, faults>>
      /\ plan'.promote \subseteq plan.promote \ {v} /\ plan'.evict \subseteq plan.evict
  BY PromotedNodes
<1>1. /\ DOMAIN tree' = DOMAIN tree
      /\ \A u \in DOMAIN tree :
           /\ tree'[u].path = tree[u].path /\ tree'[u].seq = tree[u].seq
           /\ tree'[u].parent = tree[u].parent
           /\ u # v => tree'[u] = tree[u]
  BY PromotedNodes
<1>2. Shaped(tree'[v])
  <2>1. CASE UNCHANGED tree   BY <1>0, <2>1 DEF IdsInv, Placed
  <2>2. CASE tree'[v].full = <<Read(tree, v)>> /\ tree'[v].trigger = tree[v].trigger
    <3>1. tree[v].delta # NoBlob /\ Shaped(tree[v])   BY <1>0 DEF TopInv, IdsInv, Placed
    <3>2. <<Read(tree, v)>> # NoBlob   BY DEF NoBlob
    <3> QED BY <2>2, <3>1, <3>2 DEF Shaped
  <2> QED BY <2>1, <2>2, PromotedNodes
<1>3. /\ v \in DOMAIN rows => tree[v] = rows[v]
      /\ DOMAIN rows' \subseteq DOMAIN rows \cup {v}
      /\ \A u \in DOMAIN rows' : u # v => u \in DOMAIN rows /\ rows'[u] = rows[u]
      /\ v \in DOMAIN rows' => rows'[v] = tree'[v]
  <2>1. v \in DOMAIN rows => tree[v] = rows[v]   BY <1>0 DEF SInv, NodesInv
  <2> QED BY <2>1, PromotedNodes
<1>4. NoBlob \notin DOMAIN refs'
  <2>1. refs' = refs \/ refs' = Put(<<Read(tree, v)>>)   BY PromotedNodes
  <2>2. <<Read(tree, v)>> # NoBlob   BY DEF NoBlob
  <2> QED BY <2>1, <2>2, PutBlobs DEF IdsInv
<1>5. IdsInv'
  <2>1. Placed(tree')   BY <1>1, <1>2 DEF IdsInv, Placed
  <2>2. Placed(rows')
    <3>1. ASSUME v \in DOMAIN rows' PROVE tree[v].parent = Root \/ tree[v].parent \in DOMAIN rows
      <4>1. CASE v \in DOMAIN rows   BY <1>3, <4>1 DEF IdsInv, Placed
      <4>2. CASE v \notin DOMAIN rows   BY <3>1, <4>2, PromotedNodes
      <4> QED BY <4>1, <4>2
    <3>2. DOMAIN rows \subseteq DOMAIN rows'   BY PromotedNodes
    <3>3. v \in Nat /\ v >= 1 /\ tree'[v].parent = tree[v].parent
          /\ tree[v].parent \in Nat /\ tree[v].parent < v
      BY <1>0, <1>1 DEF IdsInv, Placed
    <3> QED BY <1>2, <1>3, <3>1, <3>2, <3>3 DEF IdsInv, Placed
  <2> QED BY <1>0, <1>4, <2>1, <2>2 DEF IdsInv, Opening
<1>6. OrderInv'   BY <1>0 DEF OrderInv, Busy, Shaped
<1>7. TopInv'
  <2>1. \A p \in DOMAIN heads : heads[p] \in DOMAIN tree   BY DEF SInv, NodesInv
  <2>2. \A u \in plan'.promote : tree'[u].delta # NoBlob
    BY <1>0, <1>1 DEF TopInv, SInv, TodoInv
  <2> QED BY <1>0, <1>1, <2>1, <2>2 DEF TopInv, Loaded
<1> QED BY <1>5, <1>6, <1>7

\* No head is a victim.
LEMMA TDelete ==
    ASSUME SInv, TreeInv, NEW v \in plan.evict, GcDelete(v)
    PROVE  TreeInv' /\ DOMAIN heads' = DOMAIN heads /\ \A p \in DOMAIN heads : heads'[p] = heads[p]
<1> USE DEF TreeInv
<1>0. /\ at = "evict" /\ at' = "evict"
      /\ UNCHANGED <<wal, refs, op, nextId, crashes, faults>>
      /\ plan'.promote = {} /\ plan'.evict = plan.evict \ {v}
  BY DeletedNodes
<1>1. DOMAIN heads' = DOMAIN heads /\ \A p \in DOMAIN heads : heads'[p] = heads[p]
  <2>1. \A p \in DOMAIN heads : heads[p] # v   BY <1>0 DEF TopInv, Loaded
  <2>2. {q \in DOMAIN heads : heads[q] # v} = DOMAIN heads   BY <2>1
  <2>3. heads' = [p \in DOMAIN heads |-> heads[p]]   BY <2>2, DeletedNodes
  <2> QED BY <2>3
<1>2. IdsInv'
  <2>1. Placed(tree')
    <3>1. /\ DOMAIN tree' = DOMAIN tree \ {v}
          /\ \A u \in DOMAIN tree : u # v =>
               /\ tree'[u].full = tree[u].full /\ tree'[u].delta = tree[u].delta
               /\ tree'[u].trigger = tree[u].trigger
               /\ tree'[u].parent = IF tree[u].parent = v THEN Root ELSE tree[u].parent
      BY DeletedNodes
    <3>2. Placed(tree)   BY DEF IdsInv
    <3> QED BY <3>1, <3>2, PlacedWithout
  <2>2. Placed(rows')
    <3>1. /\ DOMAIN rows' = DOMAIN rows \ {v}
          /\ \A u \in DOMAIN rows : u # v =>
               /\ rows'[u].full = rows[u].full /\ rows'[u].delta = rows[u].delta
               /\ rows'[u].trigger = rows[u].trigger
               /\ rows'[u].parent = IF rows[u].parent = v THEN Root ELSE rows[u].parent
      BY DeletedNodes
    <3>2. Placed(rows)   BY DEF IdsInv
    <3> QED BY <3>1, <3>2, PlacedWithout
  <2> QED BY <1>0, <2>1, <2>2 DEF IdsInv, Opening
<1>3. OrderInv'   BY <1>0 DEF OrderInv, Busy, Shaped
<1>4. TopInv'
  <2>1. \A p \in DOMAIN heads : heads[p] \in DOMAIN tree /\ heads[p] # v
    BY <1>0 DEF SInv, NodesInv, TopInv, Loaded
  <2>2. \A u \in DOMAIN tree' : /\ u \in DOMAIN tree /\ tree'[u].path = tree[u].path
                                /\ tree'[u].seq = tree[u].seq
    BY DeletedNodes
  <2>3. \A p \in DOMAIN heads : heads[p] \in DOMAIN tree'   BY <2>1, DeletedNodes
  <2> QED BY <1>0, <1>1, <2>1, <2>2, <2>3 DEF TopInv, Loaded
<1> QED BY <1>1, <1>2, <1>3, <1>4

\* What is left is the table.
LEMMA TDies ==
    ASSUME SInv, TreeInv, Dies
    PROVE  TreeInv'
<1> USE DEF TreeInv
<1>1. /\ at' = "down" /\ UNCHANGED <<wal, faults>> /\ crashes' = crashes + 1
      /\ nextId' = 1 /\ tree' = <<>> /\ heads' = <<>> /\ plan' = NoPlan
      /\ Loosened(rows, rows')
      /\ refs' = refs \/ \E c : refs' = Put(<<c>>)
  BY DiesWhat
<1>2. DOMAIN tree' = {}   BY <1>1
<1>3. Placed(tree')   BY <1>2 DEF Placed
<1>4. Placed(rows')   BY <1>1 DEF IdsInv, Placed, Shaped, Loosened, Root
<1>5. NoBlob \notin DOMAIN refs'
  <2>1. \A c : <<c>> # NoBlob   BY DEF NoBlob
  <2>2. NoBlob \notin DOMAIN refs   BY DEF IdsInv
  <2>3. \A c : DOMAIN Put(<<c>>) = DOMAIN refs \cup {<<c>>}   BY PutBlobs
  <2>4. ASSUME NEW c, refs' = Put(<<c>>) PROVE NoBlob \notin DOMAIN refs'
    BY <2>1, <2>2, <2>3, <2>4
  <2> QED BY <1>1, <2>2, <2>4
<1>6. IdsInv'   BY <1>1, <1>3, <1>4, <1>5 DEF IdsInv
<1>7. OrderInv'   BY <1>1 DEF OrderInv, Busy, Shaped
<1>8. TopInv'   BY <1>1, NoPlanFields DEF TopInv, Loaded
<1> QED BY <1>6, <1>7, <1>8

\* The tree is the table again.
LEMMA TOpen ==
    ASSUME SInv, TreeInv, Open
    PROVE  TreeInv'
<1> USE DEF TreeInv
<1>1. /\ at = "down" /\ at' = "replay" /\ UNCHANGED <<wal, rows, refs, faults, crashes, plan>>
      /\ tree' = rows /\ nextId' = MaxOf(DOMAIN rows) + 1
  BY DEF Open, durable, ghost
<1>2. MaxOf(DOMAIN rows) \in Nat
  <2>1. PICK n \in Nat : \A v \in DOMAIN rows : v <= n   BY DEF SInv, NumbersInv
  <2>2. DOMAIN rows \subseteq Nat   BY DEF SInv, NodesInv, AreNodes
  <2> QED BY <2>1, <2>2, MaxOfBounds
<1>3. nextId' >= 1   BY <1>1, <1>2
<1>4. IdsInv'   BY <1>1, <1>3 DEF IdsInv
<1>5. OrderInv'   BY <1>1 DEF OrderInv, Busy, Shaped
<1>6. TopInv'   BY <1>1, NoPlanFields DEF TopInv, Loaded, SInv, TodoInv
<1> QED BY <1>4, <1>5, <1>6

\* A replayed version gets an id above all rows.
LEMMA TReplay ==
    ASSUME SInv, TreeInv, Replay
    PROVE  TreeInv'
<1> USE DEF TreeInv
<1> DEFINE e == Head(tasks)
<1>1. /\ at = "replay" /\ UNCHANGED <<wal, refs, faults, crashes, plan>>
      /\ tree' = rows' /\ e \in Elems(wal) /\ e.trigger # "DeclineDone"
      /\ nextId \in Nat /\ \A u \in DOMAIN rows : u < nextId
  BY ReplayedNodes DEF HasNode
<1>2. plan.promote = {}   BY <1>1, NoPlanFields DEF SInv, TodoInv
<1>3. crashes > 0 /\ nextId >= 1   BY <1>1 DEF IdsInv, Opening
<1>4. CASE at' = "failed" /\ UNCHANGED <<tree, rows, nextId>>
  <2>1. IdsInv'   BY <1>1, <1>3, <1>4 DEF IdsInv
  <2>2. OrderInv'   BY <1>1, <1>4 DEF OrderInv, Busy, Shaped
  <2>3. TopInv'   BY <1>1, <1>2, <1>4 DEF TopInv, Loaded
  <2> QED BY <2>1, <2>2, <2>3
<1>5. CASE /\ RowFits(e) /\ at' = "replay" /\ nextId' = nextId + 1
           /\ DOMAIN rows' = DOMAIN rows \cup {nextId}
           /\ \A u \in DOMAIN rows : rows'[u] = rows[u]
           /\ LET n == rows'[nextId] IN
              /\ n.parent = e.parent /\ n.full = e.full /\ n.delta = e.delta
              /\ n.trigger = e.trigger
  <2>1. Shaped(e)   BY <1>1 DEF OrderInv
  <2>2. Shaped(rows'[nextId])   BY <1>5, <2>1 DEF Shaped
  <2>3. (e.parent = Root \/ e.parent \in DOMAIN rows) /\ e.parent \in Nat /\ e.parent < nextId
    BY <1>1, <1>3, <1>5 DEF RowFits, OrderInv, Root
  <2>4. Placed(rows')   BY <1>1, <1>3, <1>5, <2>2, <2>3, PlacedWith DEF IdsInv
  <2>5. IdsInv'   BY <1>1, <1>3, <1>5, <2>4 DEF IdsInv
  <2>6. OrderInv'   BY <1>1, <1>5 DEF OrderInv, Busy, Shaped
  <2>7. TopInv'   BY <1>1, <1>2, <1>5 DEF TopInv, Loaded
  <2> QED BY <2>5, <2>6, <2>7
<1> QED BY <1>4, <1>5, ReplayedNodes

\* The heads are the newest rows.
LEMMA TOpened ==
    ASSUME SInv, TreeInv, Opened
    PROVE  TreeInv'
<1> USE DEF TreeInv
<1>1. /\ at = "replay" /\ at' = "recover" /\ heads' = NewestHeads(tree)
      /\ UNCHANGED <<wal, rows, refs, tree, nextId, faults, crashes, plan>>
  BY DEF Opened, durable
<1>2. plan.promote = {} /\ plan.evict = {}   BY <1>1, NoPlanFields DEF SInv, TodoInv
<1>3. IdsInv'   BY <1>1 DEF IdsInv, Opening
<1>4. OrderInv'   BY <1>1 DEF OrderInv, Busy, Shaped
<1>5. AreNodes(tree)   BY DEF SInv, NodesInv
<1>6. TopInv'   BY <1>1, <1>2, <1>5, NewestIsThere DEF TopInv
<1> QED BY <1>3, <1>4, <1>6

\* Every step keeps the tree in order.
LEMMA TNext == SInv /\ TreeInv /\ [Next]_vars => TreeInv'
<1> SUFFICES ASSUME SInv, TreeInv, [Next]_vars PROVE TreeInv'   OBVIOUS
<1> QED
  BY Kinds, TStill, TRecord, TCommit, TAdvance, TPromote, TDelete, TDies, TOpen, TReplay,
     TOpened

\* The tree is in order in every state.
LEMMA TInvariance == Spec => []TreeInv
<1>1. SInv /\ TreeInv /\ [Next]_vars => (SInv /\ TreeInv)'   BY SNext, TNext
<1> QED BY <1>1, SInit, TInit, PTL DEF Spec

-----------------------------------------------------------------------------
(* Reading. *)

\* read_node_content with at most n more deltas, f being the shorter readings.
Look(f, nodes, n) == [u \in Nat |->
    IF u \notin DOMAIN nodes THEN Unreadable
    ELSE IF nodes[u].full # NoBlob
    THEN IF nodes[u].full \in DOMAIN refs THEN nodes[u].full[1] ELSE Unreadable
    ELSE IF nodes[u].delta \notin DOMAIN refs \/ n = 0 THEN Unreadable
    ELSE Applied(nodes[u].delta, f[n - 1][nodes[u].parent])]

AreLooks(f, nodes, n) == f = [m \in 0..n |-> Look(f, nodes, m)]

\* read_node_content's recursion is defined to any depth: look at the least one without.
LEMMA LooksExist == \A nodes : \A n \in Nat : \E f : AreLooks(f, nodes, n)
<1> SUFFICES ASSUME NEW nodes PROVE \A n \in Nat : \E f : AreLooks(f, nodes, n)   OBVIOUS
<1> DEFINE T == {n \in Nat : \A f : ~AreLooks(f, nodes, n)}
<1> SUFFICES ASSUME T # {} PROVE FALSE   OBVIOUS
<1>1. PICK n \in T : \A m \in T : n <= m   BY LeastNumber
<1>2. n # 0
  <2> SUFFICES ASSUME n = 0 PROVE FALSE   OBVIOUS
  <2> DEFINE g == [m \in 0..0 |-> Look(<<>>, nodes, 0)]
  <2>1. Look(g, nodes, 0) = Look(<<>>, nodes, 0)   BY DEF Look
  <2>2. g = [m \in 0..0 |-> Look(g, nodes, m)]
    <3>1. \A m \in 0..0 : g[m] = Look(g, nodes, m)
      <4> SUFFICES ASSUME NEW m \in 0..0 PROVE g[m] = Look(g, nodes, m)   OBVIOUS
      <4>1. m = 0   OBVIOUS
      <4>2. g[m] = Look(<<>>, nodes, 0)   OBVIOUS
      <4> HIDE DEF g
      <4> QED BY <4>1, <4>2, <2>1
    <3> QED BY <3>1
  <2> QED BY <2>2 DEF AreLooks
<1>3. n - 1 \in Nat /\ n - 1 \notin T   BY <1>1, <1>2
<1>4. PICK f : AreLooks(f, nodes, n - 1)   BY <1>3
<1> DEFINE g == [m \in 0..n |-> IF m = n THEN Look(f, nodes, n) ELSE f[m]]
<1>5. \A m \in 0..n : g[m] = Look(g, nodes, m)
  <2> SUFFICES ASSUME NEW m \in 0..n PROVE g[m] = Look(g, nodes, m)   OBVIOUS
  <2>1. \A k \in 0..(n - 1) : g[k] = f[k]   BY <1>3
  <2>2. m # 0 => g[m - 1] = f[m - 1]   BY <1>3, <2>1
  <2>3. Look(g, nodes, m) = Look(f, nodes, m)
    <3> HIDE DEF g
    <3> QED BY <2>2 DEF Look
  <2>4. CASE m = n
    <3>1. g[m] = Look(f, nodes, n)   BY <2>4
    <3> QED BY <2>3, <2>4, <3>1
  <2>5. CASE m # n
    <3>1. m \in 0..(n - 1)   BY <1>3, <2>5
    <3>2. f[m] = Look(f, nodes, m)   BY <1>4, <3>1 DEF AreLooks
    <3> QED BY <2>1, <2>3, <3>1, <3>2
  <2> QED BY <2>4, <2>5
<1>6. AreLooks(g, nodes, n)   BY <1>5 DEF AreLooks
<1> QED BY <1>6

\* Read is that recursion, D_MAX deep.
LEMMA ReadIs ==
    ASSUME NEW nodes
    PROVE  \E f : AreLooks(f, nodes, D_MAX) /\ \A v : Read(nodes, v) = f[D_MAX][v]
<1>0. D_MAX \in Nat   BY BoundsAssumption
<1> DEFINE P(f) == f = [left \in 0..D_MAX |-> [u \in Nat |->
          IF u \notin DOMAIN nodes THEN Unreadable
          ELSE IF nodes[u].full # NoBlob
          THEN IF nodes[u].full \in DOMAIN refs THEN nodes[u].full[1] ELSE Unreadable
          ELSE IF nodes[u].delta \notin DOMAIN refs \/ left = 0 THEN Unreadable
          ELSE Applied(nodes[u].delta, f[left - 1][nodes[u].parent])]]
<1>1. \E f : P(f)
  <2>1. PICK f : AreLooks(f, nodes, D_MAX)   BY <1>0, LooksExist
  <2> QED BY <2>1 DEF AreLooks, Look
<1>2. P(CHOOSE f : P(f))   BY <1>1
<1>3. \A v : Read(nodes, v) = (CHOOSE f : P(f))[D_MAX][v]   BY DEF Read
<1>4. AreLooks(CHOOSE f : P(f), nodes, D_MAX)   BY <1>2 DEF AreLooks, Look
<1> QED BY <1>3, <1>4

-----------------------------------------------------------------------------
(* What the versions hold. *)

\* A full snapshot is of what was recorded, tr being the record.
FullRight(tr, n) == n.full = NoBlob \/ n.full = <<tr[n.seq]>>

\* A delta leads from what n recorded to what e did.
Fits(tr, e, n) ==
    e.delta # NoBlob => tr[n.seq] # Unreadable /\ e.delta = DeltaOf(tr[n.seq], tr[e.seq])

Right(tr, nodes) ==
    \A v \in DOMAIN nodes :
        /\ FullRight(tr, nodes[v])
        /\ nodes[v].parent \in DOMAIN nodes => Fits(tr, nodes[v], nodes[nodes[v].parent])

\* A delta leads from the content it was made for to the one it was made of.
LEMMA AppliedFits ==
    ASSUME NEW from, NEW to
    PROVE  /\ Applied(DeltaOf(from, to), Unreadable) = Unreadable
           /\ from # Unreadable => Applied(DeltaOf(from, to), from) = to
<1>1. Applied(DeltaOf(from, to), Unreadable) = Unreadable   BY DEF Applied
<1>2. ASSUME from # Unreadable PROVE Applied(DeltaOf(from, to), from) = to
  <2>1. CASE from = to   BY <1>2, <2>1 DEF Applied, DeltaOf
  <2>2. CASE from # to
    <3>1. DeltaOf(from, to) = <<from, to>> /\ <<from, to>> # <<"=", "=">>
      BY <2>2 DEF DeltaOf
    <3> QED BY <1>2, <3>1 DEF Applied
  <2> QED BY <2>1, <2>2
<1> QED BY <1>1, <1>2

\* Nodes that are right are never read as something else.
LEMMA ReadRight ==
    ASSUME NEW nodes, Right(truth, nodes), NoBlob \notin DOMAIN refs,
           NEW v \in DOMAIN nodes, DOMAIN nodes \subseteq Nat,
           \A u \in DOMAIN nodes : nodes[u].parent \in Nat
    PROVE  Read(nodes, v) \in {Unreadable, truth[nodes[v].seq]}
<1>0. D_MAX \in Nat   BY BoundsAssumption
<1>1. PICK f : AreLooks(f, nodes, D_MAX) /\ \A u : Read(nodes, u) = f[D_MAX][u]   BY ReadIs
<1>2. \A m \in 0..D_MAX : f[m] = Look(f, nodes, m)   BY <1>1 DEF AreLooks
<1> DEFINE Bad(m) == \E u \in DOMAIN nodes : f[m][u] \notin {Unreadable, truth[nodes[u].seq]}
           T == {m \in 0..D_MAX : Bad(m)}
<1> SUFFICES ASSUME T # {} PROVE FALSE   BY <1>0, <1>1
<1>3. T \subseteq Nat   BY <1>0
<1>4. PICK m \in T : \A k \in T : m <= k
  <2> HIDE DEF T
  <2> QED BY <1>3, LeastNumber
<1>5. PICK u \in DOMAIN nodes : f[m][u] \notin {Unreadable, truth[nodes[u].seq]}   BY <1>4
<1>6. m # 0 => m - 1 \in 0..D_MAX /\ m - 1 \notin T   BY <1>0, <1>3, <1>4
<1>7. m # 0 => \A w \in DOMAIN nodes : f[m - 1][w] \in {Unreadable, truth[nodes[w].seq]}
  BY <1>6
<1>8. f[m][u] = Look(f, nodes, m)[u] /\ u \in Nat /\ m \in 0..D_MAX   BY <1>2, <1>4
<1> HIDE DEF T
<1>9. FullRight(truth, nodes[u])   BY DEF Right
<1>10. nodes[u].full = NoBlob
  <2> SUFFICES ASSUME nodes[u].full # NoBlob PROVE FALSE   OBVIOUS
  <2>1. nodes[u].full[1] = truth[nodes[u].seq]   BY <1>9 DEF FullRight
  <2> QED BY <1>5, <1>8, <2>1 DEF Look
<1>11. /\ nodes[u].delta \in DOMAIN refs /\ m # 0
       /\ f[m][u] = Applied(nodes[u].delta, f[m - 1][nodes[u].parent])
  BY <1>5, <1>8, <1>10 DEF Look
<1>12. CASE nodes[u].parent \in DOMAIN nodes
  <2>1. Fits(truth, nodes[u], nodes[nodes[u].parent]) /\ nodes[u].delta # NoBlob
    BY <1>11, <1>12 DEF Right
  <2> QED BY <1>5, <1>7, <1>11, <1>12, <2>1, AppliedFits DEF Fits
<1>13. CASE nodes[u].parent \notin DOMAIN nodes
  <2>1. nodes[u].parent \in Nat /\ m - 1 \in 0..D_MAX   BY <1>6, <1>11
  <2>2. f[m - 1][nodes[u].parent] = Unreadable   BY <1>2, <1>13, <2>1 DEF Look
  <2> QED BY <1>5, <1>11, <2>2 DEF Applied
<1> QED BY <1>12, <1>13

\* A version that fits its parent keeps everything right.
LEMMA RightWith ==
    ASSUME NEW tr, NEW f, NEW g, Right(tr, f), Placed(f), NEW x, x \notin DOMAIN f, x # Root,
           DOMAIN g = DOMAIN f \cup {x}, \A u \in DOMAIN f : g[u] = f[u],
           FullRight(tr, g[x]), g[x].parent # x,
           g[x].parent \in DOMAIN f => Fits(tr, g[x], f[g[x].parent])
    PROVE  Right(tr, g)
<1>1. ASSUME NEW u \in DOMAIN f
      PROVE  /\ FullRight(tr, g[u])
             /\ g[u].parent \in DOMAIN g => Fits(tr, g[u], g[g[u].parent])
  <2>1. f[u].parent = Root \/ f[u].parent \in DOMAIN f   BY DEF Placed
  <2> QED BY <2>1 DEF Right
<1> QED BY <1>1 DEF Right

\* A promotion keeps everything right: the full snapshot is of what was recorded.
LEMMA RightPromoted ==
    ASSUME NEW tr, NEW f, NEW g, Right(tr, f), NEW x \in DOMAIN f,
           DOMAIN g = DOMAIN f, \A u \in DOMAIN f : u # x => g[u] = f[u],
           g[x].seq = f[x].seq, g[x].delta = NoBlob, FullRight(tr, g[x])
    PROVE  Right(tr, g)
<1>1. \A u \in DOMAIN f : g[u].seq = f[u].seq   OBVIOUS
<1> QED BY <1>1 DEF Right, Fits

\* A deletion keeps everything right: a delta without its parent is unreadable.
LEMMA RightWithout ==
    ASSUME NEW tr, NEW f, NEW g, Right(tr, f), Placed(f), NEW x,
           DOMAIN g = DOMAIN f \ {x},
           \A u \in DOMAIN f : u # x =>
                /\ g[u].seq = f[u].seq /\ g[u].full = f[u].full /\ g[u].delta = f[u].delta
                /\ g[u].parent = IF f[u].parent = x THEN Root ELSE f[u].parent
    PROVE  Right(tr, g)
<1>1. Root \notin DOMAIN f   BY DEF Placed, Root
<1>2. ASSUME NEW u \in DOMAIN g
      PROVE  /\ FullRight(tr, g[u])
             /\ g[u].parent \in DOMAIN g => Fits(tr, g[u], g[g[u].parent])
  <2>1. u \in DOMAIN f /\ u # x /\ FullRight(tr, f[u])   BY DEF Right
  <2>2. g[u].seq = f[u].seq /\ g[u].full = f[u].full /\ g[u].delta = f[u].delta   BY <2>1
  <2>3. ASSUME g[u].parent \in DOMAIN g PROVE Fits(tr, g[u], g[g[u].parent])
    <3>1. g[u].parent = f[u].parent /\ f[u].parent \in DOMAIN f /\ f[u].parent # x
      BY <1>1, <2>1, <2>3
    <3>2. Fits(tr, f[u], f[f[u].parent])   BY <2>1, <3>1 DEF Right
    <3>3. g[f[u].parent].seq = f[f[u].parent].seq   BY <3>1
    <3> QED BY <2>2, <3>1, <3>2, <3>3 DEF Fits
  <2> QED BY <2>1, <2>2, <2>3 DEF FullRight
<1> QED BY <1>2 DEF Right

\* Part of what is right is right.
LEMMA RightSub ==
    ASSUME NEW tr, NEW f, NEW g, Right(tr, g),
           \A v \in DOMAIN f : v \in DOMAIN g /\ g[v] = f[v]
    PROVE  Right(tr, f)
BY DEF Right

\* A node that loses its parent has nothing to fit.
LEMMA RightLoosened ==
    ASSUME NEW tr, NEW f, NEW g, Right(tr, f), Placed(f), Loosened(f, g)
    PROVE  Right(tr, g)
<1>1. Root \notin DOMAIN f   BY DEF Placed, Root
<1>2. DOMAIN g = DOMAIN f   BY DEF Loosened
<1>3. ASSUME NEW u \in DOMAIN g
      PROVE  /\ FullRight(tr, g[u])
             /\ g[u].parent \in DOMAIN g => Fits(tr, g[u], g[g[u].parent])
  <2>1. FullRight(tr, f[u])   BY <1>2 DEF Right
  <2>2. g[u].seq = f[u].seq /\ g[u].full = f[u].full /\ g[u].delta = f[u].delta
    BY <1>2 DEF Loosened
  <2>3. ASSUME g[u].parent \in DOMAIN g PROVE Fits(tr, g[u], g[g[u].parent])
    <3>1. g[u].parent = f[u].parent /\ f[u].parent \in DOMAIN f
      BY <1>1, <1>2, <2>3 DEF Loosened
    <3>2. Fits(tr, f[u], f[f[u].parent]) /\ g[f[u].parent].seq = f[f[u].parent].seq
      BY <1>2, <3>1 DEF Right, Loosened
    <3> QED BY <2>2, <3>1, <3>2 DEF Fits
  <2> QED BY <2>1, <2>2, <2>3 DEF FullRight
<1> QED BY <1>3 DEF Right

\* Only what was recorded under the versions' own numbers matters.
LEMMA RightTruth ==
    ASSUME NEW tr, NEW ts, NEW f, Right(tr, f), \A v \in DOMAIN f : ts[f[v].seq] = tr[f[v].seq]
    PROVE  Right(ts, f)
BY DEF Right, FullRight, Fits

\* What was recorded under every number in use is known.
KnownInv ==
    /\ \A v \in DOMAIN tree : tree[v].seq \in DOMAIN truth
    /\ \A v \in DOMAIN rows : rows[v].seq \in DOMAIN truth
    /\ \A e \in Elems(wal) : e.trigger # "DeclineDone" =>
                               e.seq \in DOMAIN truth /\ FullRight(truth, e)
    /\ at \in Busy => op.seq \in DOMAIN truth /\ FullRight(truth, op)

\* A failed step has not yet met a crash, or nothing but one step has failed and no
\* deleted version has come back.
Traced == crashes = 0 \/ faults = 0 \/ (faults = 1 /\ "resurrected" \notin spoilt)

\* The versions in tree and table, and the one under way, are right.
RightInv ==
    Traced =>
        /\ Right(truth, tree) /\ Right(truth, rows)
        /\ at \in Busy /\ op.parent \in DOMAIN tree => Fits(truth, op, tree[op.parent])

\* An entry that is replayed fits the row it is put under.
ReplayFits ==
    Replay /\ Traced' /\ Head(tasks).parent \in DOMAIN rows =>
        Fits(truth, Head(tasks), rows[Head(tasks).parent])

\* What can be traced after a step could be traced before it.
LEMMA TracedBefore ==
    ASSUME SInv, TreeInv, [Next]_vars, Traced' PROVE Traced
<1>1. faults' \in Nat /\ faults <= faults' /\ spoilt \subseteq spoilt' /\ faults \in Nat
  BY Monotone DEF TreeInv, IdsInv
<1>2. crashes' = crashes \/ crashes' = crashes + 1
  <2>1. \A p \in Paths : \A c, shape, trigger : Records(p, c, shape, trigger) => crashes' = crashes
    BY DEF Records, Start
  <2>2. CommitEntry \/ Still \/ Advances \/ Open \/ Opened => crashes' = crashes
    BY DEF CommitEntry, Still, Advances, Open, Opened, ghost
  <2>3. Dies => crashes' = crashes + 1   BY DiesWhat
  <2> QED BY <2>1, <2>2, <2>3, Kinds, PromotedNodes, DeletedNodes, ReplayedNodes
<1>3. crashes \in Nat   BY DEF TreeInv, IdsInv
<1> QED BY <1>1, <1>2, <1>3 DEF Traced

\* The record grows at a number that nothing has yet.
LEMMA RecordsTruth ==
    ASSUME SInv, KnownInv, NEW p, NEW c, NEW shape, NEW trigger, Records(p, c, shape, trigger)
    PROVE  /\ truth' = With(truth, seqNo, c) /\ truth'[seqNo] = c
           /\ DOMAIN truth' = DOMAIN truth \cup {seqNo}
           /\ \A s \in DOMAIN truth : s # seqNo => truth'[s] = truth[s]
           /\ \A v \in DOMAIN tree : tree[v].seq # seqNo
           /\ \A v \in DOMAIN rows : rows[v].seq # seqNo
           /\ \A e \in Elems(wal) : e.seq # seqNo
<1>1. truth' = With(truth, seqNo, c) /\ at = "idle"   BY DEF Records, Start, Ready
<1>2. seqNo \in Nat   BY DEF SInv, NumbersInv
<1>3. \A v \in DOMAIN tree : tree[v].seq # seqNo
  BY <1>1, <1>2 DEF SInv, NumbersInv
<1>4. \A v \in DOMAIN rows : rows[v].seq # seqNo   BY <1>1, <1>3 DEF SInv, NodesInv
<1>5. \A e \in Elems(wal) : e.seq # seqNo   BY <1>1, <1>2 DEF SInv, NumbersInv
<1> QED BY <1>1, <1>3, <1>4, <1>5 DEF With

\* Nothing is recorded yet.
LEMMA KInit == Init => KnownInv /\ RightInv
<1> SUFFICES ASSUME Init PROVE KnownInv /\ RightInv   OBVIOUS
<1>1. DOMAIN tree = {} /\ DOMAIN rows = {} /\ Elems(wal) = {} /\ at = "idle"
  BY EmptySeq DEF Init
<1> QED BY <1>1 DEF KnownInv, RightInv, Right, Busy

\* Every number in use has what was recorded under it.
LEMMA KNext == SInv /\ TreeInv /\ KnownInv /\ [Next]_vars => KnownInv'
<1> SUFFICES ASSUME SInv, TreeInv, KnownInv, [Next]_vars PROVE KnownInv'   OBVIOUS
<1> USE DEF KnownInv
<1>1. CASE Still
  <2>1. UNCHANGED <<tree, rows, truth>>   BY <1>1 DEF Still
  <2>2. at' \in Busy => at \in Busy /\ op' = op   BY <1>1 DEF Still, Busy
  <2> QED BY <1>1, <2>1, <2>2, StillLog
<1>2. ASSUME NEW p \in Paths, NEW c, NEW shape, NEW trigger, Records(p, c, shape, trigger)
      PROVE  KnownInv'
  <2>1. UNCHANGED <<tree, rows, wal>> /\ op'.seq = seqNo /\ op'.full = shape.full
    BY <1>2 DEF Records, Start
  <2>2. shape.full = NoBlob \/ shape.full = <<c>>   BY <1>2 DEF Records
  <2> QED BY <1>2, <2>1, <2>2, RecordsTruth DEF FullRight
<1>3. CASE CommitEntry
  <2>1. UNCHANGED <<tree, rows, truth, op>> /\ at \in Busy
    BY <1>3 DEF CommitEntry, memory, ghost, Busy
  <2>2. Elems(wal') = Elems(wal) \cup {Entry(op, op.parent, op.trigger)}
    BY <1>3, AppendSeq DEF SInv, NumbersInv, CommitEntry
  <2> QED BY <2>1, <2>2, EntryFields DEF FullRight
<1>4. CASE Advances
  <2>1. UNCHANGED <<wal, truth>> /\ at \in Busy /\ at' \notin Busy   BY <1>4 DEF Advances, Busy
  <2> QED BY <1>4, <2>1, AdvancedNodes
<1>5. ASSUME NEW v \in plan.promote, GcPromote(v) PROVE KnownInv'
  <2>1. UNCHANGED <<wal, truth>> /\ at' \notin Busy /\ v \in DOMAIN tree
    BY <1>5, PromotedNodes DEF Busy
  <2>2. DOMAIN tree' = DOMAIN tree /\ \A u \in DOMAIN tree : tree'[u].seq = tree[u].seq
    BY <1>5, PromotedNodes
  <2>3. \A u \in DOMAIN rows' : (u \in DOMAIN rows /\ rows'[u] = rows[u]) \/ rows'[u] = tree'[v]
    BY <1>5, PromotedNodes
  <2> QED BY <2>1, <2>2, <2>3
<1>6. ASSUME NEW v \in plan.evict, GcDelete(v) PROVE KnownInv'
  <2>1. UNCHANGED <<wal, truth>> /\ at' \notin Busy   BY <1>6, DeletedNodes DEF Busy
  <2>2. \A u \in DOMAIN tree' : u \in DOMAIN tree /\ tree'[u].seq = tree[u].seq
    BY <1>6, DeletedNodes
  <2>3. \A u \in DOMAIN rows' : u \in DOMAIN rows /\ rows'[u].seq = rows[u].seq
    BY <1>6, DeletedNodes
  <2> QED BY <2>1, <2>2, <2>3
<1>7. CASE Dies
  <2>1. UNCHANGED <<wal, truth>> /\ at' \notin Busy /\ tree' = <<>> /\ Loosened(rows, rows')
    BY <1>7, DiesWhat DEF Busy
  <2> QED BY <2>1 DEF Loosened
<1>8. CASE Open
  <2>1. UNCHANGED <<wal, rows, truth>> /\ at' \notin Busy /\ tree' = rows
    BY <1>8 DEF Open, durable, ghost, Busy
  <2> QED BY <2>1
<1>9. CASE Replay
  <2> DEFINE e == Head(tasks)
  <2>1. UNCHANGED <<wal, truth>> /\ at' \notin Busy /\ tree' = rows'
        /\ e \in Elems(wal) /\ e.trigger # "DeclineDone"
    BY <1>9, ReplayedNodes DEF Busy, HasNode
  <2>2. \A u \in DOMAIN rows' : (u \in DOMAIN rows /\ rows'[u] = rows[u]) \/ rows'[u].seq = e.seq
    BY <1>9, ReplayedNodes
  <2> QED BY <2>1, <2>2
<1>10. CASE Opened
  BY <1>10 DEF Opened, durable, Busy
<1> QED BY <1>1, <1>2, <1>3, <1>4, <1>5, <1>6, <1>7, <1>8, <1>9, <1>10, Kinds

\* Every step keeps the versions right, if replay puts an entry under a row it fits.
LEMMA RightNext ==
    ASSUME SInv, SInv', TreeInv, KnownInv, RightInv, [Next]_vars, ReplayFits
    PROVE  RightInv'
<1> SUFFICES ASSUME Traced'
             PROVE  /\ Right(truth', tree') /\ Right(truth', rows')
                    /\ at' \in Busy /\ op'.parent \in DOMAIN tree' =>
                         Fits(truth', op', tree'[op'.parent])
  BY DEF RightInv
<1>0. /\ Right(truth, tree) /\ Right(truth, rows)
      /\ at \in Busy /\ op.parent \in DOMAIN tree => Fits(truth, op, tree[op.parent])
  BY TracedBefore DEF RightInv
<1>a. ASSUME Right(truth', tree'), at' # "down" PROVE Right(truth', rows')
  <2>1. \A v \in DOMAIN rows' : v \in DOMAIN tree' /\ tree'[v] = rows'[v]
    BY <1>a DEF SInv, NodesInv
  <2> QED BY <1>a, <2>1, RightSub
<1>1. CASE Still
  <2>1. UNCHANGED <<tree, rows, truth>>   BY <1>1 DEF Still
  <2>2. at' \in Busy => at \in Busy /\ op' = op   BY <1>1 DEF Still, Busy
  <2> QED BY <1>0, <2>1, <2>2
<1>2. ASSUME NEW p \in Paths, NEW c, NEW shape, NEW trigger, Records(p, c, shape, trigger)
      PROVE  /\ Right(truth', tree') /\ Right(truth', rows')
             /\ at' \in Busy /\ op'.parent \in DOMAIN tree' =>
                  Fits(truth', op', tree'[op'.parent])
  <2>1. /\ UNCHANGED <<tree, rows, wal>> /\ at' = "log" /\ op'.seq = seqNo
        /\ op'.delta = shape.delta /\ op'.parent = HeadOf(p)
    BY <1>2 DEF Records, Start
  <2>2. \A v \in DOMAIN tree : truth'[tree[v].seq] = truth[tree[v].seq]
    BY <1>2, RecordsTruth DEF KnownInv
  <2>3. Right(truth', tree')   BY <1>0, <2>1, <2>2, RightTruth
  <2>4. ASSUME shape.delta # NoBlob, HeadOf(p) \in DOMAIN tree
        PROVE  Fits(truth', op', tree[HeadOf(p)])
    <3> DEFINE h == HeadOf(p)
    <3>1. Read(tree, h) # Unreadable /\ shape.delta = DeltaOf(Read(tree, h), c)
      BY <1>2, <2>4 DEF Records
    <3>2. \A u \in DOMAIN tree : u \in Nat /\ tree[u].parent \in Nat
      BY DEF TreeInv, IdsInv, Placed
    <3>3. DOMAIN tree \subseteq Nat /\ NoBlob \notin DOMAIN refs
      BY <3>2 DEF TreeInv, IdsInv
    <3>4. Read(tree, h) \in {Unreadable, truth[tree[h].seq]}
      BY <1>0, <2>4, <3>2, <3>3, ReadRight
    <3>5. truth'[seqNo] = c   BY <1>2, RecordsTruth
    <3> QED BY <2>1, <2>2, <2>4, <3>1, <3>4, <3>5 DEF Fits
  <2>5. op'.parent \in DOMAIN tree' => Fits(truth', op', tree'[op'.parent])
    BY <2>1, <2>4 DEF Fits
  <2> QED BY <1>a, <2>1, <2>3, <2>5
<1>3. CASE CommitEntry
  <2>1. UNCHANGED <<tree, rows, truth, op>> /\ at \in Busy
    BY <1>3 DEF CommitEntry, memory, ghost, Busy
  <2> QED BY <1>0, <2>1
<1>4. CASE Advances
  <2>1. truth' = truth /\ at \in Busy /\ at' \notin Busy /\ at' # "down"
    BY <1>4 DEF Advances, Busy
  <2>2. FullRight(truth, op)   BY <2>1 DEF KnownInv
  <2>3. FullRight(truth, tree'[nextId])   BY <1>4, <2>2, AdvancedNodes DEF FullRight
  <2>4. op.parent \in DOMAIN tree => Fits(truth, tree'[nextId], tree[op.parent])
    BY <1>0, <1>4, <2>1, AdvancedNodes DEF Fits
  <2>5. Placed(tree) /\ nextId # Root   BY DEF TreeInv, IdsInv, Root
  <2>6. tree'[nextId].parent = op.parent /\ op.parent # nextId
    BY <1>4, <2>1, <2>5, AdvancedNodes DEF SInv, OpInv
  <2>7. Right(truth, tree')
    BY <1>0, <1>4, <2>3, <2>4, <2>5, <2>6, AdvancedNodes, RightWith
  <2> QED BY <1>a, <2>1, <2>7
<1>5. ASSUME NEW v \in plan.promote, GcPromote(v)
      PROVE  Right(truth', tree') /\ Right(truth', rows') /\ at' \notin Busy
  <2>1. truth' = truth /\ at' \notin Busy /\ at' # "down" /\ v \in DOMAIN tree
    BY <1>5, PromotedNodes DEF Busy
  <2>2. CASE tree' = tree   BY <1>0, <1>a, <2>1, <2>2
  <2>3. CASE tree' # tree
    <3>1. \A u \in DOMAIN tree : u \in Nat /\ tree[u].parent \in Nat
      BY DEF TreeInv, IdsInv, Placed
    <3>2. DOMAIN tree \subseteq Nat /\ NoBlob \notin DOMAIN refs
      BY <3>1 DEF TreeInv, IdsInv
    <3>3. Read(tree, v) \in {Unreadable, truth[tree[v].seq]}
      BY <1>0, <2>1, <3>1, <3>2, ReadRight
    <3>4. Read(tree, v) # Unreadable /\ tree'[v].full = <<Read(tree, v)>>
          /\ tree'[v].seq = tree[v].seq /\ tree'[v].delta = NoBlob
          /\ DOMAIN tree' = DOMAIN tree /\ \A u \in DOMAIN tree : u # v => tree'[u] = tree[u]
      BY <1>5, <2>3, PromotedNodes
    <3>5. FullRight(truth, tree'[v])   BY <3>3, <3>4 DEF FullRight
    <3>6. Right(truth, tree')   BY <1>0, <2>1, <3>4, <3>5, RightPromoted
    <3> QED BY <1>a, <2>1, <3>6
  <2> QED BY <2>2, <2>3
<1>6. ASSUME NEW v \in plan.evict, GcDelete(v)
      PROVE  Right(truth', tree') /\ Right(truth', rows') /\ at' \notin Busy
  <2>1. truth' = truth /\ at' \notin Busy /\ at' # "down"   BY <1>6, DeletedNodes DEF Busy
  <2>2. /\ DOMAIN tree' = DOMAIN tree \ {v}
        /\ \A u \in DOMAIN tree : u # v =>
             /\ tree'[u].seq = tree[u].seq /\ tree'[u].full = tree[u].full
             /\ tree'[u].delta = tree[u].delta
             /\ tree'[u].parent = IF tree[u].parent = v THEN Root ELSE tree[u].parent
    BY <1>6, DeletedNodes
  <2>3. Placed(tree)   BY DEF TreeInv, IdsInv
  <2>4. Right(truth, tree')   BY <1>0, <2>2, <2>3, RightWithout
  <2> QED BY <1>a, <2>1, <2>4
<1>7. CASE Dies
  <2>1. truth' = truth /\ at' \notin Busy /\ tree' = <<>> /\ Loosened(rows, rows')
    BY <1>7, DiesWhat DEF Busy
  <2>2. Right(truth, rows')   BY <1>0, <2>1, RightLoosened DEF TreeInv, IdsInv
  <2> QED BY <2>1, <2>2 DEF Right
<1>8. CASE Open
  <2>1. UNCHANGED <<rows, truth>> /\ at' \notin Busy /\ tree' = rows
    BY <1>8 DEF Open, durable, ghost, Busy
  <2> QED BY <1>0, <2>1
<1>9. CASE Replay
  <2> DEFINE e == Head(tasks)
  <2>1. truth' = truth /\ at' \notin Busy /\ tree' = rows' /\ tree = rows /\ e \in Elems(wal)
        /\ e.trigger # "DeclineDone"
    BY <1>9, ReplayedNodes DEF Busy, HasNode
  <2>2. CASE rows' = rows   BY <1>0, <2>1, <2>2
  <2>3. CASE rows' # rows
    <3>1. e.parent \in DOMAIN rows => Fits(truth, e, rows[e.parent])
      BY <1>9 DEF ReplayFits
    <3>2. FullRight(truth, e)   BY <2>1 DEF KnownInv
    <3>3. /\ RowFits(e) /\ DOMAIN rows' = DOMAIN rows \cup {nextId}
          /\ nextId \notin DOMAIN rows
          /\ \A u \in DOMAIN rows : rows'[u] = rows[u]
          /\ rows'[nextId].seq = e.seq /\ rows'[nextId].parent = e.parent
          /\ rows'[nextId].full = e.full /\ rows'[nextId].delta = e.delta
      BY <1>9, <2>3, ReplayedNodes
    <3>4. Placed(rows) /\ nextId # Root   BY DEF TreeInv, IdsInv, Root
    <3>5. e.parent # nextId   BY <3>3, <3>4 DEF RowFits
    <3>6. FullRight(truth, rows'[nextId])   BY <3>2, <3>3 DEF FullRight
    <3>7. e.parent \in DOMAIN rows => Fits(truth, rows'[nextId], rows[e.parent])
      BY <3>1, <3>3 DEF Fits
    <3>8. Right(truth, rows')
      BY <1>0, <3>3, <3>4, <3>5, <3>6, <3>7, RightWith
    <3> QED BY <2>1, <3>8
  <2> QED BY <2>2, <2>3
<1>10. CASE Opened
  <2>1. UNCHANGED <<tree, rows, truth>> /\ at' \notin Busy   BY <1>10 DEF Opened, durable, Busy
  <2> QED BY <1>0, <2>1
<1> QED BY <1>1, <1>2, <1>3, <1>4, <1>5, <1>6, <1>7, <1>8, <1>9, <1>10, Kinds

-----------------------------------------------------------------------------
(* The log while nothing has failed. *)

\* The newest row of its path.
NewestRow(v) ==
    \A u \in DOMAIN rows : rows[u].path = rows[v].path => rows[u].seq <= rows[v].seq

\* The newest row of the entry's path has an id from the entry's parent upwards: it
\* stays, so that no version gets the parent's id again.
Above(e) == \E v \in DOMAIN rows : v >= e.parent /\ rows[v].path = e.path /\ NewestRow(v)

\* The table is the tree, and every entry fits the row that has its parent's id.
FaithInv ==
    faults = 0 =>
        /\ at # "down" => tree = rows
        /\ \A e \in Elems(wal) : e.trigger # "DeclineDone" =>
             /\ e.parent \in DOMAIN rows => Fits(truth, e, rows[e.parent])
             /\ e.parent = Root \/ Above(e)

\* The same for one table.
Faithful(e) ==
    /\ e.parent \in DOMAIN rows => Fits(truth, e, rows[e.parent])
    /\ e.parent = Root \/ Above(e)

\* A newer row leaves an entry's parent alone.
LEMMA FaithfulWith ==
    ASSUME SInv, TreeInv, NEW e \in Elems(wal), e.trigger # "DeclineDone", Faithful(e),
           nextId \in Nat, \A u \in DOMAIN rows : u \in Nat /\ u < nextId,
           DOMAIN rows' = DOMAIN rows \cup {nextId}, \A u \in DOMAIN rows : rows'[u] = rows[u],
           rows'[nextId].seq \in 1..MaxSeq, truth' = truth
    PROVE  Faithful(e)'
<1>0. e.parent \in Nat /\ nextId # Root   BY DEF TreeInv, OrderInv, IdsInv, Root
<1>1. CASE e.parent = Root
  <2>1. Root \notin DOMAIN rows   BY DEF TreeInv, IdsInv, Placed, Root
  <2> QED BY <1>0, <1>1, <2>1 DEF Faithful
<1>2. CASE Above(e)
  <2>1. PICK v \in DOMAIN rows : v >= e.parent /\ rows[v].path = e.path /\ NewestRow(v)
    BY <1>2 DEF Above
  <2>2. e.parent < nextId   BY <1>0, <2>1
  <2>3. e.parent \in DOMAIN rows' => Fits(truth', e, rows'[e.parent])
    BY <2>2 DEF Faithful, Fits
  <2>4. rows[v].seq \in Int /\ rows'[nextId].seq \in Int
        /\ \A u \in DOMAIN rows : rows[u].seq \in Int
    BY BoundsAssumption DEF SInv, NodesInv, AreNodes, IsNode
  <2>5. CASE rows'[nextId].path = e.path /\ rows'[nextId].seq > rows[v].seq
    <3>1. PICK x : x = nextId   OBVIOUS
    <3>2. NewestRow(x)'
      BY <2>1, <2>4, <2>5, <3>1 DEF NewestRow
    <3> QED BY <1>0, <2>2, <2>3, <2>5, <3>1, <3>2 DEF Faithful, Above
  <2>6. CASE ~(rows'[nextId].path = e.path /\ rows'[nextId].seq > rows[v].seq)
    <3>1. NewestRow(v)'
      BY <2>1, <2>4, <2>6 DEF NewestRow
    <3> QED BY <2>1, <2>3, <3>1 DEF Faithful, Above
  <2> QED BY <2>5, <2>6
<1> QED BY <1>1, <1>2 DEF Faithful

\* A promotion of a version that has its row changes no id and no content.
LEMMA FaithfulPromote ==
    ASSUME SInv, NEW v \in plan.promote, GcPromote(v), DOMAIN tree \subseteq DOMAIN rows,
           NEW e, Faithful(e)
    PROVE  Faithful(e)'
<1>1. truth' = truth /\ v \in DOMAIN tree /\ v \in DOMAIN rows /\ tree[v] = rows[v]
  BY PromotedNodes DEF SInv, NodesInv
<1>2. /\ DOMAIN rows' = DOMAIN rows
      /\ \A u \in DOMAIN rows : rows'[u].seq = rows[u].seq /\ rows'[u].path = rows[u].path
  BY <1>1, PromotedNodes
<1>3. \A u \in DOMAIN rows : NewestRow(u) => NewestRow(u)'   BY <1>2 DEF NewestRow
<1>4. Above(e) => Above(e)'   BY <1>2, <1>3 DEF Above
<1> QED BY <1>1, <1>2, <1>4 DEF Faithful, Fits

\* The collector spares the heads, and with them the newest rows.
LEMMA FaithfulDelete ==
    ASSUME SInv, TreeInv, NEW v \in plan.evict, GcDelete(v), DOMAIN tree \subseteq DOMAIN rows,
           NEW e, Faithful(e)
    PROVE  Faithful(e)'
<1>1. at = "evict" /\ truth' = truth /\ v \in DOMAIN tree   BY DeletedNodes
<1>2. /\ DOMAIN rows' = DOMAIN rows \ {v}
      /\ \A u \in DOMAIN rows : u # v => rows'[u].seq = rows[u].seq /\ rows'[u].path = rows[u].path
  BY DeletedNodes
<1>a. \A u \in DOMAIN tree : u \in DOMAIN rows /\ tree[u] = rows[u]   BY <1>1 DEF SInv, NodesInv
<1>3. \A u \in DOMAIN rows : NewestRow(u) => u # v
  <2> SUFFICES ASSUME v \in DOMAIN rows, NewestRow(v) PROVE FALSE   OBVIOUS
  <2> DEFINE h == heads[tree[v].path]
  <2>1. Loaded   BY <1>1 DEF Loaded
  <2>2. tree[v].path \in DOMAIN heads   BY <1>1, <2>1 DEF TreeInv, TopInv
  <2>3. h \in DOMAIN tree /\ tree[h].path = tree[v].path /\ h \notin plan.evict
        /\ tree[v].seq <= tree[h].seq
    BY <1>1, <2>1, <2>2 DEF TreeInv, TopInv, SInv, NodesInv
  <2>4. tree[h].seq <= tree[v].seq   BY <1>1, <1>a, <2>3 DEF NewestRow
  <2>5. tree[h].seq = tree[v].seq
    BY <1>1, <2>3, <2>4, BoundsAssumption DEF SInv, NodesInv, AreNodes, IsNode
  <2>6. h = v   BY <1>1, <2>3, <2>5 DEF SInv, NodesInv, AreNodes
  <2> QED BY <2>3, <2>6
<1>4. \A u \in DOMAIN rows : NewestRow(u) => u \in DOMAIN rows' /\ NewestRow(u)'
  BY <1>2, <1>3 DEF NewestRow
<1>5. Above(e) => Above(e)'   BY <1>2, <1>4 DEF Above
<1> QED BY <1>1, <1>2, <1>5 DEF Faithful, Fits

\* The log is empty.
LEMMA FInit == Init => FaithInv
<1> SUFFICES ASSUME Init PROVE FaithInv   OBVIOUS
<1>1. tree = rows /\ Elems(wal) = {}   BY EmptySeq DEF Init
<1> QED BY <1>1 DEF FaithInv

\* While nothing fails, every entry goes on to fit the row that has its parent's id.
LEMMA FNext ==
    ASSUME SInv, SInv', TreeInv, KnownInv, RightInv, FaithInv, [Next]_vars
    PROVE  FaithInv'
<1> SUFFICES ASSUME faults' = 0
             PROVE  /\ at' # "down" => tree' = rows'
                    /\ \A e \in Elems(wal') : e.trigger # "DeclineDone" => Faithful(e)'
  BY DEF FaithInv, Faithful, Above, NewestRow
<1>a. faults = 0   BY Monotone DEF TreeInv, IdsInv
<1>0. /\ at # "down" => tree = rows
      /\ \A e \in Elems(wal) : e.trigger # "DeclineDone" => Faithful(e)
  BY <1>a DEF FaithInv, Faithful
<1>b. Traced   BY <1>a DEF Traced
<1>1. CASE Still
  <2>1. UNCHANGED <<tree, rows, truth>> /\ (at' # "down" => at # "down")   BY <1>1 DEF Still
  <2> QED BY <1>0, <1>1, <2>1, StillLog DEF Faithful, Above, NewestRow
<1>2. ASSUME NEW p \in Paths, NEW c, NEW shape, NEW trigger, Records(p, c, shape, trigger)
      PROVE  /\ at' # "down" => tree' = rows'
             /\ \A e \in Elems(wal') : e.trigger # "DeclineDone" => Faithful(e)'
  <2>1. UNCHANGED <<tree, rows, wal>> /\ at # "down"   BY <1>2 DEF Records, Start, Ready
  <2>2. \A u \in DOMAIN rows : truth'[rows[u].seq] = truth[rows[u].seq]
    BY <1>2, RecordsTruth DEF KnownInv
  <2>3. \A e \in Elems(wal) : e.trigger # "DeclineDone" => truth'[e.seq] = truth[e.seq]
    BY <1>2, RecordsTruth DEF KnownInv
  <2> QED BY <1>0, <2>1, <2>2, <2>3 DEF Faithful, Above, NewestRow, Fits
<1>3. CASE CommitEntry
  <2>0. PICK d : d = Entry(op, op.parent, op.trigger)   OBVIOUS
  <2>1. UNCHANGED <<tree, rows, truth, op>> /\ at \in Busy /\ at # "down"
    BY <1>3 DEF CommitEntry, memory, ghost, Busy
  <2>2. Elems(wal') = Elems(wal) \cup {d}
    BY <1>3, <2>0, AppendSeq DEF SInv, NumbersInv, CommitEntry
  <2>3. Faithful(d)'
    <3>1. d.parent = op.parent /\ d.path = op.path /\ d.seq = op.seq /\ d.delta = op.delta
      BY <2>0, EntryFields
    <3>2. op.parent \in DOMAIN tree => Fits(truth, d, tree[op.parent])
      BY <1>b, <2>1, <3>1 DEF RightInv, Fits
    <3>3. CASE op.parent = Root
      <4>1. Root \notin DOMAIN rows   BY DEF TreeInv, IdsInv, Placed, Root
      <4> QED BY <2>1, <3>1, <3>3, <4>1 DEF Faithful
    <3>4. CASE op.parent # Root
      <4>1. op.parent \in DOMAIN tree /\ op.path \in DOMAIN heads /\ op.parent = heads[op.path]
        BY <2>1, <3>4 DEF SInv, OpInv, TreeInv, OrderInv, HeadOf
      <4>2. Loaded   BY <2>1 DEF Busy, Loaded
      <4>3. tree[op.parent].path = op.path
            /\ \A v \in DOMAIN tree : tree[v].path = op.path => tree[v].seq <= tree[op.parent].seq
        BY <4>1, <4>2 DEF TreeInv, TopInv
      <4>4. op.parent \in DOMAIN rows /\ NewestRow(op.parent) /\ rows[op.parent].path = op.path
        BY <1>0, <2>1, <4>1, <4>3 DEF NewestRow
      <4>5. op.parent \in Nat   BY <4>1 DEF SInv, NodesInv, AreNodes
      <4>6. Above(d)   BY <3>1, <4>4, <4>5 DEF Above
      <4> QED BY <1>0, <2>1, <3>1, <3>2, <4>6 DEF Faithful, Above, NewestRow
    <3> QED BY <3>3, <3>4
  <2> QED BY <1>0, <2>1, <2>2, <2>3 DEF Faithful, Above, NewestRow
<1>4. CASE Advances
  <2>1. at \in Busy /\ at # "down" /\ UNCHANGED <<wal, truth>>   BY <1>4 DEF Advances, Busy
  <2>2. RowFits(op)   BY <1>0, <2>1 DEF RowFits, SInv, OpInv
  <2>3. tree' = With(tree, nextId, NodeOf(op, op.depth))
        /\ rows' = With(rows, nextId, NodeOf(op, op.depth))
    BY <1>4, <1>a, <2>2 DEF Advances, AdvanceHead
  <2>4. tree' = rows'   BY <1>0, <2>1, <2>3
  <2>5. op.seq \in 1..MaxSeq   BY <2>1 DEF SInv, OpInv
  <2>6. /\ nextId \in Nat /\ \A u \in DOMAIN rows : u \in Nat /\ u < nextId
        /\ DOMAIN rows' = DOMAIN rows \cup {nextId} /\ \A u \in DOMAIN rows : rows'[u] = rows[u]
        /\ rows'[nextId].seq \in 1..MaxSeq
    BY <1>0, <1>4, <2>1, <2>4, <2>5, AdvancedNodes
  <2> QED BY <1>0, <2>1, <2>4, <2>6, FaithfulWith
<1>5. ASSUME NEW v \in plan.promote, GcPromote(v)
      PROVE  /\ at' # "down" => tree' = rows'
             /\ \A e \in Elems(wal') : e.trigger # "DeclineDone" => Faithful(e)'
  <2>1. at # "down" /\ UNCHANGED <<wal, truth>> /\ v \in DOMAIN tree
    BY <1>5, PromotedNodes
  <2> DEFINE n == Promoted(tree[v], Read(tree, v))
  <2>2. tree' = rows'
    <3>1. n.parent = tree[v].parent   BY DEF Promoted
    <3>2. RowFits(n)   BY <1>0, <2>1, <3>1 DEF RowFits, TreeInv, IdsInv, Placed
    <3>3. \/ UNCHANGED <<tree, rows>>
          \/ tree' = With(tree, v, n) /\ rows' = With(rows, v, n)
      BY <1>5, <3>2 DEF GcPromote
    <3> HIDE DEF n
    <3> QED BY <1>0, <2>1, <3>3
  <2>3. DOMAIN tree \subseteq DOMAIN rows   BY <1>0, <2>1
  <2> QED BY <1>0, <1>5, <2>1, <2>2, <2>3, FaithfulPromote
<1>6. ASSUME NEW v \in plan.evict, GcDelete(v)
      PROVE  /\ at' # "down" => tree' = rows'
             /\ \A e \in Elems(wal') : e.trigger # "DeclineDone" => Faithful(e)'
  <2>1. at = "evict" /\ UNCHANGED <<wal, truth>> /\ v \in DOMAIN tree   BY <1>6, DeletedNodes
  <2>2. tree' = rows'   BY <1>0, <1>6, <2>1 DEF GcDelete
  <2>3. DOMAIN tree \subseteq DOMAIN rows   BY <1>0, <2>1
  <2> QED BY <1>0, <1>6, <2>1, <2>2, <2>3, FaithfulDelete
<1>7. CASE Dies
  <2>1. UNCHANGED <<wal, truth>> /\ at' = "down" /\ Loosened(rows, rows')   BY <1>7, DiesWhat
  <2>2. /\ DOMAIN rows' = DOMAIN rows
        /\ \A u \in DOMAIN rows : rows'[u].seq = rows[u].seq /\ rows'[u].path = rows[u].path
    BY <2>1 DEF Loosened
  <2> QED BY <1>0, <2>1, <2>2 DEF Faithful, Above, NewestRow, Fits
<1>8. CASE Open
  <2>1. UNCHANGED <<wal, rows, truth>> /\ tree' = rows   BY <1>8 DEF Open, durable, ghost
  <2> QED BY <1>0, <2>1 DEF Faithful, Above, NewestRow
<1>9. CASE Replay
  <2>1. tree' = rows' /\ UNCHANGED <<wal, truth>> /\ Head(tasks) \in Elems(wal)
        /\ nextId \in Nat /\ \A u \in DOMAIN rows : u \in Nat /\ u < nextId
    BY <1>9, ReplayedNodes
  <2>2. CASE UNCHANGED rows   BY <1>0, <2>1, <2>2 DEF Faithful, Above, NewestRow
  <2>3. CASE ~UNCHANGED rows
    <3>1. /\ DOMAIN rows' = DOMAIN rows \cup {nextId} /\ \A u \in DOMAIN rows : rows'[u] = rows[u]
          /\ rows'[nextId].seq = Head(tasks).seq
      BY <1>9, <2>3, ReplayedNodes
    <3>2. Head(tasks).seq \in 1..MaxSeq   BY <2>1 DEF SInv, NumbersInv
    <3> QED BY <1>0, <2>1, <3>1, <3>2, FaithfulWith
  <2> QED BY <2>2, <2>3
<1>10. CASE Opened
  <2>1. UNCHANGED <<tree, rows, truth, wal>> /\ at # "down"   BY <1>10 DEF Opened, durable
  <2> QED BY <1>0, <2>1 DEF Faithful, Above, NewestRow
<1> QED BY <1>1, <1>2, <1>3, <1>4, <1>5, <1>6, <1>7, <1>8, <1>9, <1>10, Kinds

-----------------------------------------------------------------------------
(* The chains under the heads. *)

\* Every version of S is a full snapshot or a delta with its base in S, nearer to
\* the full one.
Chain(nodes, S) ==
    \A u \in S : /\ u \in DOMAIN nodes /\ nodes[u].depth \in 0..D_MAX
                 /\ \/ nodes[u].full # NoBlob
                    \/ /\ nodes[u].delta # NoBlob /\ nodes[u].parent \in S
                       /\ nodes[nodes[u].parent].depth < nodes[u].depth

\* Version h has its chain, with none of the versions in out.
Hangs(nodes, h, out) == \E S : Chain(nodes, S) /\ h \in S /\ S \cap out = {}

\* A delta that is entered has a chain under it that has room for one more.
Rooted(nodes, e) ==
    e.delta # NoBlob => /\ e.parent \in DOMAIN nodes /\ nodes[e.parent].depth + 1 <= D_MAX
                        /\ Hangs(nodes, e.parent, {})

\* No deleted version came back, and no failed step has met a crash.
Firm == "resurrected" \notin spoilt /\ (faults = 0 \/ crashes = 0)

HeadsHang ==
    Loaded => \A p \in DOMAIN heads :
        tree[heads[p]].trigger # "Delete" => Hangs(tree, heads[p], plan.evict)

OpRooted ==
    at \in Busy => /\ Rooted(tree, op)
                   /\ op.trigger = "Delete" \/ op.depth = IF op.delta = NoBlob THEN 0
                                                        ELSE tree[op.parent].depth + 1

TableHangs ==
    at \in {"down", "replay"} =>
        /\ \A v \in DOMAIN rows :
             NewestRow(v) /\ rows[v].trigger # "Delete" => Hangs(rows, v, {})
        /\ \A e \in Elems(wal) : Kept(e) \/ Rooted(rows, e)

ChainInv == Firm => HeadsHang /\ OpRooted /\ TableHangs

\* What is firm after a step was firm before it.
LEMMA FirmBefore ==
    ASSUME SInv, TreeInv, [Next]_vars, Firm' PROVE Firm
<1>1. faults' \in Nat /\ faults <= faults' /\ spoilt \subseteq spoilt' /\ faults \in Nat
  BY Monotone DEF TreeInv, IdsInv
<1>2. crashes' = crashes \/ crashes' = crashes + 1
  <2>1. \A p \in Paths : \A c, shape, trigger : Records(p, c, shape, trigger) => crashes' = crashes
    BY DEF Records, Start
  <2>2. CommitEntry \/ Still \/ Advances \/ Open \/ Opened => crashes' = crashes
    BY DEF CommitEntry, Still, Advances, Open, Opened, ghost
  <2>3. Dies => crashes' = crashes + 1   BY DiesWhat
  <2> QED BY <2>1, <2>2, <2>3, Kinds, PromotedNodes, DeletedNodes, ReplayedNodes
<1>3. crashes \in Nat   BY DEF TreeInv, IdsInv
<1> QED BY <1>1, <1>2, <1>3 DEF Firm

\* A version with its chain and the chain's blobs reads as what was recorded.
LEMMA ChainReads ==
    ASSUME NEW nodes, NEW S, Chain(nodes, S), Right(truth, nodes), NEW h \in S,
           \A u \in S : u \in Nat,
           \A u \in S : /\ nodes[u].full # NoBlob => nodes[u].full \in DOMAIN refs
                        /\ nodes[u].delta # NoBlob => nodes[u].delta \in DOMAIN refs
    PROVE  Read(nodes, h) = truth[nodes[h].seq]
<1>0. D_MAX \in Nat   BY BoundsAssumption
<1>1. PICK f : AreLooks(f, nodes, D_MAX) /\ \A u : Read(nodes, u) = f[D_MAX][u]   BY ReadIs
<1>2. \A m \in 0..D_MAX : f[m] = Look(f, nodes, m)   BY <1>1 DEF AreLooks
<1> DEFINE Bad(m) == \E u \in S : nodes[u].depth <= m /\ f[m][u] # truth[nodes[u].seq]
           T == {m \in 0..D_MAX : Bad(m)}
<1>a. \A u \in S : u \in DOMAIN nodes /\ nodes[u].depth \in 0..D_MAX   BY DEF Chain
<1> SUFFICES ASSUME T # {} PROVE FALSE   BY <1>0, <1>1, <1>a
<1>3. T \subseteq Nat   BY <1>0
<1>4. PICK m \in T : \A k \in T : m <= k
  <2> HIDE DEF T
  <2> QED BY <1>3, LeastNumber
<1>5. PICK u \in S : nodes[u].depth <= m /\ f[m][u] # truth[nodes[u].seq]   BY <1>4
<1>6. m # 0 => m - 1 \in 0..D_MAX /\ m - 1 \notin T   BY <1>0, <1>3, <1>4
<1>7. m # 0 => \A w \in S : nodes[w].depth <= m - 1 => f[m - 1][w] = truth[nodes[w].seq]
  BY <1>6
<1>8. f[m][u] = Look(f, nodes, m)[u] /\ u \in Nat /\ m \in 0..D_MAX /\ u \in DOMAIN nodes
  BY <1>2, <1>4, <1>a
<1> HIDE DEF T
<1>9. FullRight(truth, nodes[u])   BY <1>8 DEF Right
<1>10. CASE nodes[u].full # NoBlob
  <2>1. nodes[u].full[1] = truth[nodes[u].seq]   BY <1>9, <1>10 DEF FullRight
  <2> QED BY <1>5, <1>8, <1>10, <2>1 DEF Look
<1>11. CASE nodes[u].full = NoBlob
  <2> DEFINE w == nodes[u].parent
  <2>1. nodes[u].delta # NoBlob /\ w \in S /\ nodes[w].depth < nodes[u].depth
    BY <1>11 DEF Chain
  <2>2. nodes[w].depth \in 0..D_MAX /\ nodes[u].depth \in 0..D_MAX /\ w \in DOMAIN nodes
    BY <1>a, <2>1
  <2>3. m # 0 /\ nodes[w].depth <= m - 1   BY <1>0, <1>5, <1>8, <2>1, <2>2
  <2>4. f[m - 1][w] = truth[nodes[w].seq]   BY <1>7, <2>1, <2>3
  <2>5. nodes[u].delta \in DOMAIN refs   BY <2>1
  <2>6. f[m][u] = Applied(nodes[u].delta, f[m - 1][w])
    BY <1>8, <1>11, <2>3, <2>5 DEF Look
  <2>7. Fits(truth, nodes[u], nodes[w])   BY <1>8, <2>2 DEF Right
  <2> QED BY <1>5, <2>1, <2>4, <2>6, <2>7, AppliedFits DEF Fits
<1> QED BY <1>10, <1>11

\* A tombstone has nothing to read.
LEMMA TombstoneUnreadable ==
    ASSUME TreeInv, NEW v \in DOMAIN tree, Read(tree, v) # Unreadable
    PROVE  tree[v].trigger # "Delete"
<1> SUFFICES ASSUME tree[v].trigger = "Delete" PROVE FALSE   OBVIOUS
<1>1. tree[v].full = NoBlob /\ tree[v].delta = NoBlob /\ v \in Nat
  BY DEF TreeInv, IdsInv, Placed, Shaped
<1>2. NoBlob \notin DOMAIN refs /\ D_MAX \in 0..D_MAX
  BY BoundsAssumption DEF TreeInv, IdsInv
<1>3. PICK f : AreLooks(f, tree, D_MAX) /\ \A u : Read(tree, u) = f[D_MAX][u]   BY ReadIs
<1>4. f[D_MAX] = Look(f, tree, D_MAX)   BY <1>2, <1>3 DEF AreLooks
<1>5. f[D_MAX][v] = Unreadable   BY <1>1, <1>2, <1>4 DEF Look
<1> QED BY <1>3, <1>5

\* The protected set, by its walks.
LEMMA ProtectedIs ==
    \E f : AreWalks(f, D_MAX) /\ Protected = UNION {f[D_MAX][heads[q]] : q \in DOMAIN heads}
<1>0. D_MAX \in Nat   BY BoundsAssumption
<1> DEFINE P(f) == f = [left \in 0..D_MAX |-> [v \in Nat |->
                          IF v \notin DOMAIN tree THEN {}
                          ELSE {v} \cup (IF tree[v].full # NoBlob \/ left = 0 THEN {}
                                         ELSE f[left - 1][tree[v].parent])]]
<1>1. \E f : P(f)
  <2>1. PICK f : AreWalks(f, D_MAX)   BY <1>0, WalksExist
  <2> QED BY <2>1 DEF AreWalks, Walk
<1>2. P(CHOOSE f : P(f))   BY <1>1
<1>3. Protected = UNION {(CHOOSE f : P(f))[D_MAX][heads[q]] : q \in DOMAIN heads}
  BY DEF Protected
<1>4. AreWalks(CHOOSE f : P(f), D_MAX)   BY <1>2 DEF AreWalks, Walk
<1> QED BY <1>3, <1>4

\* The protected set has the chain of every head that has one.
LEMMA ChainsProtected ==
    ASSUME NEW p \in DOMAIN heads, NEW S, Chain(tree, S), heads[p] \in S,
           \A u \in S : u \in Nat
    PROVE  \E Z : Chain(tree, Z) /\ heads[p] \in Z /\ Z \subseteq Protected
<1>0. D_MAX \in Nat   BY BoundsAssumption
<1>2. PICK f : AreWalks(f, D_MAX) /\ Protected = UNION {f[D_MAX][heads[q]] : q \in DOMAIN heads}
  BY ProtectedIs
<1>4. \A m \in 0..D_MAX : f[m] = Walk(f, m)   BY <1>2 DEF AreWalks
<1> DEFINE Bad(m) == \E u \in S : tree[u].depth <= m /\ ~(Chain(tree, f[m][u]) /\ u \in f[m][u])
           T == {m \in 0..D_MAX : Bad(m)}
<1>a. \A u \in S : u \in DOMAIN tree /\ tree[u].depth \in 0..D_MAX   BY DEF Chain
<1>5. T = {}
  <2> SUFFICES ASSUME T # {} PROVE FALSE   OBVIOUS
  <2>1. T \subseteq Nat   BY <1>0
  <2>2. PICK m \in T : \A k \in T : m <= k
    <3> HIDE DEF T
    <3> QED BY <2>1, LeastNumber
  <2>3. PICK u \in S : tree[u].depth <= m /\ ~(Chain(tree, f[m][u]) /\ u \in f[m][u])   BY <2>2
  <2>4. m # 0 => m - 1 \in 0..D_MAX /\ m - 1 \notin T   BY <1>0, <2>1, <2>2
  <2>5. m # 0 => \A w \in S : tree[w].depth <= m - 1 =>
                    Chain(tree, f[m - 1][w]) /\ w \in f[m - 1][w]
    BY <2>4
  <2>6. f[m][u] = Walk(f, m)[u] /\ u \in Nat /\ m \in 0..D_MAX /\ u \in DOMAIN tree
    BY <1>4, <2>2, <1>a
  <2> HIDE DEF T
  <2>7. CASE tree[u].full # NoBlob
    <3>1. f[m][u] = {u}   BY <2>6, <2>7 DEF Walk
    <3>2. Chain(tree, {u})   BY <1>a, <2>7 DEF Chain
    <3> QED BY <2>3, <3>1, <3>2
  <2>8. CASE tree[u].full = NoBlob
    <3> DEFINE w == tree[u].parent
    <3>1. tree[u].delta # NoBlob /\ w \in S /\ tree[w].depth < tree[u].depth
      BY <2>8 DEF Chain
    <3>2. tree[w].depth \in 0..D_MAX /\ tree[u].depth \in 0..D_MAX
      BY <1>a, <3>1
    <3>3. m # 0 /\ tree[w].depth <= m - 1   BY <1>0, <2>3, <2>6, <3>1, <3>2
    <3>4. Chain(tree, f[m - 1][w]) /\ w \in f[m - 1][w]   BY <2>5, <3>1, <3>3
    <3>5. f[m][u] = {u} \cup f[m - 1][w]   BY <2>6, <2>8, <3>3 DEF Walk
    <3>6. Chain(tree, {u} \cup f[m - 1][w])
      <4> HIDE DEF w
      <4>1. w = tree[u].parent   BY DEF w
      <4> QED BY <2>6, <3>1, <3>2, <3>4, <4>1 DEF Chain
    <3> QED BY <2>3, <3>5, <3>6
  <2> QED BY <2>7, <2>8
<1>6. Chain(tree, f[D_MAX][heads[p]]) /\ heads[p] \in f[D_MAX][heads[p]]
  BY <1>0, <1>5, <1>a
<1>7. f[D_MAX][heads[p]] \subseteq Protected   BY <1>2
<1> QED BY <1>6, <1>7

\* A chain that is not touched is a chain.
LEMMA ChainKept ==
    ASSUME NEW f, NEW g, NEW S, Chain(f, S),
           \A u \in S : /\ u \in DOMAIN g /\ g[u].full = f[u].full /\ g[u].delta = f[u].delta
                        /\ g[u].depth = f[u].depth /\ g[u].parent = f[u].parent
    PROVE  Chain(g, S)
BY DEF Chain

\* The chains that are there stay under a version that is added.
LEMMA HangsWith ==
    ASSUME NEW f, NEW g, \A u \in DOMAIN f : u \in DOMAIN g /\ g[u] = f[u], NEW h, NEW out,
           Hangs(f, h, out)
    PROVE  Hangs(g, h, out)
<1>1. PICK S : Chain(f, S) /\ h \in S /\ S \cap out = {}   BY DEF Hangs
<1>2. \A u \in S : u \in DOMAIN f   BY <1>1 DEF Chain
<1>3. Chain(g, S)   BY <1>1, <1>2, ChainKept
<1> QED BY <1>1, <1>3 DEF Hangs

\* More versions do no harm to a chain.
LEMMA RootedWith ==
    ASSUME NEW f, NEW g, \A u \in DOMAIN f : u \in DOMAIN g /\ g[u] = f[u], NEW e, Rooted(f, e)
    PROVE  Rooted(g, e)
BY HangsWith DEF Rooted

\* A version on top of a chain has a chain.
LEMMA HangsUnder ==
    ASSUME NEW g, NEW n \in DOMAIN g, NEW e, Rooted(g, e), Shaped(e), e.trigger # "Delete",
           g[n].full = e.full, g[n].delta = e.delta, g[n].parent = e.parent,
           g[n].depth = IF e.delta = NoBlob THEN 0 ELSE g[e.parent].depth + 1
    PROVE  Hangs(g, n, {})
<1>0. D_MAX \in Nat   BY BoundsAssumption
<1>1. CASE e.delta = NoBlob
  <2>1. e.full # NoBlob   BY <1>1 DEF Shaped
  <2>2. Chain(g, {n})   BY <1>0, <1>1, <2>1 DEF Chain
  <2> QED BY <2>2 DEF Hangs
<1>2. CASE e.delta # NoBlob
  <2>1. PICK S : Chain(g, S) /\ e.parent \in S   BY <1>2 DEF Rooted, Hangs
  <2>2. g[e.parent].depth \in 0..D_MAX   BY <2>1 DEF Chain
  <2>3. g[n].depth \in 0..D_MAX /\ g[e.parent].depth < g[n].depth
    BY <1>0, <1>2, <2>2 DEF Rooted
  <2>4. Chain(g, S \cup {n})   BY <1>2, <2>1, <2>3 DEF Chain
  <2> QED BY <2>4 DEF Hangs
<1> QED BY <1>1, <1>2

\* A promoted version is its own base.
LEMMA ChainPromoted ==
    ASSUME NEW f, NEW g, NEW S, Chain(f, S), DOMAIN g = DOMAIN f,
           \A u \in DOMAIN f : g[u] = f[u] \/ (g[u].full # NoBlob /\ g[u].depth = 0)
    PROVE  Chain(g, S)
<1> SUFFICES ASSUME NEW u \in S
             PROVE  /\ u \in DOMAIN g /\ g[u].depth \in 0..D_MAX
                    /\ \/ g[u].full # NoBlob
                       \/ /\ g[u].delta # NoBlob /\ g[u].parent \in S
                          /\ g[g[u].parent].depth < g[u].depth
  BY DEF Chain
<1>1. u \in DOMAIN f /\ f[u].depth \in 0..D_MAX /\ D_MAX \in Nat
  BY BoundsAssumption DEF Chain
<1>2. CASE g[u] # f[u]   BY <1>1, <1>2
<1>3. CASE g[u] = f[u]
  <2>1. CASE f[u].full # NoBlob   BY <1>1, <1>3, <2>1
  <2>2. CASE f[u].full = NoBlob
    <3> DEFINE w == f[u].parent
    <3>1. f[u].delta # NoBlob /\ w \in S /\ f[w].depth < f[u].depth   BY <2>2 DEF Chain
    <3>2. w \in DOMAIN f /\ f[w].depth \in 0..D_MAX   BY <3>1 DEF Chain
    <3>3. g[w].depth < f[u].depth   BY <1>1, <3>1, <3>2
    <3> QED BY <1>1, <1>3, <3>1, <3>3
  <2> QED BY <2>1, <2>2
<1> QED BY <1>2, <1>3

\* A promotion changes one version, into a full snapshot.
LEMMA PromotedShapes ==
    ASSUME SInv, NEW v \in plan.promote, GcPromote(v)
    PROVE  /\ DOMAIN tree' = DOMAIN tree
           /\ \A u \in DOMAIN tree :
                /\ tree'[u].trigger = tree[u].trigger /\ tree'[u].seq = tree[u].seq
                /\ tree'[u] = tree[u] \/ (tree'[u].full # NoBlob /\ tree'[u].depth = 0)
                /\ u # v => tree'[u] = tree[u]
<1>1. <<Read(tree, v)>> # NoBlob   BY DEF NoBlob
<1>2. CASE tree' = tree   BY <1>2
<1>3. CASE /\ DOMAIN tree' = DOMAIN tree
           /\ \A u \in DOMAIN tree : u # v => tree'[u] = tree[u]
           /\ tree'[v].full = <<Read(tree, v)>> /\ tree'[v].depth = 0
           /\ tree'[v].trigger = tree[v].trigger /\ tree'[v].seq = tree[v].seq
  <2> HIDE DEF NoBlob
  <2> QED BY <1>1, <1>3
<1> QED BY <1>2, <1>3, PromotedNodes

\* There is no head yet.
LEMMA CInit == Init => ChainInv
<1> SUFFICES ASSUME Init PROVE ChainInv   OBVIOUS
<1>1. DOMAIN heads = {} /\ at = "idle"   BY DEF Init
<1> QED BY <1>1 DEF ChainInv, HeadsHang, OpRooted, TableHangs, Busy

\* Every step leaves every head its chain.
LEMMA CNext ==
    ASSUME SInv, SInv', TreeInv, TreeInv', LogInv, FaithInv, ChainInv, [Next]_vars
    PROVE  ChainInv'
<1> SUFFICES ASSUME Firm' PROVE HeadsHang' /\ OpRooted' /\ TableHangs'   BY DEF ChainInv
<1>0. Firm /\ HeadsHang /\ OpRooted /\ TableHangs   BY FirmBefore DEF ChainInv
<1>a. \A p \in DOMAIN heads : heads[p] \in DOMAIN tree   BY DEF SInv, NodesInv
<1>b. \A v \in DOMAIN tree : v \in Nat   BY DEF SInv, NodesInv, AreNodes
<1>1. CASE Still
  <2>1. UNCHANGED <<tree, rows, heads, evicted>>   BY <1>1 DEF Still
  <2>2. Loaded' => Loaded   BY <1>1 DEF Still, Loaded
  <2>3. HeadsHang'
    <3> SUFFICES ASSUME Loaded', NEW p \in DOMAIN heads, tree[heads[p]].trigger # "Delete"
                 PROVE  Hangs(tree, heads[p], plan'.evict)
      BY <2>1 DEF HeadsHang
    <3>1. PICK S : Chain(tree, S) /\ heads[p] \in S /\ S \cap plan.evict = {}
      BY <1>0, <2>2 DEF HeadsHang, Hangs
    <3>2. CASE plan'.evict \subseteq plan.evict
      BY <3>1, <3>2 DEF Hangs
    <3>3. CASE PlanPass
      <4>1. \A u \in S : u \in Nat   BY <1>b, <3>1 DEF Chain
      <4>2. PICK Z : Chain(tree, Z) /\ heads[p] \in Z /\ Z \subseteq Protected
        BY <3>1, <4>1, ChainsProtected
      <4>3. Z \cap plan'.evict = {}   BY <3>3, <4>2, PlanSpares
      <4> QED BY <4>2, <4>3 DEF Hangs
    <3> QED BY <1>1, <3>2, <3>3 DEF Still
  <2>4. OpRooted'
    <3>1. at' \in Busy => at \in Busy /\ op' = op   BY <1>1 DEF Still, Busy
    <3> QED BY <1>0, <2>1, <3>1 DEF OpRooted
  <2>5. TableHangs'
    <3>1. at' \in {"down", "replay"} => at' = at /\ at \in {"down", "replay"}   BY <1>1 DEF Still
    <3>2. at \in {"down", "replay"} => wal' = wal   BY <1>1 DEF Still, Ready
    <3> QED BY <1>0, <2>1, <3>1, <3>2 DEF TableHangs, NewestRow, Kept
  <2> QED BY <2>3, <2>4, <2>5
<1>2. ASSUME NEW p \in Paths, NEW c, NEW shape, NEW trigger, Records(p, c, shape, trigger)
      PROVE  HeadsHang' /\ OpRooted' /\ TableHangs'
  <2>1. /\ UNCHANGED <<tree, rows, heads, wal, plan>> /\ at = "idle" /\ at' = "log"
        /\ op'.delta = shape.delta /\ op'.depth = shape.depth /\ op'.parent = HeadOf(p)
        /\ op'.trigger = trigger
    BY <1>2 DEF Records, Start, todo, Ready
  <2>2. plan.evict = {} /\ Loaded   BY <2>1, NoPlanFields DEF SInv, TodoInv, Loaded
  <2>3. HeadsHang'   BY <1>0, <2>1, <2>2 DEF HeadsHang
  <2>4. CASE shape.delta = NoBlob
    <3>1. trigger = "Delete" \/ shape.depth = 0
      <4>1. \/ trigger = "Delete" /\ shape.full = NoBlob
            \/ shape.full # NoBlob
        BY <1>2, <2>4 DEF Records
      <4> QED BY <1>2, <2>4, <4>1 DEF Records
    <3> QED BY <2>1, <2>3, <2>4, <3>1 DEF OpRooted, Rooted, TableHangs
  <2>5. CASE shape.delta # NoBlob
    <3> DEFINE h == HeadOf(p)
    <3>1. h \in DOMAIN tree /\ Read(tree, h) # Unreadable /\ shape.depth = tree[h].depth + 1
          /\ tree[h].depth + 1 <= D_MAX
      BY <1>2, <2>5 DEF Records
    <3>2. p \in DOMAIN heads /\ h = heads[p]
      BY <3>1 DEF HeadOf, TreeInv, IdsInv, Placed, Root
    <3>3. tree[h].trigger # "Delete"   BY <3>1, TombstoneUnreadable
    <3>4. Hangs(tree, h, {})   BY <1>0, <2>2, <3>2, <3>3 DEF HeadsHang
    <3> QED BY <2>1, <2>3, <2>5, <3>1, <3>4 DEF OpRooted, Rooted, TableHangs
  <2> QED BY <2>4, <2>5
<1>3. CASE CommitEntry
  <2>1. UNCHANGED <<tree, rows, heads, plan, op>> /\ at = "log" /\ at' \in {"restore", "row"}
    BY <1>3 DEF CommitEntry, memory, todo
  <2> QED BY <1>0, <2>1 DEF HeadsHang, OpRooted, TableHangs, Busy, Loaded
<1>4. CASE Advances
  <2>1. at = "row" /\ at' \in {"idle", "gc", "done"} /\ plan' = plan   BY <1>4 DEF Advances
  <2>2. plan.evict = {} /\ Loaded /\ at \in Busy
    BY <2>1, NoPlanFields DEF SInv, TodoInv, Loaded, Busy
  <2>3. \A u \in DOMAIN tree : u \in DOMAIN tree' /\ tree'[u] = tree[u]
    BY <1>4, AdvancedNodes
  <2>4. ASSUME NEW p \in DOMAIN heads', tree'[heads'[p]].trigger # "Delete"
        PROVE  Hangs(tree', heads'[p], {})
    <3>1. CASE p = op.path
      <4>1. /\ heads'[p] = nextId /\ nextId \in DOMAIN tree'
            /\ LET n == tree'[nextId] IN
               /\ n.parent = op.parent /\ n.full = op.full /\ n.delta = op.delta
               /\ n.depth = op.depth /\ n.trigger = op.trigger
        BY <1>4, <3>1, AdvancedNodes
      <4>2. Rooted(tree', op) /\ Shaped(op)
        BY <1>0, <2>2, <2>3, RootedWith DEF OpRooted, TreeInv, OrderInv
      <4>3. op.delta # NoBlob => tree'[op.parent] = tree[op.parent]
        BY <1>0, <2>2, <2>3 DEF OpRooted, Rooted
      <4>4. op.depth = IF op.delta = NoBlob THEN 0 ELSE tree'[op.parent].depth + 1
        BY <1>0, <2>2, <2>4, <4>1, <4>3 DEF OpRooted
      <4> QED BY <2>4, <4>1, <4>2, <4>4, HangsUnder
    <3>2. CASE p # op.path
      <4>1. p \in DOMAIN heads /\ heads'[p] = heads[p]   BY <1>4, <3>2, AdvancedNodes
      <4>2. tree'[heads[p]] = tree[heads[p]]   BY <1>a, <2>3, <4>1
      <4>3. Hangs(tree, heads[p], {})   BY <1>0, <2>2, <2>4, <4>1, <4>2 DEF HeadsHang
      <4> QED BY <2>3, <4>1, <4>3, HangsWith
    <3> QED BY <3>1, <3>2
  <2> QED BY <2>1, <2>2, <2>4 DEF HeadsHang, OpRooted, TableHangs, Busy
<1>5. ASSUME NEW v \in plan.promote, GcPromote(v)
      PROVE  HeadsHang' /\ OpRooted' /\ TableHangs'
  <2>1. /\ at = "evict" /\ at' \in {"evict", "idle"} /\ heads' = heads
        /\ plan'.evict \subseteq plan.evict /\ v \in DOMAIN tree
        /\ DOMAIN tree' = DOMAIN tree
    BY <1>5, PromotedNodes
  <2>2. Loaded   BY <2>1 DEF Loaded
  <2>3. \A u \in DOMAIN tree :
          /\ tree'[u].trigger = tree[u].trigger
          /\ tree'[u] = tree[u] \/ (tree'[u].full # NoBlob /\ tree'[u].depth = 0)
    BY <1>5, PromotedShapes
  <2>4. ASSUME NEW S, Chain(tree, S) PROVE Chain(tree', S)   BY <2>1, <2>3, <2>4, ChainPromoted
  <2>5. HeadsHang'
    <3> SUFFICES ASSUME NEW p \in DOMAIN heads, tree'[heads[p]].trigger # "Delete"
                 PROVE  Hangs(tree', heads[p], plan'.evict)
      BY <2>1 DEF HeadsHang
    <3>1. PICK S : Chain(tree, S) /\ heads[p] \in S /\ S \cap plan.evict = {}
      BY <1>0, <1>a, <2>2, <2>3 DEF HeadsHang, Hangs
    <3> QED BY <2>1, <2>4, <3>1 DEF Hangs
  <2> QED BY <2>1, <2>5 DEF OpRooted, TableHangs, Busy
<1>6. ASSUME NEW v \in plan.evict, GcDelete(v)
      PROVE  HeadsHang' /\ OpRooted' /\ TableHangs'
  <2>1. at = "evict" /\ at' = "evict" /\ plan'.evict = plan.evict \ {v}
        /\ DOMAIN tree' = DOMAIN tree \ {v}
    BY <1>6, DeletedNodes
  <2>2. Loaded   BY <2>1 DEF Loaded
  <2>3. DOMAIN heads' = DOMAIN heads /\ \A p \in DOMAIN heads : heads'[p] = heads[p]
    BY <1>6, TDelete
  <2>4. \A u \in DOMAIN tree : u # v =>
           /\ tree'[u].full = tree[u].full /\ tree'[u].delta = tree[u].delta
           /\ tree'[u].depth = tree[u].depth /\ tree'[u].trigger = tree[u].trigger
           /\ tree'[u].parent = IF tree[u].parent = v THEN Root ELSE tree[u].parent
    BY <1>6, DeletedNodes
  <2>5. ASSUME NEW S, Chain(tree, S), v \notin S PROVE Chain(tree', S)
    <3>1. \A u \in S : u \in DOMAIN tree /\ u # v   BY <2>5 DEF Chain
    <3> QED BY <2>1, <2>4, <2>5, <3>1 DEF Chain
  <2>6. HeadsHang'
    <3> SUFFICES ASSUME NEW p \in DOMAIN heads, tree'[heads[p]].trigger # "Delete"
                 PROVE  Hangs(tree', heads[p], plan'.evict)
      BY <2>3 DEF HeadsHang
    <3>1. heads[p] \in DOMAIN tree /\ heads[p] # v   BY <1>a, <2>2 DEF TreeInv, TopInv
    <3>2. PICK S : Chain(tree, S) /\ heads[p] \in S /\ S \cap plan.evict = {}
      BY <1>0, <2>2, <2>4, <3>1 DEF HeadsHang, Hangs
    <3>3. v \notin S   BY <3>2
    <3> QED BY <2>1, <2>5, <3>2, <3>3 DEF Hangs
  <2> QED BY <2>1, <2>6 DEF OpRooted, TableHangs, Busy
<1>7. CASE Dies
  <2>1. /\ UNCHANGED <<wal, spoilt, faults>> /\ at # "down" /\ at' = "down"
        /\ crashes' = crashes + 1 /\ DOMAIN heads' = {} /\ evicted \subseteq evicted'
        /\ Loosened(rows, rows') /\ AreNodes(rows)
        /\ \/ rows' = rows /\ evicted' = evicted
           \/ at = "evict" /\ \E v \in plan.evict : rows' = Detached(rows, v)
    BY <1>7, DiesWhat DEF SInv, NodesInv
  <2>2. Clean   BY <2>1 DEF Firm, Clean, TreeInv, IdsInv
  <2>3. tree = rows /\ at # "failed"   BY <2>1, <2>2 DEF LogInv
  <2>4. CASE at = "replay"
    BY <1>0, <2>1, <2>4 DEF HeadsHang, OpRooted, TableHangs, Busy, NewestRow, Kept
  <2>5. CASE at # "replay"
    <3>1. Loaded   BY <2>1, <2>3, <2>5 DEF Loaded
    <3>2. /\ DOMAIN rows' = DOMAIN rows
          /\ \A u \in DOMAIN rows : /\ rows'[u].path = rows[u].path /\ rows'[u].seq = rows[u].seq
                                    /\ rows'[u].trigger = rows[u].trigger
          /\ SeqsOf(rows') = SeqsOf(rows)
      BY <2>1 DEF Loosened, SeqsOf
    <3>3. ASSUME NEW S, Chain(rows, S), S \cap plan.evict = {} PROVE Chain(rows', S)
      <4>1. CASE rows' = rows   BY <3>3, <4>1
      <4>2. ASSUME NEW v \in plan.evict, rows' = Detached(rows, v) PROVE Chain(rows', S)
        <5>1. \A u \in DOMAIN rows : rows[u].parent # v => rows'[u] = rows[u]
          BY <2>1, <4>2, DetachedNodes
        <5>2. \A u \in DOMAIN rows :
                /\ rows'[u].full = rows[u].full /\ rows'[u].delta = rows[u].delta
                /\ rows'[u].depth = rows[u].depth
          BY <2>1 DEF Loosened
        <5>3. \A u \in S : u \in DOMAIN rows   BY <3>3 DEF Chain
        <5>4. v \notin S   BY <3>3
        <5> QED BY <3>2, <3>3, <5>1, <5>2, <5>3, <5>4 DEF Chain
      <4> QED BY <2>1, <4>1, <4>2
    <3>4. ASSUME NEW v \in DOMAIN rows', NewestRow(v)', rows'[v].trigger # "Delete"
          PROVE  Hangs(rows', v, {})
      <4> DEFINE h == heads[tree[v].path]
      <4>0. v \in DOMAIN rows /\ NewestRow(v) /\ rows[v].trigger # "Delete"
        BY <3>2, <3>4 DEF NewestRow
      <4>1. tree[v].path \in DOMAIN heads   BY <2>3, <3>1, <4>0 DEF TreeInv, TopInv
      <4>2. h \in DOMAIN tree /\ tree[h].path = tree[v].path /\ tree[v].seq <= tree[h].seq
        BY <1>a, <2>3, <3>1, <4>0, <4>1 DEF TreeInv, TopInv
      <4>3. tree[h].seq <= tree[v].seq   BY <2>3, <4>0, <4>2 DEF NewestRow
      <4>4. tree[h].seq = tree[v].seq
        BY <2>3, <4>0, <4>2, <4>3, BoundsAssumption DEF SInv, NodesInv, AreNodes, IsNode
      <4>5. h = v   BY <2>3, <4>0, <4>2, <4>4 DEF SInv, NodesInv, AreNodes
      <4>6. Hangs(tree, v, plan.evict)   BY <1>0, <2>3, <3>1, <4>0, <4>1, <4>5 DEF HeadsHang
      <4>7. PICK S : Chain(rows, S) /\ v \in S /\ S \cap plan.evict = {}
        BY <2>3, <4>6 DEF Hangs
      <4> QED BY <3>3, <4>7 DEF Hangs
    <3>5. ASSUME NEW e \in Elems(wal), ~Kept(e)' PROVE Rooted(rows', e)
      <4>0. ~Kept(e)   BY <2>1, <3>2, <3>5 DEF Kept
      <4>1. at \in {"restore", "row"} /\ e.seq = op.seq
        BY <2>1, <2>2, <2>5, <4>0 DEF LogInv
      <4>2. e = Entry(op, op.parent, op.trigger)   BY <4>1 DEF TreeInv, OrderInv
      <4>3. e.delta = op.delta /\ e.parent = op.parent   BY <4>2, EntryFields
      <4>4. Rooted(tree, op)   BY <1>0, <4>1 DEF OpRooted, Busy
      <4>5. rows' = rows   BY <2>1, <4>1
      <4> QED BY <2>3, <4>3, <4>4, <4>5 DEF Rooted
    <3> QED BY <2>1, <3>4, <3>5 DEF HeadsHang, OpRooted, TableHangs, Busy
  <2> QED BY <2>4, <2>5
<1>8. CASE Open
  <2>1. UNCHANGED <<wal, rows, evicted>> /\ at = "down" /\ at' = "replay"
    BY <1>8 DEF Open, durable, ghost
  <2> QED BY <1>0, <2>1
    DEF HeadsHang, OpRooted, TableHangs, Busy, NewestRow, Kept, Loaded
<1>9. CASE Replay
  <2>0. PICK e : e = Head(tasks)   OBVIOUS
  <2>1. /\ at = "replay" /\ at' \in {"replay", "failed"} /\ tree = rows /\ e \in Elems(wal)
        /\ ~HasNode(e) /\ UNCHANGED <<wal, evicted>>
        /\ spoilt' = IF e.seq \in evicted THEN spoilt \cup {"resurrected"} ELSE spoilt
    BY <1>9, <2>0, ReplayedNodes
  <2>2. HeadsHang' /\ OpRooted'   BY <2>1 DEF HeadsHang, OpRooted, Busy, Loaded
  <2>3. CASE at' = "failed"   BY <2>2, <2>3 DEF TableHangs
  <2>4. CASE at' = "replay"
    <3>1. e.seq \notin evicted   BY <2>1 DEF Firm
    <3>2. ~Kept(e)   BY <2>1, <3>1 DEF Kept, HasNode
    <3>3. Rooted(rows, e) /\ Shaped(e)
      BY <1>0, <2>1, <3>2 DEF TableHangs, TreeInv, OrderInv, HasNode
    <3>4. /\ DOMAIN rows' = DOMAIN rows \cup {nextId}
          /\ \A u \in DOMAIN rows : u \in DOMAIN rows' /\ rows'[u] = rows[u]
          /\ LET n == rows'[nextId] IN
             /\ n.path = e.path /\ n.seq = e.seq /\ n.parent = e.parent
             /\ n.full = e.full /\ n.delta = e.delta /\ n.depth = ReplayDepth(e)
             /\ n.trigger = e.trigger
      BY <1>9, <2>0, <2>4, ReplayedNodes
    <3>5. Rooted(rows', e)   BY <3>3, <3>4, RootedWith
    <3>6. ReplayDepth(e) = IF e.delta = NoBlob THEN 0 ELSE rows'[e.parent].depth + 1
      <4>1. e.delta # NoBlob => e.parent \in DOMAIN tree /\ rows'[e.parent] = tree[e.parent]
        BY <2>1, <3>3, <3>4 DEF Rooted
      <4> QED BY <4>1 DEF ReplayDepth
    <3>7. e.trigger # "Delete" => Hangs(rows', nextId, {})
      BY <3>3, <3>4, <3>5, <3>6, HangsUnder
    <3>8. ASSUME NEW v \in DOMAIN rows', NewestRow(v)', rows'[v].trigger # "Delete"
          PROVE  Hangs(rows', v, {})
      <4>1. CASE v = nextId   BY <3>4, <3>7, <3>8, <4>1
      <4>2. CASE v # nextId
        <5>1. v \in DOMAIN rows /\ rows'[v] = rows[v]   BY <3>4, <4>2
        <5>2. NewestRow(v)   BY <3>4, <3>8, <5>1 DEF NewestRow
        <5>3. Hangs(rows, v, {})   BY <1>0, <2>1, <3>8, <5>1, <5>2 DEF TableHangs
        <5> QED BY <3>4, <5>3, HangsWith
      <4> QED BY <4>1, <4>2
    <3>9. SeqsOf(rows) \subseteq SeqsOf(rows')   BY <3>4 DEF SeqsOf
    <3>10. ASSUME NEW d \in Elems(wal'), ~Kept(d)' PROVE Rooted(rows', d)
      <4>1. d \in Elems(wal) /\ ~Kept(d)   BY <2>1, <3>9, <3>10 DEF Kept
      <4>2. Rooted(rows, d)   BY <1>0, <2>1, <4>1 DEF TableHangs
      <4> QED BY <3>4, <4>2, RootedWith
    <3> QED BY <2>2, <3>8, <3>10 DEF TableHangs
  <2> QED BY <2>1, <2>3, <2>4
<1>10. CASE Opened
  <2>1. /\ at = "replay" /\ at' = "recover" /\ heads' = NewestHeads(tree)
        /\ UNCHANGED <<tree, rows, plan>>
    BY <1>10 DEF Opened, durable
  <2>2. tree = rows /\ AreNodes(tree) /\ plan.evict = {}
    BY <2>1, NoPlanFields DEF SInv, NodesInv, TodoInv
  <2>3. \A p \in DOMAIN heads' : heads'[p] \in DOMAIN rows /\ NewestRow(heads'[p])
    BY <2>1, <2>2, NewestIsThere DEF NewestRow
  <2> QED BY <1>0, <2>1, <2>2, <2>3 DEF HeadsHang, OpRooted, TableHangs, Busy
<1> QED BY <1>1, <1>2, <1>3, <1>4, <1>5, <1>6, <1>7, <1>8, <1>9, <1>10, Kinds

\* A head with its chain, whose blobs are there, reads as what was recorded.
LEMMA ChainsAreRead ==
    SInv /\ TreeInv /\ LogInv /\ RefsInv /\ RightInv /\ ChainInv => HeadIsReadable
<1> SUFFICES ASSUME SInv, TreeInv, LogInv, RefsInv, RightInv, ChainInv, Firm,
                    NEW p \in DOMAIN heads, tree[heads[p]].trigger # "Delete"
             PROVE  Read(tree, heads[p]) = truth[tree[heads[p]].seq]
  BY DEF HeadIsReadable, Firm
<1>1. Loaded
  <2>1. at = "failed" => Clean   BY DEF Firm, Clean, TreeInv, IdsInv
  <2>2. at # "failed"   BY <2>1 DEF LogInv
  <2>3. at \notin {"down", "replay"}   BY DEF SInv, NodesInv
  <2> QED BY <2>2, <2>3 DEF Loaded
<1>2. PICK S : Chain(tree, S) /\ heads[p] \in S   BY <1>1 DEF ChainInv, HeadsHang, Hangs
<1>3. \A u \in S : u \in DOMAIN tree /\ u \in Nat   BY <1>2 DEF Chain, SInv, NodesInv, AreNodes
<1>4. Right(truth, tree)   BY DEF RightInv, Firm, Traced
<1>5. \A u \in DOMAIN tree : /\ tree[u].full # NoBlob => tree[u].full \in DOMAIN refs
                             /\ tree[u].delta # NoBlob => tree[u].delta \in DOMAIN refs
  <2>1. RefsCoverNodes /\ spoilt \cap {"resurrected"} = {}   BY RefsCover DEF Firm
  <2> DEFINE B == UNION {{tree[v].full, tree[v].delta} : v \in DOMAIN tree}
  <2>2. \A b \in B \ {NoBlob} : b \in DOMAIN refs   BY <2>1 DEF RefsCoverNodes
  <2>3. \A u \in DOMAIN tree : tree[u].full \in B /\ tree[u].delta \in B   OBVIOUS
  <2> QED BY <2>2, <2>3
<1> QED BY <1>2, <1>3, <1>4, <1>5, ChainReads

-----------------------------------------------------------------------------
(* The order of the log. *)

IsMark(e) == e.trigger = "DeclineDone"

\* Apart from the marks, the numbers grow.
Sorted(s) ==
    \A i, j \in 1..Len(s) : i < j /\ ~IsMark(s[i]) /\ ~IsMark(s[j]) => s[i].seq < s[j].seq

\* An empty log is in order.
LEMMA SortedEmpty == Sorted(<<>>)
<1>1. 1..Len(<<>>) = {}   OBVIOUS
<1> QED BY <1>1 DEF Sorted

\* An entry with a higher number than all, or a mark, keeps the log in order.
LEMMA SortedAppend ==
    ASSUME NEW s, NEW e, IsSeq(s), Sorted(s),
           IsMark(e) \/ \A d \in Elems(s) : IsMark(d) \/ d.seq < e.seq
    PROVE  Sorted(Append(s, e))
<1>1. PICK S : s \in Seq(S)   BY DEF IsSeq
<1>2. s \in Seq(S \cup {e}) /\ e \in S \cup {e}   BY <1>1
<1> HIDE <1>1
<1>3. Len(s) \in Nat /\ Len(Append(s, e)) = Len(s) + 1   BY <1>2
<1>4. \A i \in 1..Len(s) : Append(s, e)[i] = s[i]   BY <1>2
<1>5. Append(s, e)[Len(s) + 1] = e   BY <1>2
<1>6. \A i \in 1..Len(s) : s[i] \in Elems(s)   BY DEF Elems
<1> DEFINE a == Append(s, e)
<1> HIDE DEF a
<1> SUFFICES ASSUME NEW i \in 1..Len(a), NEW j \in 1..Len(a), i < j, ~IsMark(a[i]), ~IsMark(a[j])
             PROVE  a[i].seq < a[j].seq
  BY DEF Sorted, a
<1>7. i \in 1..Len(s) /\ a[i] = s[i]   BY <1>3, <1>4 DEF a
<1>8. CASE j \in 1..Len(s)
  <2>1. a[j] = s[j]   BY <1>4, <1>8 DEF a
  <2> QED BY <1>7, <1>8, <2>1 DEF Sorted
<1>9. CASE j = Len(s) + 1   BY <1>5, <1>6, <1>7, <1>9 DEF a
<1> QED BY <1>3, <1>8, <1>9 DEF a

\* The rest of a log in order is in order, and above its head.
LEMMA SortedTail ==
    ASSUME NEW s, IsSeq(s), s # <<>>, Sorted(s)
    PROVE  /\ Sorted(Tail(s))
           /\ IsMark(Head(s)) \/ \A d \in Elems(Tail(s)) : IsMark(d) \/ Head(s).seq < d.seq
<1>1. PICK S : s \in Seq(S)   BY DEF IsSeq
<1>2. Tail(s) \in Seq(S) /\ Len(s) \in Nat \ {0} /\ Len(Tail(s)) = Len(s) - 1 /\ Head(s) = s[1]
  BY <1>1
<1>3. \A i \in 1..Len(Tail(s)) : Tail(s)[i] = s[i + 1]   BY <1>1, <1>2
<1> DEFINE t == Tail(s)
<1> HIDE DEF t
<1>4. Sorted(t)
  <2> SUFFICES ASSUME NEW i \in 1..Len(t), NEW j \in 1..Len(t), i < j, ~IsMark(t[i]), ~IsMark(t[j])
               PROVE  t[i].seq < t[j].seq
    BY DEF Sorted
  <2>1. t[i] = s[i + 1] /\ t[j] = s[j + 1]   BY <1>3 DEF t
  <2>2. i + 1 \in 1..Len(s) /\ j + 1 \in 1..Len(s) /\ i + 1 < j + 1   BY <1>2 DEF t
  <2> QED BY <2>1, <2>2 DEF Sorted
<1>5. ASSUME ~IsMark(Head(s)), NEW d \in Elems(t), ~IsMark(d) PROVE Head(s).seq < d.seq
  <2>1. PICK i \in 1..Len(t) : d = t[i]   BY DEF Elems
  <2>2. d = s[i + 1] /\ i + 1 \in 1..Len(s) /\ 1 \in 1..Len(s) /\ 1 < i + 1
    BY <1>2, <1>3, <2>1 DEF t
  <2> QED BY <1>2, <1>5, <2>2 DEF Sorted
<1> QED BY <1>4, <1>5 DEF t

\* No two entries of a log in order have the same number.
LEMMA SortedUnique ==
    ASSUME NEW s, IsSeq(s), Sorted(s), \A x \in Elems(s) : x.seq \in Nat,
           NEW d \in Elems(s), NEW e \in Elems(s), ~IsMark(d), ~IsMark(e), d.seq = e.seq
    PROVE  d = e
<1>1. PICK i \in 1..Len(s) : d = s[i]   BY DEF Elems
<1>2. PICK j \in 1..Len(s) : e = s[j]   BY DEF Elems
<1>3. Len(s) \in Nat   BY DEF IsSeq
<1>4. ~(i < j) /\ ~(j < i)   BY <1>1, <1>2 DEF Sorted
<1>5. i = j   BY <1>3, <1>4
<1> QED BY <1>1, <1>2, <1>5

\* Every version from the log's first one on is in the log.
Covers(nodes) ==
    \A e \in Elems(wal) : IsMark(e) \/ \A v \in DOMAIN nodes :
        nodes[v].seq > e.seq => \E d \in Elems(wal) : ~IsMark(d) /\ d.seq = nodes[v].seq

\* Replay goes through the log in order, and hands out the ids after the rows'.
AlongInv ==
    /\ Sorted(wal)
    /\ at \in {"restore", "row"} =>
         /\ \A e \in Elems(wal) : IsMark(e) \/ e.seq <= op.seq
         /\ \E e \in Elems(wal) : ~IsMark(e) /\ e.seq = op.seq
    /\ Covers(tree) /\ Covers(rows)
    /\ at = "replay" => /\ Sorted(tasks)
                        /\ \A e \in Elems(wal) : e \in Elems(tasks) \/ HasNode(e)
                        /\ nextId = 1 \/ nextId - 1 \in DOMAIN rows

\* The log is empty.
LEMMA AInit == Init => AlongInv
<1> SUFFICES ASSUME Init PROVE AlongInv   OBVIOUS
<1>1. Sorted(wal) /\ Elems(wal) = {} /\ at = "idle"   BY SortedEmpty, EmptySeq DEF Init
<1> QED BY <1>1 DEF AlongInv, Covers

\* The same log, or at most a mark more, covers what it covered.
LEMMA CoversOn ==
    ASSUME NEW f, NEW g, Covers(f),
           \A e \in Elems(wal') : e \in Elems(wal) \/ IsMark(e),
           Elems(wal') # {} => Elems(wal) \subseteq Elems(wal'),
           \A v \in DOMAIN g :
               \/ \E u \in DOMAIN f : g[v].seq = f[u].seq
               \/ \E d \in Elems(wal) : ~IsMark(d) /\ d.seq = g[v].seq
    PROVE  \A e \in Elems(wal') : IsMark(e) \/ \A v \in DOMAIN g :
               g[v].seq > e.seq => \E d \in Elems(wal') : ~IsMark(d) /\ d.seq = g[v].seq
BY DEF Covers

\* Every step keeps the log, and what is left to replay, in order.
LEMMA ANext ==
    ASSUME SInv, SInv', TreeInv, AlongInv, [Next]_vars
    PROVE  AlongInv'
<1> USE DEF AlongInv
<1>a. IsSeq(wal) /\ \A e \in Elems(wal) : e.seq \in Int
  BY BoundsAssumption DEF SInv, NumbersInv
<1>b. ASSUME UNCHANGED wal,
             \A v \in DOMAIN tree' : \/ \E u \in DOMAIN tree : tree'[v].seq = tree[u].seq
                                     \/ \E d \in Elems(wal) : ~IsMark(d) /\ d.seq = tree'[v].seq,
             \A v \in DOMAIN rows' : \/ \E u \in DOMAIN rows : rows'[v].seq = rows[u].seq
                                     \/ \E d \in Elems(wal) : ~IsMark(d) /\ d.seq = rows'[v].seq
      PROVE  Covers(tree)' /\ Covers(rows)'
  <2>1. \A e \in Elems(wal') : IsMark(e) \/ \A v \in DOMAIN tree' :
               tree'[v].seq > e.seq => \E d \in Elems(wal') : ~IsMark(d) /\ d.seq = tree'[v].seq
    BY <1>b, CoversOn
  <2>2. \A e \in Elems(wal') : IsMark(e) \/ \A v \in DOMAIN rows' :
               rows'[v].seq > e.seq => \E d \in Elems(wal') : ~IsMark(d) /\ d.seq = rows'[v].seq
    BY <1>b, CoversOn
  <2> QED BY <2>1, <2>2 DEF Covers
<1>1. CASE Still
  <2>1. UNCHANGED <<tree, rows, nextId>>   BY <1>1 DEF Still
  <2>2. Sorted(wal')
    <3>1. CASE wal' = wal   BY <3>1
    <3>2. CASE wal' = <<>>   BY <3>2, SortedEmpty
    <3>3. ASSUME NEW e, wal' = Append(wal, Entry(e, Root, "DeclineDone")) PROVE Sorted(wal')
      <4>1. IsMark(Entry(e, Root, "DeclineDone"))   BY EntryFields DEF IsMark
      <4> QED BY <1>a, <3>3, <4>1, SortedAppend
    <3> QED BY <1>1, <3>1, <3>2, <3>3 DEF Still
  <2>3. at' \in {"restore", "row"} => at \in {"restore", "row"} /\ UNCHANGED <<op, wal>>
    BY <1>1 DEF Still, Busy
  <2>4. Covers(tree)' /\ Covers(rows)'
    <3>1. /\ \A e \in Elems(wal') : e \in Elems(wal) \/ IsMark(e)
          /\ Elems(wal') # {} => Elems(wal) \subseteq Elems(wal')
      BY <1>1, StillLog DEF IsMark
    <3> QED BY <2>1, <3>1, CoversOn DEF Covers
  <2>5. ASSUME at' = "replay"
        PROVE  /\ Sorted(tasks')
               /\ \A e \in Elems(wal') : e \in Elems(tasks') \/ HasNode(e)'
               /\ nextId' = 1 \/ nextId' - 1 \in DOMAIN rows'
    <3>1. at = "replay" /\ wal' = wal   BY <1>1, <2>5 DEF Still, Ready
    <3>2. CASE tasks' = tasks   BY <2>1, <3>1, <3>2 DEF HasNode
    <3>3. CASE tasks # <<>> /\ HasNode(Head(tasks)) /\ tasks' = Tail(tasks)
      <4>1. Elems(tasks) = {Head(tasks)} \cup Elems(tasks')
        BY <3>3, TailSeq DEF SInv, TodoInv
      <4>2. Sorted(tasks')   BY <3>1, <3>3, SortedTail DEF SInv, TodoInv
      <4> QED BY <2>1, <3>1, <3>3, <4>1, <4>2 DEF HasNode
    <3> QED BY <1>1, <2>5, <3>2, <3>3 DEF Still
  <2> QED BY <2>1, <2>2, <2>3, <2>4, <2>5
<1>2. ASSUME NEW p \in Paths, NEW c, NEW shape, NEW trigger, Records(p, c, shape, trigger)
      PROVE  AlongInv'
  <2>1. UNCHANGED <<tree, rows, wal>> /\ at' = "log"   BY <1>2 DEF Records, Start
  <2> QED BY <2>1 DEF Covers
<1>3. CASE CommitEntry
  <2>0. PICK e : e = Entry(op, op.parent, op.trigger)   OBVIOUS
  <2>1. /\ UNCHANGED <<tree, rows, op>> /\ at = "log" /\ at' \in {"restore", "row"}
        /\ wal' = Append(wal, e)
    BY <1>3, <2>0 DEF CommitEntry, memory
  <2>2. Elems(wal') = Elems(wal) \cup {e}   BY <1>a, <2>1, AppendSeq
  <2>3. e.seq = op.seq /\ ~IsMark(e) /\ op.seq \in Int
    BY <2>0, <2>1, EntryFields, BoundsAssumption DEF IsMark, TreeInv, OrderInv, Busy, SInv, OpInv
  <2>4. \A d \in Elems(wal) : d.seq < op.seq   BY <2>1 DEF TreeInv, OrderInv
  <2>5. Sorted(wal')   BY <1>a, <2>1, <2>3, <2>4, SortedAppend
  <2>6. \A v \in DOMAIN tree : tree[v].seq < op.seq /\ tree[v].seq \in Int
    BY <2>1, BoundsAssumption DEF TreeInv, OrderInv, Busy, SInv, NodesInv, AreNodes, IsNode
  <2>7. Covers(tree)'   BY <2>1, <2>2, <2>3, <2>6 DEF Covers
  <2>8. \A v \in DOMAIN rows : rows[v].seq < op.seq /\ rows[v].seq \in Int
    BY <2>1, <2>6 DEF SInv, NodesInv
  <2>9. Covers(rows)'   BY <2>1, <2>2, <2>3, <2>8 DEF Covers
  <2> QED BY <1>a, <2>1, <2>2, <2>3, <2>4, <2>5, <2>7, <2>9
<1>4. CASE Advances
  <2>1. wal' = wal /\ at = "row" /\ at' \in {"idle", "gc", "done"}   BY <1>4 DEF Advances
  <2>2. \E d \in Elems(wal) : ~IsMark(d) /\ d.seq = op.seq   BY <2>1
  <2>3. /\ \A v \in DOMAIN tree' :
            (v \in DOMAIN tree /\ tree'[v] = tree[v]) \/ tree'[v].seq = op.seq
        /\ \A v \in DOMAIN rows' :
            (v \in DOMAIN rows /\ rows'[v] = rows[v]) \/ rows'[v].seq = op.seq
    BY <1>4, AdvancedNodes
  <2>4. Covers(tree)' /\ Covers(rows)'   BY <1>b, <2>1, <2>2, <2>3
  <2> QED BY <2>1, <2>4
<1>5. ASSUME NEW v \in plan.promote, GcPromote(v) PROVE AlongInv'
  <2>1. wal' = wal /\ at' \in {"evict", "idle"} /\ v \in DOMAIN tree   BY <1>5, PromotedNodes
  <2>2. DOMAIN tree' = DOMAIN tree /\ \A u \in DOMAIN tree : tree'[u].seq = tree[u].seq
    BY <1>5, PromotedNodes
  <2>3. \A u \in DOMAIN rows' : u \in DOMAIN tree /\ rows'[u].seq = tree[u].seq
    BY <2>1, <2>2 DEF SInv, NodesInv
  <2>4. \A e \in Elems(wal') : IsMark(e) \/ \A u \in DOMAIN tree' :
               tree'[u].seq > e.seq => \E d \in Elems(wal') : ~IsMark(d) /\ d.seq = tree'[u].seq
    BY <2>1, <2>2, CoversOn
  <2>5. \A e \in Elems(wal') : IsMark(e) \/ \A u \in DOMAIN rows' :
               rows'[u].seq > e.seq => \E d \in Elems(wal') : ~IsMark(d) /\ d.seq = rows'[u].seq
    BY <2>1, <2>3, CoversOn
  <2> QED BY <2>1, <2>4, <2>5 DEF Covers
<1>6. ASSUME NEW v \in plan.evict, GcDelete(v) PROVE AlongInv'
  <2>1. wal' = wal /\ at' = "evict"   BY <1>6, DeletedNodes
  <2>2. \A u \in DOMAIN tree' : u \in DOMAIN tree /\ tree'[u].seq = tree[u].seq
    BY <1>6, DeletedNodes
  <2>3. \A u \in DOMAIN rows' : u \in DOMAIN rows /\ rows'[u].seq = rows[u].seq
    BY <1>6, DeletedNodes
  <2>4. Covers(tree)' /\ Covers(rows)'   BY <1>b, <2>1, <2>2, <2>3
  <2> QED BY <2>1, <2>4
<1>7. CASE Dies
  <2>1. wal' = wal /\ at' = "down" /\ DOMAIN tree' = {} /\ Loosened(rows, rows')
    BY <1>7, DiesWhat
  <2> QED BY <1>b, <2>1 DEF Loosened
<1>8. CASE Open
  <2>1. /\ UNCHANGED <<wal, rows>> /\ at' = "replay" /\ tree' = rows /\ tasks' = wal
        /\ nextId' = MaxOf(DOMAIN rows) + 1
    BY <1>8 DEF Open, durable
  <2>2. MaxOf(DOMAIN rows) \in Nat /\ MaxOf(DOMAIN rows) \in DOMAIN rows \cup {0}
    <3>1. \E m \in DOMAIN rows \cup {0} : \A n \in DOMAIN rows : m >= n
      <4>1. DOMAIN rows \subseteq Nat   BY DEF SInv, NodesInv, AreNodes
      <4>2. PICK b \in Nat : \A v \in DOMAIN rows : v <= b   BY DEF SInv, NumbersInv
      <4>3. CASE DOMAIN rows = {}   BY <4>3
      <4>4. CASE DOMAIN rows # {}
        <5>1. PICK m \in DOMAIN rows : \A n \in DOMAIN rows : n <= m
          BY <4>1, <4>2, <4>4, GreatestNumber
        <5>2. \A n \in DOMAIN rows : m >= n   BY <4>1, <5>1
        <5> QED BY <5>2
      <4> QED BY <4>3, <4>4
    <3>2. MaxOf(DOMAIN rows) \in DOMAIN rows \cup {0}   BY <3>1 DEF MaxOf
    <3> QED BY <3>2 DEF SInv, NodesInv, AreNodes
  <2>3. nextId' = 1 \/ nextId' - 1 \in DOMAIN rows'
    <3>1. nextId' - 1 = MaxOf(DOMAIN rows)   BY <2>1, <2>2
    <3> QED BY <2>1, <2>2, <3>1
  <2>4. Covers(tree)' /\ Covers(rows)'   BY <2>1 DEF Covers
  <2> QED BY <2>1, <2>3, <2>4
<1>9. CASE Replay
  <2>0. PICK e : e = Head(tasks)   OBVIOUS
  <2>1. /\ at = "replay" /\ at' \in {"replay", "failed"}
        /\ wal' = wal /\ tree' = rows' /\ tree = rows
        /\ tasks # <<>> /\ ~HasNode(e) /\ e \in Elems(wal) /\ nextId \in Nat
    BY <1>9, <2>0, ReplayedNodes
  <2>2. ~IsMark(e)   BY <2>1 DEF HasNode, IsMark
  <2>3. \A v \in DOMAIN rows' : (v \in DOMAIN rows /\ rows'[v] = rows[v]) \/ rows'[v].seq = e.seq
    BY <1>9, <2>0, ReplayedNodes
  <2>4. Covers(tree)' /\ Covers(rows)'   BY <1>b, <2>1, <2>2, <2>3
  <2>5. ASSUME at' = "replay"
        PROVE  /\ Sorted(tasks')
               /\ \A d \in Elems(wal') : d \in Elems(tasks') \/ HasNode(d)'
               /\ nextId' = 1 \/ nextId' - 1 \in DOMAIN rows'
    <3>1. /\ tasks' = Tail(tasks) /\ nextId' = nextId + 1
          /\ DOMAIN rows' = DOMAIN rows \cup {nextId} /\ \A u \in DOMAIN rows : rows'[u] = rows[u]
          /\ rows'[nextId].seq = e.seq
      BY <1>9, <2>0, <2>5, ReplayedNodes
    <3>2. Elems(tasks) = {e} \cup Elems(tasks')
      BY <2>0, <2>1, <3>1, TailSeq DEF SInv, TodoInv
    <3>3. Sorted(tasks')   BY <2>1, <3>1, SortedTail DEF SInv, TodoInv
    <3>4. SeqsOf(rows) \subseteq SeqsOf(rows') /\ e.seq \in SeqsOf(rows')   BY <3>1 DEF SeqsOf
    <3>5. nextId' - 1 = nextId   BY <2>1, <3>1
    <3> QED BY <2>1, <3>1, <3>2, <3>3, <3>4, <3>5 DEF HasNode
  <2> QED BY <2>1, <2>4, <2>5
<1>10. CASE Opened
  <2>1. UNCHANGED <<wal, rows, tree>> /\ at' = "recover"   BY <1>10 DEF Opened, durable
  <2> QED BY <2>1 DEF Covers
<1> QED BY <1>1, <1>2, <1>3, <1>4, <1>5, <1>6, <1>7, <1>8, <1>9, <1>10, Kinds

-----------------------------------------------------------------------------
(* The log after one failed step. *)

\* One step has failed, and no deleted version has come back.
Lapse == faults = 1 /\ "resurrected" \notin spoilt

\* The entries replay would have to enter, and the nodes that have no row.
Gap  == {e \in Elems(wal) : ~HasNode(e)}
Bare == DOMAIN tree \ DOMAIN rows

\* The collector has deleted the entry's version: to replay it brings that back.
Gone(e) == e.seq \in evicted /\ e.seq \notin SeqsOf(tree)

First(e) == \A d \in Gap : d.seq >= e.seq

\* d is the last one of the gap before e.
After(e, d) == d.seq < e.seq /\ \A x \in Gap : x.seq <= d.seq \/ x.seq >= e.seq

\* Replay brings a deleted version back before it comes to the entry.
Doomed(e) == \E d \in Gap : d.seq < e.seq /\ Gone(d)

\* The entry's parent is the version of the one before it, and has no row.
Linked(e) == \E d \in Gap : After(e, d) /\ \E t \in Bare : tree[t].seq = d.seq /\ e.parent = t

Ordered(e) == First(e) \/ Doomed(e) \/ Linked(e)

Inflight(e) == at \in {"restore", "row"} /\ e.seq = op.seq

\* The entry's version is in the tree, without a row.
StandsAt(e, t) ==
    /\ tree[t].seq = e.seq /\ e.parent < t
    /\ tree[t].parent = e.parent \/ (tree[t].parent = Root /\ e.parent \notin DOMAIN tree)
    /\ e.parent \in DOMAIN tree => Fits(truth, e, tree[e.parent])

Stands(e) == Ordered(e) /\ \E t \in Bare : StandsAt(e, t)

\* After a failed row the later versions of its path have no row either.  Any other
\* failed step leaves the table as the tree.
RunInv ==
    /\ \A t, u \in Bare : tree[t].path = tree[u].path
    /\ \A e \in Gap : Gone(e) \/ Inflight(e) \/ Stands(e) \/ (Bare = {} /\ Faithful(e))

\* The entry's parent has an id that is not given out again, or not yet.
Beyond(e) == e.parent # Root /\ \A v \in DOMAIN rows : v < e.parent
Dead(e)   == e.parent # Root /\ e.parent \notin DOMAIN rows /\ ~Beyond(e)

\* Replay brings a deleted version back, or fails, before it gets past the entry.
Ends(e) == \E d \in Gap : d.seq <= e.seq /\ (d.seq \in evicted \/ Dead(d))

\* The entry fits the row of its parent, or the entry before it, which is then the
\* one that gets the parent's id.
Follows(e) ==
    /\ e.parent \in DOMAIN rows => Fits(truth, e, rows[e.parent])
    /\ Beyond(e) => \/ First(e)
                    \/ \E d \in Gap : /\ After(e, d) /\ Fits(truth, e, d)
                                      /\ First(d) \/ (Beyond(d) /\ d.parent < e.parent)

RestInv == \A e \in Gap : Ends(e) \/ Follows(e)

LapseInv == Lapse => IF Loaded THEN RunInv ELSE RestInv

\* The entries without a row are versions with numbers of their own.
LEMMA GapFacts ==
    ASSUME SInv, TreeInv, AlongInv
    PROVE  /\ \A e \in Gap : /\ e \in Elems(wal) /\ ~IsMark(e) /\ e.seq \in Nat
                             /\ e.parent \in Nat /\ e.seq \notin SeqsOf(rows)
           /\ \A d, e \in Gap : d.seq = e.seq => d = e
<1>1. ASSUME NEW e \in Gap
      PROVE  /\ e \in Elems(wal) /\ ~IsMark(e) /\ e.seq \in Nat
             /\ e.parent \in Nat /\ e.seq \notin SeqsOf(rows)
  <2>1. e \in Elems(wal) /\ ~IsMark(e) /\ e.seq \notin SeqsOf(rows)   BY DEF Gap, HasNode, IsMark
  <2>2. e.seq \in Nat   BY <2>1, BoundsAssumption DEF SInv, NumbersInv
  <2>3. e.parent \in Nat   BY <2>1 DEF TreeInv, OrderInv, IsMark
  <2> QED BY <2>1, <2>2, <2>3
<1>2. IsSeq(wal) /\ Sorted(wal) /\ \A x \in Elems(wal) : x.seq \in Nat
  BY BoundsAssumption DEF SInv, NumbersInv, AlongInv
<1> QED BY <1>1, <1>2, SortedUnique

\* A step that only takes away firsts, and only adds deleted versions or later entries,
\* leaves the order as it is.
LEMMA OrderedKept ==
    ASSUME SInv, TreeInv, AlongInv, NEW e \in Gap, Ordered(e), e \in Gap',
           \A d \in Gap' : d \in Gap \/ Gone(d)' \/ d.seq > e.seq,
           \A d \in Gap' : d.seq \in Nat,
           \A d \in Gap : d.seq < e.seq =>
               \/ /\ d \in Gap' /\ (Gone(d) => Gone(d)')
                  /\ \A t \in Bare : tree[t].seq = d.seq => t \in Bare' /\ tree'[t].seq = d.seq
               \/ d \in Gap' /\ Gone(d)'
               \/ d \notin Gap' /\ ~Gone(d) /\ (First(d) \/ Doomed(d))
    PROVE  Ordered(e)'
<1>a. /\ \A d \in Gap : d.seq \in Nat
      /\ \A x, y \in Gap : x.seq = y.seq => x = y
  BY GapFacts
<1>0. ASSUME NEW d \in Gap', d.seq < e.seq, Gone(d)' PROVE Ordered(e)'
  BY <1>0 DEF Ordered, Doomed
<1>b. ASSUME NEW d \in Gap, d.seq < e.seq, Gone(d) PROVE Ordered(e)'
  <2>1. d \in Gap' /\ Gone(d)'   BY <1>b
  <2> QED BY <1>0, <1>b, <2>1
<1> SUFFICES ASSUME \A d \in Gap' : d.seq < e.seq => ~Gone(d)',
                    \A d \in Gap : d.seq < e.seq => ~Gone(d)
             PROVE  Ordered(e)'
  BY <1>0, <1>b
<1>c. \A d \in Gap' : d.seq < e.seq => d \in Gap   BY <1>a
<1>1. CASE First(e)
  <2>1. First(e)'   BY <1>1, <1>a, <1>c DEF First
  <2> QED BY <2>1 DEF Ordered
<1>2. CASE Doomed(e)   BY <1>2 DEF Doomed
<1>3. CASE Linked(e)
  <2>1. PICK d \in Gap, t \in Bare : After(e, d) /\ tree[t].seq = d.seq /\ e.parent = t
    BY <1>3 DEF Linked
  <2>2. d.seq < e.seq /\ \A x \in Gap : x.seq <= d.seq \/ x.seq >= e.seq   BY <2>1 DEF After
  <2>3. CASE d \in Gap' /\ t \in Bare' /\ tree'[t].seq = d.seq
    <3>1. \A x \in Gap' : x.seq <= d.seq \/ x.seq >= e.seq   BY <1>a, <1>c, <2>2
    <3>2. After(e, d)'   BY <2>2, <3>1 DEF After
    <3>3. Linked(e)'   BY <2>1, <2>3, <3>2 DEF Linked
    <3> QED BY <3>3 DEF Ordered
  <2>4. CASE d \notin Gap' /\ (First(d) \/ Doomed(d))
    <3>1. First(d)
      <4> SUFFICES ASSUME Doomed(d) PROVE FALSE   BY <2>4
      <4>1. PICK y \in Gap : y.seq < d.seq /\ Gone(y)   BY DEF Doomed
      <4>2. y.seq < e.seq   BY <1>a, <2>2, <4>1
      <4> QED BY <4>1, <4>2
    <3>2. ASSUME NEW x \in Gap', x.seq < e.seq PROVE FALSE
      <4>1. x \in Gap /\ x.seq \in Nat /\ d.seq \in Nat   BY <1>a, <1>c, <3>2
      <4>2. x.seq <= d.seq   BY <1>a, <2>2, <3>2, <4>1
      <4>3. x.seq = d.seq   BY <3>1, <4>1, <4>2 DEF First
      <4>4. x = d   BY <1>a, <4>1, <4>3
      <4> QED BY <2>4, <3>2, <4>4
    <3>3. First(e)'   BY <1>a, <3>2 DEF First
    <3> QED BY <3>3 DEF Ordered
  <2> QED BY <2>1, <2>2, <2>3, <2>4
<1> QED BY <1>1, <1>2, <1>3 DEF Ordered

\* The entry of the operation under way comes after that of a head without a row.
LEMMA HeadLink ==
    ASSUME SInv, TreeInv, AlongInv, RunInv, at \in {"restore", "row"}, op.parent \in Bare,
           NEW e \in Gap, e.seq = op.seq
    PROVE  Ordered(e)
<1>a. /\ \A d \in Gap : d \in Elems(wal) /\ ~IsMark(d) /\ d.seq \in Nat
      /\ \A x, y \in Gap : x.seq = y.seq => x = y
  BY GapFacts
<1> DEFINE t == op.parent
<1>1. e = Entry(op, op.parent, op.trigger)   BY <1>a DEF TreeInv, OrderInv
<1>2. e.parent = t   BY <1>1, EntryFields
<1>3. at \in Busy /\ Loaded   BY DEF Busy, Loaded
<1>4. t \in DOMAIN tree /\ t \notin DOMAIN rows /\ t = HeadOf(op.path)
  BY <1>3 DEF Bare, TreeInv, OrderInv
<1>5. op.path \in DOMAIN heads /\ t = heads[op.path]
  BY <1>4 DEF HeadOf, TreeInv, IdsInv, Placed, Root
<1>6. tree[t].path = op.path /\ tree[t].seq < op.seq
      /\ \A v \in DOMAIN tree : tree[v].path = op.path => tree[v].seq <= tree[t].seq
  BY <1>3, <1>4, <1>5 DEF TreeInv, TopInv, OrderInv
<1>7. tree[t].seq \in Nat   BY <1>4, BoundsAssumption DEF SInv, NodesInv, AreNodes, IsNode
<1>8. CASE Doomed(e)   BY <1>8 DEF Ordered
<1>9. CASE First(e)   BY <1>9 DEF Ordered
<1>10. CASE ~Doomed(e) /\ ~First(e)
  <2>1. ASSUME NEW x \in Gap, x.seq < e.seq PROVE x.seq <= tree[t].seq
    <3>2. ~Gone(x)   BY <1>10, <2>1 DEF Doomed
    <3>3. ~Inflight(x)   BY <1>a, <2>1 DEF Inflight
    <3>4. Stands(x)   BY <3>2, <3>3 DEF RunInv
    <3>5. PICK u \in Bare : tree[u].seq = x.seq   BY <3>4 DEF Stands, StandsAt
    <3>6. tree[u].path = tree[t].path /\ u \in DOMAIN tree   BY DEF RunInv, Bare
    <3> QED BY <1>6, <3>5, <3>6
  <2>2. PICK x \in Gap : x.seq < e.seq   BY <1>10, <1>a DEF First
  <2>3. PICK d \in Elems(wal) : ~IsMark(d) /\ d.seq = tree[t].seq
    <3>1. CASE x.seq = tree[t].seq   BY <1>a, <3>1
    <3>2. CASE x.seq # tree[t].seq
      <4>1. tree[t].seq > x.seq   BY <1>7, <1>a, <2>1, <2>2, <3>2
      <4> QED BY <1>4, <1>a, <4>1 DEF AlongInv, Covers
    <3> QED BY <3>1, <3>2
  <2>4. d \in Gap
    <3>1. ASSUME NEW v \in DOMAIN rows, rows[v].seq = tree[t].seq PROVE FALSE
      <4>1. v \in DOMAIN tree /\ tree[v] = rows[v]   BY <1>3 DEF SInv, NodesInv, Busy
      <4>2. v = t   BY <1>4, <3>1, <4>1 DEF SInv, NodesInv, AreNodes
      <4> QED BY <1>4, <4>2
    <3>2. d.seq \notin SeqsOf(rows)   BY <2>3, <3>1 DEF SeqsOf
    <3> QED BY <2>3, <3>2 DEF Gap, HasNode, IsMark
  <2>5. d.seq < e.seq   BY <1>6, <2>3
  <2>6. \A y \in Gap : y.seq <= d.seq \/ y.seq >= e.seq   BY <1>a, <2>1, <2>3
  <2>7. After(e, d)   BY <2>5, <2>6 DEF After
  <2>8. Linked(e)   BY <1>2, <2>3, <2>4, <2>7 DEF Linked
  <2> QED BY <2>8 DEF Ordered
<1> QED BY <1>8, <1>9, <1>10

\* What a crash makes of the tree's nodes without a row.
LEMMA OrderedFollows ==
    ASSUME SInv, TreeInv, AlongInv, RunInv, Loaded, NEW e \in Gap, Ordered(e),
           e.parent \in DOMAIN tree => Fits(truth, e, tree[e.parent])
    PROVE  Ends(e) \/ Follows(e)
<1>a. /\ \A d \in Gap : d.seq \in Nat /\ d.parent \in Nat
      /\ \A x, y \in Gap : x.seq = y.seq => x = y
  BY GapFacts
<1>b. \A v \in DOMAIN rows : v \in DOMAIN tree /\ tree[v] = rows[v]
  BY DEF SInv, NodesInv, Loaded
<1>1. CASE Doomed(e)
  <2>1. PICK d \in Gap : d.seq < e.seq /\ Gone(d)   BY <1>1 DEF Doomed
  <2>2. d.seq <= e.seq   BY <1>a, <2>1
  <2> QED BY <2>1, <2>2 DEF Gone, Ends
<1> SUFFICES ASSUME Beyond(e), ~First(e), Linked(e), ~Ends(e)
             PROVE  \E d \in Gap : /\ After(e, d) /\ Fits(truth, e, d)
                                   /\ First(d) \/ (Beyond(d) /\ d.parent < e.parent)
  BY <1>1, <1>b DEF Follows, Ordered
<1>2. PICK d \in Gap, t \in Bare : After(e, d) /\ tree[t].seq = d.seq /\ e.parent = t
  BY DEF Linked
<1>3. t \in DOMAIN tree   BY DEF Bare
<1>4. Fits(truth, e, d)   BY <1>2, <1>3 DEF Fits
<1>5. d.seq \in SeqsOf(tree)   BY <1>2, <1>3 DEF SeqsOf
<1>6. ~Gone(d) /\ Bare # {}   BY <1>5 DEF Gone
<1>7. ~Inflight(d)   BY <1>5 DEF Inflight, SInv, OpInv, Busy
<1>8. Stands(d)   BY <1>6, <1>7 DEF RunInv
<1>9. PICK u \in Bare : StandsAt(d, u)   BY <1>8 DEF Stands
<1>10. u = t /\ d.parent < t
  <2>1. tree[u].seq = tree[t].seq /\ u \in DOMAIN tree   BY <1>2, <1>9 DEF StandsAt, Bare
  <2>2. u = t   BY <1>3, <2>1 DEF SInv, NodesInv, AreNodes
  <2> QED BY <1>9, <2>2 DEF StandsAt
<1>11. First(d) \/ Beyond(d)
  <2>0. d.seq <= e.seq   BY <1>2, <1>a DEF After
  <2>1. ~Doomed(d)
    <3> SUFFICES ASSUME Doomed(d) PROVE FALSE   OBVIOUS
    <3>1. PICK y \in Gap : y.seq < d.seq /\ Gone(y)   BY DEF Doomed
    <3>2. y.seq <= e.seq   BY <1>a, <2>0, <3>1
    <3> QED BY <3>1, <3>2 DEF Ends, Gone
  <2>2. CASE Linked(d)
    <3>1. d.parent \in DOMAIN tree /\ d.parent \notin DOMAIN rows   BY <2>2 DEF Linked, Bare
    <3>2. d.parent # Root   BY <3>1 DEF TreeInv, IdsInv, Placed, Root
    <3>3. ~Dead(d)   BY <2>0 DEF Ends
    <3> QED BY <3>1, <3>2, <3>3 DEF Dead
  <2> QED BY <1>8, <2>1, <2>2 DEF Stands, Ordered
<1> QED BY <1>2, <1>4, <1>10, <1>11

\* An entry that fits the row with its parent's id can be replayed.
LEMMA FaithfulFollows ==
    ASSUME SInv, NEW e, e.parent \in Nat, Faithful(e)
    PROVE  Follows(e)
<1>a. \A v \in DOMAIN rows : v \in Nat   BY DEF SInv, NodesInv, AreNodes
<1>1. ~Beyond(e)
  <2> SUFFICES ASSUME Beyond(e) PROVE FALSE   OBVIOUS
  <2>1. PICK v \in DOMAIN rows : v >= e.parent   BY DEF Faithful, Beyond, Above
  <2>2. v < e.parent   BY DEF Beyond
  <2> QED BY <1>a, <2>1, <2>2
<1> QED BY <1>1 DEF Faithful, Follows

\* At a crash, the run of versions without a row is one that replay can put back.
LEMMA RunRests ==
    ASSUME SInv, TreeInv, AlongInv, RightInv, Traced, RunInv, Loaded
    PROVE  RestInv
<1> SUFFICES ASSUME NEW e \in Gap PROVE Ends(e) \/ Follows(e)   BY DEF RestInv
<1>a. /\ \A d \in Gap : d \in Elems(wal) /\ ~IsMark(d) /\ d.seq \in Nat /\ d.parent \in Nat
  BY GapFacts
<1>b. \A v \in DOMAIN rows : v \in DOMAIN tree /\ tree[v] = rows[v] /\ v \in Nat
  BY DEF SInv, NodesInv, AreNodes, Loaded
<1>1. CASE Gone(e)
  <2>1. e.seq <= e.seq   BY <1>a
  <2> QED BY <1>1, <2>1 DEF Gone, Ends
<1>2. CASE Inflight(e)
  <2>1. at \in {"restore", "row"} /\ e.seq = op.seq /\ at \in Busy   BY <1>2 DEF Inflight, Busy
  <2>2. e = Entry(op, op.parent, op.trigger)   BY <1>a, <2>1 DEF TreeInv, OrderInv
  <2>3. e.parent = op.parent /\ e.delta = op.delta   BY <2>2, EntryFields
  <2>4. e.parent \in DOMAIN tree => Fits(truth, e, tree[e.parent])
    BY <2>1, <2>3 DEF RightInv, Fits
  <2>5. op.parent = Root \/ op.parent \in DOMAIN tree   BY <2>1 DEF SInv, OpInv
  <2>6. CASE op.parent \in Bare
    <3>1. Ordered(e)   BY <2>1, <2>6, HeadLink
    <3> QED BY <2>4, <3>1, OrderedFollows
  <2>7. CASE op.parent \notin Bare
    <3>1. e.parent = Root \/ e.parent \in DOMAIN rows   BY <2>3, <2>5, <2>7 DEF Bare
    <3>2. ~Beyond(e)   BY <1>b, <3>1 DEF Beyond
    <3> QED BY <1>b, <2>4, <3>2 DEF Follows
  <2> QED BY <2>6, <2>7
<1>3. CASE Stands(e)
  <2>1. e.parent \in DOMAIN tree => Fits(truth, e, tree[e.parent])   BY <1>3 DEF Stands, StandsAt
  <2> QED BY <1>3, <2>1, OrderedFollows DEF Stands
<1>4. CASE Faithful(e)   BY <1>4, <1>a, FaithfulFollows
<1> QED BY <1>1, <1>2, <1>3, <1>4 DEF RunInv

\* The entry that replay has come to is the first of the gap.
LEMMA HeadIsFirst ==
    ASSUME SInv, TreeInv, AlongInv, Replay
    PROVE  Head(tasks) \in Gap /\ First(Head(tasks))
<1> DEFINE h == Head(tasks)
<1>a. \A d \in Gap : d \in Elems(wal) /\ ~IsMark(d) /\ d.seq \in Nat   BY GapFacts
<1>1. at = "replay" /\ tasks # <<>> /\ ~HasNode(h) /\ h \in Elems(wal)   BY ReplayedNodes
<1>2. h \in Gap /\ ~IsMark(h)   BY <1>1 DEF Gap, HasNode, IsMark
<1>3. IsSeq(tasks) /\ Sorted(tasks)   BY <1>1 DEF SInv, TodoInv, AlongInv
<1>4. ASSUME NEW d \in Gap PROVE d.seq >= h.seq
  <2>1. d \in Elems(tasks)   BY <1>1, <1>a DEF AlongInv, Gap
  <2>2. d = h \/ d \in Elems(Tail(tasks))   BY <1>1, <1>3, <2>1, TailSeq
  <2>3. d = h \/ h.seq < d.seq   BY <1>1, <1>2, <1>3, <1>a, <2>2, SortedTail
  <2> QED BY <1>2, <1>a, <2>3
<1> QED BY <1>2, <1>4 DEF First

\* So it fits the row of its parent.
LEMMA LapseFits ==
    ASSUME SInv, TreeInv, AlongInv, RestInv, Replay, "resurrected" \notin spoilt',
           Head(tasks).parent \in DOMAIN rows
    PROVE  Fits(truth, Head(tasks), rows[Head(tasks).parent])
<1> DEFINE h == Head(tasks)
<1>a. /\ \A d \in Gap : d.seq \in Nat
      /\ \A x, y \in Gap : x.seq = y.seq => x = y
  BY GapFacts
<1>1. h \in Gap /\ First(h)   BY HeadIsFirst
<1>2. ~Ends(h)
  <2> SUFFICES ASSUME Ends(h) PROVE FALSE   OBVIOUS
  <2>1. PICK d \in Gap : d.seq <= h.seq /\ (d.seq \in evicted \/ Dead(d))   BY DEF Ends
  <2>2. d.seq = h.seq   BY <1>1, <1>a, <2>1 DEF First
  <2>3. d = h   BY <1>1, <1>a, <2>2
  <2>4. h.seq \notin evicted   BY ReplayedNodes
  <2> QED BY <2>1, <2>3, <2>4 DEF Dead
<1> QED BY <1>1, <1>2 DEF RestInv, Follows

-----------------------------------------------------------------------------
(* A step after the failed one. *)

\* The log lacks what it lacked, and the table has what it had.
LEMMA RestFrame ==
    ASSUME truth' = truth, evicted \subseteq evicted', Gap' = Gap, RestInv,
           DOMAIN rows' = DOMAIN rows, \A v \in DOMAIN rows : rows'[v].seq = rows[v].seq
    PROVE  RestInv'
<1>1. ASSUME NEW e \in Gap
      PROVE  /\ First(e) => First(e)'
             /\ Beyond(e) <=> Beyond(e)'
             /\ Dead(e) => Dead(e)'
             /\ \A d : After(e, d) => After(e, d)'
  BY DEF First, Beyond, Dead, After
<1>2. ASSUME NEW e \in Gap, Ends(e) PROVE Ends(e)'   BY <1>1, <1>2 DEF Ends
<1>3. ASSUME NEW e \in Gap, Follows(e) PROVE Follows(e)'
  <2>1. e.parent \in DOMAIN rows' => Fits(truth', e, rows'[e.parent])   BY <1>3 DEF Follows, Fits
  <2>2. ASSUME Beyond(e)', ~First(e)'
        PROVE  \E d \in Gap' : /\ After(e, d)' /\ Fits(truth', e, d)
                               /\ First(d)' \/ (Beyond(d)' /\ d.parent < e.parent)
    BY <1>1, <1>3, <2>2 DEF Follows
  <2> QED BY <2>1, <2>2 DEF Follows
<1> QED BY <1>2, <1>3 DEF RestInv

\* The tree, too, has what it had.
LEMMA RunFrame ==
    ASSUME RunInv, UNCHANGED evicted, Gap' = Gap, Bare' = Bare,
           DOMAIN tree' = DOMAIN tree,
           \A u \in DOMAIN tree : /\ tree'[u].seq = tree[u].seq /\ tree'[u].path = tree[u].path
                                  /\ tree'[u].parent = tree[u].parent
                                  /\ truth'[tree[u].seq] = truth[tree[u].seq],
           \A e \in Gap : /\ truth'[e.seq] = truth[e.seq]
                          /\ Inflight(e) => Inflight(e)'
                          /\ Bare = {} /\ Faithful(e) => Faithful(e)'
    PROVE  RunInv'
<1>a. \A t \in Bare : t \in DOMAIN tree   BY DEF Bare
<1>1. \A t, u \in Bare' : tree'[t].path = tree'[u].path   BY <1>a DEF RunInv
<1>2. SeqsOf(tree') = SeqsOf(tree)   BY DEF SeqsOf
<1>3. \A e \in Gap : Gone(e) <=> Gone(e)'   BY <1>2 DEF Gone
<1>4. ASSUME NEW e \in Gap, Ordered(e) PROVE Ordered(e)'
  <2>1. First(e) => First(e)'   BY DEF First
  <2>2. Doomed(e) => Doomed(e)'   BY <1>3 DEF Doomed
  <2>3. \A d : After(e, d) => After(e, d)'   BY DEF After
  <2>4. Linked(e) => Linked(e)'   BY <1>a, <2>3 DEF Linked
  <2> QED BY <1>4, <2>1, <2>2, <2>4 DEF Ordered
<1>5. ASSUME NEW e \in Gap, NEW t \in Bare, StandsAt(e, t) PROVE StandsAt(e, t)'
  BY <1>a, <1>5 DEF StandsAt, Fits
<1>6. \A e \in Gap : Stands(e) => Stands(e)'   BY <1>4, <1>5 DEF Stands
<1> QED BY <1>1, <1>3, <1>6 DEF RunInv

\* One step has failed before, or fails now for the first time.
LEMMA LapseBefore ==
    ASSUME SInv, TreeInv, [Next]_vars, Lapse'
    PROVE  Lapse \/ (Clean /\ faults' = faults + 1)
<1>1. faults \in Nat /\ faults <= faults' /\ spoilt \subseteq spoilt'
  BY Monotone DEF TreeInv, IdsInv
<1> QED BY <1>1 DEF Lapse, Clean

\* What is to be shown of each step.
Good == IF Loaded THEN RunInv ELSE RestInv

\* One lemma per kind of step: after one failed step, the run or what is left of it stays good.
LEMMA PStill ==
    ASSUME SInv, SInv', TreeInv, AlongInv, FaithInv, LapseInv, Still, Lapse',
           Lapse \/ (Clean /\ faults' = faults + 1)
    PROVE  Good'
<1>1. UNCHANGED <<tree, rows, truth, evicted>> /\ (Loaded' <=> Loaded)   BY DEF Still, Loaded
<1>2. Bare' = Bare   BY <1>1 DEF Bare
<1>3. Gap' = {} \/ Gap' = Gap
  <2>1. \A e \in Elems(wal') : e \in Elems(wal) \/ HasNode(e)   BY StillLog DEF HasNode
  <2>2. \A e : HasNode(e)' <=> HasNode(e)   BY <1>1 DEF HasNode
  <2>3. Gap' \subseteq Gap   BY <2>1, <2>2 DEF Gap
  <2>4. Elems(wal') # {} => Gap \subseteq Gap'   BY <2>2, StillLog DEF Gap
  <2>5. Elems(wal') = {} => Gap' = {}   BY DEF Gap
  <2> QED BY <2>3, <2>4, <2>5
<1>a. \A e : Faithful(e) => Faithful(e)'   BY <1>1 DEF Faithful, Above, NewestRow
<1>b. \A e \in Gap : e \in Elems(wal) /\ ~IsMark(e) /\ e.parent \in Nat   BY GapFacts
<1>4. CASE Lapse
  <2>0. faults' = faults   BY <1>4 DEF Lapse, Still
  <2>1. CASE Loaded
    <3>0. RunInv   BY <1>4, <2>1 DEF LapseInv
    <3>1. CASE Gap' = Gap
      <4>1. \A e \in Gap : Inflight(e) => Inflight(e)'
        BY <2>0 DEF Inflight, Still, TreeInv, IdsInv
      <4>2. RunInv'   BY <1>1, <1>2, <1>a, <3>0, <3>1, <4>1, RunFrame
      <4> QED BY <1>1, <2>1, <4>2 DEF Good
    <3>2. CASE Gap' = {}
      <4>1. RunInv'   BY <1>1, <1>2, <3>0, <3>2 DEF RunInv
      <4> QED BY <1>1, <2>1, <4>1 DEF Good
    <3> QED BY <1>3, <3>1, <3>2
  <2>2. CASE ~Loaded
    <3>0. RestInv   BY <1>4, <2>2 DEF LapseInv
    <3>1. RestInv'
      <4>1. CASE Gap' = Gap   BY <1>1, <3>0, <4>1, RestFrame
      <4>2. CASE Gap' = {}   BY <4>2 DEF RestInv
      <4> QED BY <1>3, <4>1, <4>2
    <3> QED BY <1>1, <2>2, <3>1 DEF Good
  <2> QED BY <2>1, <2>2
<1>5. CASE Clean
  <2>1. \A e \in Gap : Faithful(e)   BY <1>5, <1>b DEF Clean, FaithInv, Faithful, IsMark
  <2>2. \A e \in Gap' : e \in Gap /\ Faithful(e)'   BY <1>3, <1>a, <2>1
  <2>3. CASE Loaded
    <3>1. Bare = {}   BY <1>5, <2>3 DEF Clean, FaithInv, Bare, Loaded
    <3>2. RunInv'   BY <1>2, <2>2, <3>1 DEF RunInv
    <3> QED BY <1>1, <2>3, <3>2 DEF Good
  <2>4. CASE ~Loaded
    <3>1. RestInv   BY <1>b, <2>1, FaithfulFollows DEF RestInv
    <3>2. Gap' = Gap => RestInv'   BY <1>1, <3>1, RestFrame
    <3>3. Gap' = {} => RestInv'   BY DEF RestInv
    <3>4. RestInv'   BY <1>3, <3>2, <3>3
    <3> QED BY <1>1, <2>4, <3>4 DEF Good
  <2> QED BY <2>3, <2>4
<1> QED BY <1>4, <1>5

\* A new version is under way and not in the log.
LEMMA PRecord ==
    ASSUME SInv, TreeInv, AlongInv, KnownInv, LapseInv, Lapse,
           NEW p \in Paths, NEW c, NEW shape, NEW trigger, Records(p, c, shape, trigger)
    PROVE  Good'
<1>1. UNCHANGED <<tree, rows, wal, evicted>> /\ at = "idle" /\ at' = "log"
  BY DEF Records, Start, Ready
<1>2. Loaded /\ Loaded' /\ \A e \in Gap : ~Inflight(e)   BY <1>1 DEF Loaded, Inflight
<1>3. RunInv   BY <1>2 DEF LapseInv
<1>4. Gap' = Gap /\ Bare' = Bare   BY <1>1 DEF Gap, Bare, HasNode
<1>5. \A u \in DOMAIN tree : truth'[tree[u].seq] = truth[tree[u].seq]
  BY RecordsTruth DEF KnownInv
<1>6. \A u \in DOMAIN rows : truth'[rows[u].seq] = truth[rows[u].seq]
  BY RecordsTruth DEF KnownInv
<1>7. \A e \in Gap : truth'[e.seq] = truth[e.seq]
  BY GapFacts, RecordsTruth DEF KnownInv, IsMark
<1>8. \A e \in Gap : Faithful(e) => Faithful(e)'
  BY <1>1, <1>6, <1>7 DEF Faithful, Above, NewestRow, Fits
<1>9. RunInv'   BY <1>1, <1>2, <1>3, <1>4, <1>5, <1>7, <1>8, RunFrame
<1> QED BY <1>2, <1>9 DEF Good

\* The entry of the version under way joins the run.
LEMMA PCommit ==
    ASSUME SInv, TreeInv, AlongInv, LapseInv, Lapse, CommitEntry
    PROVE  Good'
<1>0. PICK d : d = Entry(op, op.parent, op.trigger)   OBVIOUS
<1>1. /\ UNCHANGED <<tree, rows, truth, evicted, op>> /\ at = "log" /\ at' \in {"restore", "row"}
      /\ wal' = Append(wal, d)
  BY <1>0 DEF CommitEntry, memory, ghost
<1>2. Loaded /\ Loaded' /\ RunInv   BY <1>1 DEF Loaded, LapseInv
<1>3. Elems(wal') = Elems(wal) \cup {d}   BY <1>1, AppendSeq DEF SInv, NumbersInv
<1>4. d.seq = op.seq   BY <1>0, EntryFields
<1>5. Inflight(d)'   BY <1>1, <1>4 DEF Inflight
<1>6. \A e \in Elems(wal) : e.seq < op.seq   BY <1>1 DEF TreeInv, OrderInv
<1>7. Bare' = Bare   BY <1>1 DEF Bare
<1>8. Gap' \subseteq Gap \cup {d} /\ Gap \subseteq Gap'   BY <1>1, <1>3 DEF Gap, HasNode
<1>9. \A e : (Gone(e) <=> Gone(e)') /\ (Faithful(e) => Faithful(e)')
  BY <1>1 DEF Gone, Faithful, Above, NewestRow
<1>a. /\ \A e \in Gap : e \in Elems(wal) /\ e.seq \in Nat /\ e.seq < op.seq
      /\ op.seq \in Nat
  BY <1>1, <1>6, GapFacts DEF SInv, OpInv, Busy
<1>10. ASSUME NEW e \in Gap, Stands(e) PROVE Stands(e)'
  <2>1. Ordered(e) /\ e \in Gap'   BY <1>8, <1>10 DEF Stands
  <2>2. \A x \in Gap' : (x \in Gap \/ Gone(x)' \/ x.seq > e.seq) /\ x.seq \in Nat
    BY <1>4, <1>8, <1>a
  <2>3. \A x \in Gap : x.seq < e.seq =>
            /\ x \in Gap' /\ (Gone(x) => Gone(x)')
            /\ \A t \in Bare : tree[t].seq = x.seq => t \in Bare' /\ tree'[t].seq = x.seq
    BY <1>1, <1>7, <1>8, <1>9
  <2>4. Ordered(e)'   BY <2>1, <2>2, <2>3, OrderedKept
  <2>5. \A t : StandsAt(e, t) => StandsAt(e, t)'   BY <1>1 DEF StandsAt
  <2> QED BY <1>7, <1>10, <2>4, <2>5 DEF Stands
<1>11. \A e \in Gap : ~Inflight(e)   BY <1>1 DEF Inflight
<1>12. RunInv'
  <2>1. \A t, u \in Bare' : tree'[t].path = tree'[u].path   BY <1>1, <1>2, <1>7 DEF RunInv
  <2>2. ASSUME NEW e \in Gap'
        PROVE  Gone(e)' \/ Inflight(e)' \/ Stands(e)' \/ (Bare' = {} /\ Faithful(e)')
    <3>1. CASE e = d   BY <1>5, <3>1
    <3>2. CASE e \in Gap   BY <1>2, <1>7, <1>9, <1>10, <1>11, <3>2 DEF RunInv
    <3> QED BY <1>8, <3>1, <3>2
  <2> QED BY <2>1, <2>2 DEF RunInv
<1> QED BY <1>2, <1>12 DEF Good

\* An entry other than that of the operation that advances stands where it stood.
LEMMA AdvancedStands ==
    ASSUME SInv, TreeInv, AlongInv, Advances, Bare \subseteq Bare',
           Gap' \subseteq Gap, \A d \in Gap : d.seq # op.seq => d \in Gap',
           NEW e \in Gap, e.seq # op.seq
    PROVE  (Gone(e) => Gone(e)') /\ (Stands(e) => Stands(e)')
<1>1. at = "row" /\ at \in Busy /\ UNCHANGED <<wal, truth, evicted>>   BY DEF Advances, Busy
<1>2. /\ nextId \in Nat /\ DOMAIN tree' = DOMAIN tree \cup {nextId}
      /\ \A u \in DOMAIN tree : u \in Nat /\ u < nextId /\ tree'[u] = tree[u]
      /\ tree'[nextId].seq = op.seq
  BY AdvancedNodes
<1>a. /\ \A d \in Gap : d \in Elems(wal) /\ ~IsMark(d) /\ d.seq \in Nat /\ d.parent \in Nat
      /\ op.seq \in Nat
  BY <1>1, GapFacts DEF SInv, OpInv
<1>3. \A d \in Gap : d.seq <= op.seq   BY <1>1, <1>a DEF AlongInv
<1>4. \A d : d.seq # op.seq /\ Gone(d) => Gone(d)'
  <2>1. \A s : s # op.seq /\ s \notin SeqsOf(tree) => s \notin SeqsOf(tree')
    BY <1>2 DEF SeqsOf
  <2> QED BY <1>1, <2>1 DEF Gone
<1>5. ASSUME Stands(e) PROVE Stands(e)'
  <2>1. e \in Gap' /\ Ordered(e)   BY <1>5 DEF Stands
  <2>2. \A d \in Gap : d.seq < e.seq =>
            /\ d \in Gap' /\ (Gone(d) => Gone(d)')
            /\ \A t \in Bare : tree[t].seq = d.seq => t \in Bare' /\ tree'[t].seq = d.seq
    <3>1. \A d \in Gap : d.seq < e.seq => d.seq # op.seq   BY <1>3, <1>a
    <3> QED BY <1>2, <1>4, <3>1 DEF Bare
  <2>3. \A d \in Gap' : d \in Gap /\ d.seq \in Nat   BY <1>a
  <2>4. Ordered(e)'   BY <2>1, <2>2, <2>3, OrderedKept
  <2>5. PICK t \in Bare : StandsAt(e, t)   BY <1>5 DEF Stands
  <2>6. /\ t \in DOMAIN tree /\ e.parent < nextId
        /\ (e.parent \in DOMAIN tree' => e.parent \in DOMAIN tree)
    <3>1. t \in DOMAIN tree   BY DEF Bare
    <3>2. e.parent < t /\ t < nextId /\ t \in Nat /\ e.parent \in Nat
      BY <1>2, <1>a, <2>5, <3>1 DEF StandsAt
    <3> QED BY <1>2, <3>1, <3>2
  <2>7. StandsAt(e, t)'   BY <1>1, <1>2, <2>5, <2>6 DEF StandsAt
  <2> QED BY <2>4, <2>5, <2>7 DEF Stands
<1> QED BY <1>4, <1>5

\* The entry of an operation whose node has no row stands.
LEMMA AdvancedNew ==
    ASSUME SInv, TreeInv, AlongInv, RightInv, Traced, Advances, rows' = rows,
           NEW e \in Gap, e.seq = op.seq
    PROVE  \A x : x = nextId => x \in Bare' /\ StandsAt(e, x)'
<1>1. at = "row" /\ at \in Busy /\ UNCHANGED <<wal, truth, evicted>>   BY DEF Advances, Busy
<1>2. /\ nextId \in Nat /\ DOMAIN tree' = DOMAIN tree \cup {nextId} /\ nextId \notin DOMAIN rows
      /\ \A u \in DOMAIN tree : u \in Nat /\ u < nextId /\ tree'[u] = tree[u]
      /\ tree'[nextId].seq = op.seq /\ tree'[nextId].parent = op.parent
  BY AdvancedNodes
<1>3. e = Entry(op, op.parent, op.trigger)   BY <1>1, GapFacts DEF TreeInv, OrderInv
<1>4. e.parent = op.parent /\ e.delta = op.delta   BY <1>3, EntryFields
<1>5. op.parent = Root \/ op.parent \in DOMAIN tree   BY <1>1 DEF SInv, OpInv
<1>6. nextId >= 1   BY DEF TreeInv, IdsInv
<1>7. op.parent < nextId   BY <1>2, <1>5, <1>6 DEF Root
<1>8. op.parent \in DOMAIN tree' => op.parent \in DOMAIN tree /\ Fits(truth, e, tree'[op.parent])
  <2>1. op.parent \in DOMAIN tree' => op.parent \in DOMAIN tree   BY <1>2, <1>5, <1>7
  <2>2. op.parent \in DOMAIN tree => Fits(truth, op, tree[op.parent])   BY <1>1 DEF RightInv
  <2> QED BY <1>2, <1>4, <2>1, <2>2 DEF Fits
<1>9. PICK x : x = nextId   OBVIOUS
<1>10. x \in Bare' /\ StandsAt(e, x)'   BY <1>1, <1>2, <1>4, <1>7, <1>8, <1>9 DEF Bare, StandsAt
<1> QED BY <1>9, <1>10

\* The first row that cannot be written begins the run.
LEMMA PAdvanceFails ==
    ASSUME SInv, TreeInv, AlongInv, RightInv, LogInv, Clean, Advances, faults' = faults + 1
    PROVE  Good'
<1>1. /\ at = "row" /\ at' \in {"idle", "gc", "done"} /\ UNCHANGED <<wal, truth, evicted, rows>>
      /\ op.seq \in 1..MaxSeq
  BY DEF Advances, Clean, SInv, OpInv, Busy
<1>2. Loaded'   BY <1>1 DEF Loaded
<1>3. /\ nextId \in Nat /\ DOMAIN tree' = DOMAIN tree \cup {nextId} /\ nextId \notin DOMAIN rows
      /\ \A u \in DOMAIN tree : u \in Nat /\ u < nextId /\ tree'[u] = tree[u]
      /\ tree'[nextId].seq = op.seq /\ tree'[nextId].parent = op.parent
  BY AdvancedNodes
<1>4. tree = rows /\ \A e \in Elems(wal) : Kept(e) \/ e.seq = op.seq   BY <1>1 DEF LogInv
<1>5. Traced   BY DEF Traced, Clean
<1>6. Gap' = Gap   BY <1>1 DEF Gap, HasNode
<1>7. Bare' = {nextId}   BY <1>1, <1>3, <1>4 DEF Bare
<1>a. /\ \A d \in Gap : /\ d \in Elems(wal) /\ ~IsMark(d) /\ d.seq \in Nat
                        /\ d.seq \notin SeqsOf(rows)
      /\ op.seq \in Nat
  BY <1>1, GapFacts, BoundsAssumption
<1>8. \A d \in Gap : d.seq # op.seq => Gone(d)'
  <2>1. \A d \in Gap : d.seq # op.seq => d.seq \in evicted   BY <1>4, <1>a DEF Kept, IsMark
  <2>2. SeqsOf(tree') = SeqsOf(rows) \cup {op.seq}   BY <1>3, <1>4 DEF SeqsOf
  <2> QED BY <1>1, <1>a, <2>1, <2>2 DEF Gone
<1>9. ASSUME NEW e \in Gap, e.seq = op.seq PROVE Stands(e)'
  <2>0. \A d \in Gap : d.seq <= e.seq   BY <1>1, <1>9, <1>a DEF AlongInv
  <2>1. Ordered(e)'
    <3>1. CASE \E d \in Gap : d.seq < e.seq
      <4>1. PICK d \in Gap : d.seq < e.seq   BY <3>1
      <4>2. Gone(d)'   BY <1>8, <1>9, <1>a, <4>1
      <4> QED BY <1>6, <4>1, <4>2 DEF Ordered, Doomed
    <3>2. CASE ~\E d \in Gap : d.seq < e.seq
      <4>1. First(e)'   BY <1>6, <1>a, <3>2 DEF First
      <4> QED BY <4>1 DEF Ordered
    <3> QED BY <3>1, <3>2
  <2>2. PICK x : x = nextId   OBVIOUS
  <2>3. x \in Bare' /\ StandsAt(e, x)'   BY <1>1, <1>5, <1>9, <2>2, AdvancedNew
  <2> QED BY <2>1, <2>3 DEF Stands
<1>10. RunInv'   BY <1>6, <1>7, <1>8, <1>9 DEF RunInv
<1> QED BY <1>2, <1>10 DEF Good

\* A version on top of the run has no row either: the foreign key refuses it.
LEMMA PAdvance ==
    ASSUME SInv, TreeInv, AlongInv, RightInv, LapseInv, Lapse, Advances, faults' = faults
    PROVE  Good'
<1>1. /\ at = "row" /\ at' \in {"idle", "gc", "done"} /\ UNCHANGED <<wal, truth, evicted>>
      /\ op.seq \in 1..MaxSeq /\ at \in Busy
  BY DEF Advances, SInv, OpInv, Busy
<1>2. Loaded' /\ Loaded   BY <1>1 DEF Loaded
<1>3. RunInv   BY <1>2 DEF LapseInv
<1>4. /\ nextId \in Nat /\ DOMAIN tree' = DOMAIN tree \cup {nextId} /\ nextId \notin DOMAIN rows
      /\ nextId \notin DOMAIN tree
      /\ \A u \in DOMAIN tree : u \in Nat /\ u < nextId /\ tree'[u] = tree[u]
      /\ tree'[nextId].seq = op.seq /\ tree'[nextId].path = op.path
  BY AdvancedNodes
<1>5. Traced   BY DEF Traced, Lapse
<1>a. /\ \A d \in Gap : d \in Elems(wal) /\ ~IsMark(d) /\ d.seq \in Nat
      /\ op.seq \in Nat
  BY <1>1, GapFacts, BoundsAssumption
<1>b. \A u \in DOMAIN rows : u \in DOMAIN tree   BY <1>1 DEF SInv, NodesInv
<1>6. CASE rows' # rows
  <2>1. /\ DOMAIN rows' = DOMAIN rows \cup {nextId} /\ rows'[nextId] = tree'[nextId]
        /\ \A u \in DOMAIN rows : rows'[u] = rows[u]
    BY <1>6, AdvancedNodes
  <2>2. SeqsOf(rows') = SeqsOf(rows) \cup {op.seq}   BY <1>4, <2>1 DEF SeqsOf
  <2>3. \A e : e \in Gap' <=> e \in Gap /\ e.seq # op.seq   BY <1>1, <2>2 DEF Gap, HasNode
  <2>4. Bare' = Bare   BY <1>4, <2>1 DEF Bare
  <2>5. ASSUME NEW e \in Gap', Faithful(e) PROVE Faithful(e)'
    <3>1. e \in Elems(wal) /\ e.trigger # "DeclineDone"   BY <1>a, <2>3 DEF IsMark
    <3>2. /\ nextId \in Nat /\ \A u \in DOMAIN rows : u \in Nat /\ u < nextId
          /\ rows'[nextId].seq \in 1..MaxSeq
      BY <1>1, <1>4, <1>b, <2>1
    <3> QED BY <1>1, <2>1, <2>5, <3>1, <3>2, FaithfulWith
  <2>6. \A e \in Gap' : (Gone(e) => Gone(e)') /\ (Stands(e) => Stands(e)')
    BY <2>3, <2>4, AdvancedStands
  <2>7. \A e \in Gap' : ~Inflight(e)   BY <2>3 DEF Inflight
  <2>8. \A t, u \in Bare' : tree'[t].path = tree'[u].path
    BY <1>3, <1>4, <2>4 DEF RunInv, Bare
  <2>9. RunInv'   BY <1>3, <2>3, <2>4, <2>5, <2>6, <2>7, <2>8 DEF RunInv
  <2> QED BY <1>2, <2>9 DEF Good
<1>7. CASE rows' = rows
  <2>1. ~RowFits(op)
    <3>1. faults \in Nat   BY DEF TreeInv, IdsInv
    <3>2. faults' # faults + 1   BY <3>1
    <3>3. rows' # With(rows, nextId, NodeOf(op, op.depth))   BY <1>4, <1>7 DEF With
    <3> QED BY <3>2, <3>3 DEF Advances
  <2>2. op.parent \in Bare /\ op.parent # Root
    BY <1>1, <2>1 DEF RowFits, SInv, OpInv, Bare
  <2>3. tree[op.parent].path = op.path
    <3>1. op.parent = HeadOf(op.path)   BY <1>1 DEF TreeInv, OrderInv
    <3>2. op.path \in DOMAIN heads /\ op.parent = heads[op.path]   BY <2>2, <3>1 DEF HeadOf
    <3> QED BY <1>2, <3>2 DEF TreeInv, TopInv
  <2>4. Bare' = Bare \cup {nextId}   BY <1>4, <1>7 DEF Bare
  <2>5. Gap' = Gap   BY <1>1, <1>7 DEF Gap, HasNode
  <2>6. \A t \in Bare' : tree'[t].path = op.path
    BY <1>3, <1>4, <2>2, <2>3, <2>4 DEF RunInv, Bare
  <2>7. ASSUME NEW e \in Gap, e.seq # op.seq PROVE Gone(e)' \/ Stands(e)'
    <3>1. (Gone(e) => Gone(e)') /\ (Stands(e) => Stands(e)')
      BY <2>4, <2>5, <2>7, AdvancedStands
    <3>2. ~Inflight(e) /\ Bare # {}   BY <2>2, <2>7 DEF Inflight
    <3> QED BY <1>3, <3>1, <3>2 DEF RunInv
  <2>8. ASSUME NEW e \in Gap, e.seq = op.seq PROVE Stands(e)'
    <3>1. Ordered(e)   BY <1>1, <1>3, <2>2, <2>8, HeadLink
    <3>2. \A d \in Gap : d.seq < e.seq =>
            /\ d \in Gap' /\ (Gone(d) => Gone(d)')
            /\ \A t \in Bare : tree[t].seq = d.seq => t \in Bare' /\ tree'[t].seq = d.seq
      <4>1. \A d \in Gap : d.seq < e.seq => d.seq # op.seq   BY <1>a, <2>8
      <4>2. \A d \in Gap : d.seq # op.seq => (Gone(d) => Gone(d)')
        BY <2>4, <2>5, AdvancedStands
      <4> QED BY <1>4, <2>4, <2>5, <4>1, <4>2 DEF Bare
    <3>3. Ordered(e)'   BY <1>a, <2>5, <3>1, <3>2, OrderedKept
    <3>4. PICK x : x = nextId   OBVIOUS
    <3>5. x \in Bare' /\ StandsAt(e, x)'   BY <1>5, <1>7, <2>8, <3>4, AdvancedNew
    <3> QED BY <3>3, <3>5 DEF Stands
  <2>9. RunInv'   BY <2>5, <2>6, <2>7, <2>8 DEF RunInv
  <2> QED BY <1>2, <2>9 DEF Good
<1> QED BY <1>6, <1>7

\* Promotion gives a node without a row one: its entry was the first, or does not matter.
LEMMA PPromote ==
    ASSUME SInv, TreeInv, AlongInv, LapseInv, Lapse, NEW v \in plan.promote, GcPromote(v)
    PROVE  Good'
<1>1. /\ v \in DOMAIN tree /\ at = "evict" /\ at' \in {"evict", "idle"}
      /\ UNCHANGED <<wal, truth, evicted>>
  BY PromotedNodes
<1>2. Loaded /\ Loaded' /\ \A e \in Gap : ~Inflight(e)   BY <1>1 DEF Loaded, Inflight
<1>3. RunInv   BY <1>2 DEF LapseInv
<1>4. /\ DOMAIN tree' = DOMAIN tree
      /\ \A u \in DOMAIN tree : /\ tree'[u].seq = tree[u].seq /\ tree'[u].path = tree[u].path
                                /\ tree'[u].parent = tree[u].parent
  BY <1>1, PromotedNodes
<1>b. \A u \in DOMAIN rows : u \in DOMAIN tree /\ tree[u] = rows[u]
  BY <1>1 DEF SInv, NodesInv
<1>5. CASE v \in DOMAIN rows \/ rows' = rows
  <2>1. /\ DOMAIN rows' = DOMAIN rows /\ \A u \in DOMAIN rows : rows'[u].seq = rows[u].seq
    <3>1. CASE rows' = rows   BY <3>1
    <3>2. CASE rows' # rows /\ v \in DOMAIN rows
      <4>1. /\ DOMAIN rows' = DOMAIN rows \cup {v} /\ rows'[v] = tree'[v]
            /\ \A u \in DOMAIN rows : u # v => rows'[u] = rows[u]
        BY <3>2, PromotedNodes
      <4> QED BY <1>4, <1>b, <3>2, <4>1
    <3> QED BY <1>5, <3>1, <3>2
  <2>2. SeqsOf(rows') = SeqsOf(rows)   BY <2>1 DEF SeqsOf
  <2>3. Gap' = Gap   BY <1>1, <2>2 DEF Gap, HasNode
  <2>4. Bare' = Bare   BY <1>4, <2>1 DEF Bare
  <2>5. ASSUME NEW e \in Gap, Bare = {}, Faithful(e) PROVE Faithful(e)'
    <3>1. DOMAIN tree \subseteq DOMAIN rows   BY <2>5 DEF Bare
    <3> QED BY <2>5, <3>1, FaithfulPromote
  <2>6. RunInv'   BY <1>1, <1>2, <1>3, <1>4, <2>3, <2>4, <2>5, RunFrame
  <2> QED BY <1>2, <2>6 DEF Good
<1>6. CASE v \notin DOMAIN rows /\ rows' # rows
  <2>1. /\ DOMAIN rows' = DOMAIN rows \cup {v} /\ rows'[v].seq = tree[v].seq
        /\ \A u \in DOMAIN rows : rows'[u] = rows[u]
        /\ tree[v].parent = Root \/ tree[v].parent \in DOMAIN rows
    BY <1>4, <1>6, PromotedNodes
  <2>2. SeqsOf(rows') = SeqsOf(rows) \cup {tree[v].seq}   BY <2>1 DEF SeqsOf
  <2>3. \A e : e \in Gap' <=> e \in Gap /\ e.seq # tree[v].seq
    BY <1>1, <2>2 DEF Gap, HasNode
  <2>4. Bare' = Bare \ {v} /\ v \in Bare   BY <1>1, <1>4, <1>6, <2>1 DEF Bare
  <2>5. SeqsOf(tree') = SeqsOf(tree)   BY <1>4 DEF SeqsOf
  <2>6. \A e : Gone(e) <=> Gone(e)'   BY <1>1, <2>5 DEF Gone
  <2>7. ASSUME NEW d \in Gap, d.seq = tree[v].seq PROVE ~Gone(d) /\ (First(d) \/ Doomed(d))
    <3>1. ~Gone(d)   BY <1>1, <2>7 DEF Gone, SeqsOf
    <3>2. Stands(d)   BY <1>2, <1>3, <2>4, <3>1 DEF RunInv
    <3>3. PICK u \in Bare : StandsAt(d, u)   BY <3>2 DEF Stands
    <3>4. u = v
      BY <1>1, <2>7, <3>3 DEF StandsAt, Bare, SInv, NodesInv, AreNodes
    <3>5. ~Linked(d)
      <4> SUFFICES ASSUME Linked(d) PROVE FALSE   OBVIOUS
      <4>1. d.parent \in DOMAIN tree /\ d.parent \notin DOMAIN rows   BY DEF Linked, Bare
      <4>2. tree[v].parent = d.parent   BY <3>3, <3>4, <4>1 DEF StandsAt
      <4>3. d.parent # Root   BY <4>1 DEF TreeInv, IdsInv, Placed, Root
      <4> QED BY <2>1, <4>1, <4>2, <4>3
    <3> QED BY <3>1, <3>2, <3>5 DEF Stands, Ordered
  <2>8. ASSUME NEW e \in Gap', Stands(e) PROVE Stands(e)'
    <3>1. e \in Gap /\ e.seq # tree[v].seq /\ Ordered(e)   BY <2>3, <2>8 DEF Stands
    <3>2. \A d \in Gap' : d \in Gap /\ d.seq \in Nat   BY <2>3, GapFacts
    <3>3. \A d \in Gap : d.seq # tree[v].seq =>
            /\ d \in Gap' /\ (Gone(d) => Gone(d)')
            /\ \A t \in Bare : tree[t].seq = d.seq => t \in Bare' /\ tree'[t].seq = d.seq
      BY <1>4, <2>3, <2>4, <2>6 DEF Bare
    <3>4. \A d \in Gap : d.seq = tree[v].seq =>
            d \notin Gap' /\ ~Gone(d) /\ (First(d) \/ Doomed(d))
      BY <2>3, <2>7
    <3>5. Ordered(e)'   BY <3>1, <3>2, <3>3, <3>4, OrderedKept
    <3>6. PICK t \in Bare : StandsAt(e, t)   BY <2>8 DEF Stands
    <3>7. t \in Bare' /\ t \in DOMAIN tree   BY <2>4, <3>1, <3>6 DEF StandsAt, Bare
    <3>8. StandsAt(e, t)'   BY <1>1, <1>4, <3>6, <3>7 DEF StandsAt, Fits
    <3> QED BY <3>5, <3>7, <3>8 DEF Stands
  <2>9. \A t, u \in Bare' : tree'[t].path = tree'[u].path   BY <1>3, <1>4, <2>4 DEF RunInv, Bare
  <2>10. RunInv'   BY <1>2, <1>3, <2>3, <2>4, <2>6, <2>8, <2>9 DEF RunInv
  <2> QED BY <1>2, <2>10 DEF Good
<1> QED BY <1>5, <1>6

\* The entry of a version that is deleted is one that replay would bring back.
LEMMA PDelete ==
    ASSUME SInv, TreeInv, AlongInv, LapseInv, Lapse, NEW v \in plan.evict, GcDelete(v)
    PROVE  Good'
<1>1. /\ v \in DOMAIN tree /\ at = "evict" /\ at' = "evict"
      /\ UNCHANGED <<wal, truth>> /\ evicted' = evicted \cup {tree[v].seq}
  BY DeletedNodes
<1>2. Loaded /\ Loaded' /\ \A e \in Gap : ~Inflight(e)   BY <1>1 DEF Loaded, Inflight
<1>3. RunInv   BY <1>2 DEF LapseInv
<1>4. /\ DOMAIN tree' = DOMAIN tree \ {v} /\ DOMAIN rows' = DOMAIN rows \ {v}
      /\ \A u \in DOMAIN tree : u # v =>
           /\ tree'[u].path = tree[u].path /\ tree'[u].seq = tree[u].seq
           /\ tree'[u].parent = IF tree[u].parent = v THEN Root ELSE tree[u].parent
      /\ \A u \in DOMAIN rows : u # v => rows'[u].seq = rows[u].seq
  BY DeletedNodes
<1>b. /\ \A u \in DOMAIN rows : u \in DOMAIN tree /\ tree[u] = rows[u]
      /\ \A x, y \in DOMAIN tree : tree[x].seq = tree[y].seq => x = y
  BY <1>1 DEF SInv, NodesInv, AreNodes
<1>5. SeqsOf(tree') \subseteq SeqsOf(tree) /\ tree[v].seq \notin SeqsOf(tree')
  BY <1>1, <1>4, <1>b DEF SeqsOf
<1>6. SeqsOf(rows') \subseteq SeqsOf(rows)
      /\ \A s \in SeqsOf(rows) : s \in SeqsOf(rows') \/ s = tree[v].seq
  BY <1>4, <1>b DEF SeqsOf
<1>7. Gap \subseteq Gap' /\ \A e \in Gap' : e \in Gap \/ e.seq = tree[v].seq
  BY <1>1, <1>6 DEF Gap, HasNode
<1>8. Bare' = Bare \ {v}   BY <1>4 DEF Bare
<1>9. \A e : (Gone(e) => Gone(e)') /\ (e.seq = tree[v].seq => Gone(e)')
  BY <1>1, <1>5 DEF Gone
<1>10. ASSUME NEW e \in Gap, e.seq # tree[v].seq, Stands(e) PROVE Stands(e)'
  <2>1. Ordered(e) /\ e \in Gap'   BY <1>7, <1>10 DEF Stands
  <2>2. \A d \in Gap' : (d \in Gap \/ Gone(d)') /\ d.seq \in Nat
    <3>1. \A d \in Gap' : d \in Elems(wal)   BY <1>1 DEF Gap
    <3> QED BY <1>7, <1>9, <3>1, BoundsAssumption DEF SInv, NumbersInv
  <2>3. \A d \in Gap :
          \/ d \in Gap' /\ Gone(d)'
          \/ /\ d \in Gap' /\ (Gone(d) => Gone(d)')
             /\ \A t \in Bare : tree[t].seq = d.seq => t \in Bare' /\ tree'[t].seq = d.seq
    BY <1>4, <1>7, <1>8, <1>9 DEF Bare
  <2>4. Ordered(e)'   BY <2>1, <2>2, <2>3, OrderedKept
  <2>5. PICK t \in Bare : StandsAt(e, t)   BY <1>10 DEF Stands
  <2>6. t # v /\ t \in Bare' /\ t \in DOMAIN tree   BY <1>8, <1>10, <2>5 DEF StandsAt, Bare
  <2>7. v # Root   BY <1>1 DEF TreeInv, IdsInv, Placed, Root
  <2>8. \/ tree'[t].parent = e.parent
        \/ tree'[t].parent = Root /\ e.parent \notin DOMAIN tree'
    BY <1>4, <2>5, <2>6, <2>7 DEF StandsAt
  <2>9. e.parent \in DOMAIN tree' => Fits(truth', e, tree'[e.parent])
    BY <1>1, <1>4, <2>5 DEF StandsAt, Fits
  <2>10. tree'[t].seq = e.seq /\ e.parent < t   BY <1>4, <2>5, <2>6 DEF StandsAt
  <2>11. StandsAt(e, t)'   BY <2>8, <2>9, <2>10 DEF StandsAt
  <2> QED BY <2>4, <2>6, <2>11 DEF Stands
<1>11. ASSUME NEW e, Bare = {}, Faithful(e) PROVE Faithful(e)'
  <2>1. DOMAIN tree \subseteq DOMAIN rows   BY <1>11 DEF Bare
  <2> QED BY <1>11, <2>1, FaithfulDelete
<1>12. \A t, u \in Bare' : tree'[t].path = tree'[u].path   BY <1>3, <1>4, <1>8 DEF RunInv, Bare
<1>13. ASSUME NEW e \in Gap'
       PROVE  Gone(e)' \/ Inflight(e)' \/ Stands(e)' \/ (Bare' = {} /\ Faithful(e)')
  <2>1. CASE e.seq = tree[v].seq   BY <1>9, <2>1
  <2>2. CASE e.seq # tree[v].seq
    BY <1>2, <1>3, <1>7, <1>8, <1>9, <1>10, <1>11, <2>2 DEF RunInv
  <2> QED BY <2>1, <2>2
<1>14. RunInv'   BY <1>12, <1>13 DEF RunInv
<1> QED BY <1>2, <1>14 DEF Good

\* A kill and an open change no entry, and no more of a row than its parent.
LEMMA POpens ==
    ASSUME SInv, TreeInv, AlongInv, RightInv, LapseInv, Lapse, Dies \/ Open \/ Opened
    PROVE  Good'
<1>1. CASE Dies \/ Open
  <2>1. /\ UNCHANGED <<wal, truth>> /\ evicted \subseteq evicted' /\ at' \in {"down", "replay"}
        /\ DOMAIN rows' = DOMAIN rows /\ \A v \in DOMAIN rows : rows'[v].seq = rows[v].seq
    <3>1. CASE Dies   BY <3>1, DiesWhat DEF Loosened
    <3>2. CASE Open   BY <3>2 DEF Open, durable, ghost
    <3> QED BY <1>1, <3>1, <3>2
  <2>2. Gap' = Gap /\ ~Loaded'
    <3>1. SeqsOf(rows') = SeqsOf(rows)   BY <2>1 DEF SeqsOf
    <3> QED BY <2>1, <3>1 DEF Gap, HasNode, Loaded
  <2>3. RestInv
    <3>1. CASE Loaded
      <4>1. RunInv /\ Traced   BY <3>1 DEF LapseInv, Lapse, Traced
      <4> QED BY <3>1, <4>1, RunRests
    <3>2. CASE ~Loaded   BY <3>2 DEF LapseInv
    <3> QED BY <3>1, <3>2
  <2>4. RestInv'   BY <2>1, <2>2, <2>3, RestFrame
  <2> QED BY <2>2, <2>4 DEF Good
<1>2. CASE Opened
  <2>1. UNCHANGED <<wal, rows, tree>> /\ at = "replay" /\ at' = "recover" /\ tasks = <<>>
    BY <1>2 DEF Opened, durable
  <2>2. Loaded' /\ tree = rows   BY <2>1 DEF Loaded, SInv, NodesInv
  <2>3. Bare' = {}   BY <2>1, <2>2 DEF Bare
  <2>4. \A e \in Elems(wal) : HasNode(e)   BY <2>1, EmptySeq DEF AlongInv
  <2>5. Gap' = {}   BY <2>1, <2>4 DEF Gap, HasNode
  <2>6. RunInv'   BY <2>3, <2>5 DEF RunInv
  <2> QED BY <2>2, <2>6 DEF Good
<1> QED BY <1>1, <1>2

\* d comes before e, in the log and in the ids.
Preceded(e, d) == After(e, d) /\ (First(d) \/ (Beyond(d) /\ d.parent < e.parent))

\* Replay takes the first entry, h, away.  An entry whose parent's id is the next one, n,
\* comes right after h, and is the first then.
LEMMA ReplayOrder ==
    ASSUME SInv, TreeInv, AlongInv, RestInv, Replay, rows' # rows,
           NEW h, h = Head(tasks), h.seq \notin evicted, NEW n, n = nextId
    PROVE  /\ h \in Gap /\ ~Ends(h)
           /\ \A e : e \in Gap' <=> e \in Gap /\ e.seq # h.seq
           /\ \A e \in Gap' : Ends(e) => Ends(e)'
           /\ \A e \in Gap' : (e.parent = n => Beyond(e)) /\ (Beyond(e)' => Beyond(e)) /\ ~First(e)
           /\ \A e \in Gap' : \A d \in Gap : e.parent = n /\ Preceded(e, d) => d = h
           /\ \A e \in Gap' : \A d \in Gap : ~Ends(e) /\ Beyond(e)' /\ Preceded(e, d) =>
                First(e)' \/ (d \in Gap' /\ Preceded(e, d)')
<1>1. /\ UNCHANGED <<wal, truth, evicted>>
      /\ nextId \in Nat /\ \A u \in DOMAIN rows : u \in Nat /\ u < nextId
      /\ at = "replay"
  BY ReplayedNodes
<1>2. /\ RowFits(h) /\ DOMAIN rows' = DOMAIN rows \cup {n}
      /\ \A u \in DOMAIN rows : rows'[u] = rows[u]
      /\ rows'[n].seq = h.seq
  BY ReplayedNodes
<1>3. n \in Nat /\ n >= 1 /\ (n = 1 \/ n - 1 \in DOMAIN rows) /\ n \notin DOMAIN rows
  BY <1>1 DEF AlongInv, TreeInv, IdsInv
<1>4. h \in Gap /\ First(h)   BY HeadIsFirst
<1>a. /\ \A d \in Gap : d.seq \in Nat /\ d.parent \in Nat
      /\ \A x, y \in Gap : x.seq = y.seq => x = y
  BY GapFacts
<1>b. ~Dead(h)   BY <1>2 DEF RowFits, Dead
<1>5. ~Ends(h)
  <2> SUFFICES ASSUME Ends(h) PROVE FALSE   OBVIOUS
  <2>1. PICK d \in Gap : d.seq <= h.seq /\ (d.seq \in evicted \/ Dead(d))   BY DEF Ends
  <2>2. d.seq = h.seq   BY <1>4, <1>a, <2>1 DEF First
  <2>3. d = h   BY <1>4, <1>a, <2>2
  <2> QED BY <1>b, <2>1, <2>3
<1>6. \A e : e \in Gap' <=> e \in Gap /\ e.seq # h.seq
  <2>1. SeqsOf(rows') = SeqsOf(rows) \cup {h.seq}   BY <1>2, <1>3 DEF SeqsOf
  <2> QED BY <1>1, <2>1 DEF Gap, HasNode
<1>7. \A e \in Gap' : e \in Gap /\ h.seq < e.seq   BY <1>4, <1>6, <1>a DEF First
<1>8. \A d \in Gap : First(d) => d = h   BY <1>4, <1>a DEF First
<1>9. ASSUME NEW d \in Gap, Beyond(d) PROVE d.parent >= n
  BY <1>3, <1>9, <1>a DEF Beyond, Root
<1>10. ASSUME NEW d \in Gap PROVE Beyond(d)' <=> Beyond(d) /\ d.parent > n
  BY <1>1, <1>2, <1>3, <1>a DEF Beyond
<1>11. ASSUME NEW d \in Gap, Dead(d) PROVE Dead(d)'
  <2>1. PICK u \in DOMAIN rows : ~(u < d.parent)   BY <1>11 DEF Dead, Beyond
  <2>2. d.parent < n   BY <1>1, <1>a, <2>1
  <2>3. d.parent # Root /\ d.parent \notin DOMAIN rows'   BY <1>2, <1>3, <1>11, <1>a, <2>2 DEF Dead
  <2>4. ~Beyond(d)'   BY <1>10, <1>11 DEF Dead
  <2> QED BY <2>3, <2>4 DEF Dead
<1>12. ASSUME NEW e \in Gap', Ends(e) PROVE Ends(e)'
  <2>1. PICK d \in Gap : d.seq <= e.seq /\ (d.seq \in evicted \/ Dead(d))   BY <1>12 DEF Ends
  <2>2. d # h   BY <1>b, <2>1
  <2>3. d \in Gap'   BY <1>4, <1>6, <1>a, <2>2
  <2> QED BY <1>1, <1>11, <2>1, <2>3 DEF Ends
<1>13. ASSUME NEW e \in Gap', After(e, h) PROVE First(e)'
  <2>1. \A x \in Gap' : x.seq >= e.seq   BY <1>4, <1>7, <1>13, <1>a DEF After
  <2> QED BY <2>1 DEF First
<1>14. ASSUME NEW e \in Gap', NEW d \in Gap, e.parent = n, Preceded(e, d) PROVE d = h
  <2>1. First(d)   BY <1>3, <1>9, <1>14, <1>a DEF Preceded
  <2> QED BY <1>8, <2>1
<1>15. \A e \in Gap' : ~First(e)   BY <1>7, <1>8, <1>a
<1>16. \A e \in Gap' : e.parent = n => Beyond(e)   BY <1>1, <1>3 DEF Beyond, Root
<1>17. ASSUME NEW e \in Gap', NEW d \in Gap, ~Ends(e), Beyond(e)', Preceded(e, d), ~First(e)'
       PROVE  d \in Gap' /\ Preceded(e, d)'
  <2>1. d # h   BY <1>13, <1>17 DEF Preceded
  <2>2. d \in Gap' /\ Beyond(d) /\ d.parent < e.parent /\ d.parent >= n
    BY <1>4, <1>6, <1>8, <1>9, <1>17, <1>a, <2>1 DEF Preceded
  <2>3. After(e, d)'   BY <1>6, <1>17 DEF After, Preceded
  <2>4. CASE d.parent > n
    <3>1. Beyond(d)'   BY <1>10, <2>2, <2>4
    <3> QED BY <2>2, <2>3, <3>1 DEF Preceded
  <2>5. CASE d.parent = n
    <3>1. ~Ends(d)
      <4> SUFFICES ASSUME Ends(d) PROVE Ends(e)   BY <1>17
      <4>1. PICK x \in Gap : x.seq <= d.seq /\ (x.seq \in evicted \/ Dead(x))   BY DEF Ends
      <4>2. x.seq <= e.seq   BY <1>7, <1>17, <1>a, <4>1 DEF After, Preceded
      <4> QED BY <4>1, <4>2 DEF Ends
    <3>2. PICK x \in Gap : Preceded(d, x)
      BY <1>15, <2>2, <3>1 DEF RestInv, Follows, Preceded
    <3>3. x = h   BY <1>14, <2>2, <2>5, <3>2
    <3>4. First(d)'   BY <1>13, <2>2, <3>2, <3>3 DEF Preceded
    <3> QED BY <2>2, <2>3, <3>4 DEF Preceded
  <2> QED BY <1>3, <1>a, <2>2, <2>4, <2>5
<1>18. \A e \in Gap' : Beyond(e)' => Beyond(e)   BY <1>6, <1>10
<1> QED BY <1>4, <1>5, <1>6, <1>12, <1>14, <1>15, <1>16, <1>17, <1>18

\* Replay gives the next version of the run the id that the entry after it names.
LEMMA PReplay ==
    ASSUME SInv, TreeInv, AlongInv, LapseInv, Lapse, Lapse', Replay
    PROVE  Good'
<1>0. PICK h : h = Head(tasks)   OBVIOUS
<1>1. /\ at = "replay" /\ at' \in {"replay", "failed"} /\ UNCHANGED <<wal, truth, evicted>>
      /\ h.seq \notin evicted
  BY <1>0, ReplayedNodes DEF Lapse
<1>2. ~Loaded /\ ~Loaded'   BY <1>1 DEF Loaded
<1>3. RestInv   BY <1>2 DEF LapseInv
<1>4. CASE rows' = rows
  <2>1. Gap' = Gap   BY <1>1, <1>4 DEF Gap, HasNode
  <2>2. RestInv'   BY <1>1, <1>3, <1>4, <2>1, RestFrame
  <2> QED BY <1>2, <2>2 DEF Good
<1>5. CASE rows' # rows
  <2>0. PICK n : n = nextId   OBVIOUS
  <2>1. /\ DOMAIN rows' = DOMAIN rows \cup {n} /\ \A u \in DOMAIN rows : rows'[u] = rows[u]
        /\ rows'[n].seq = h.seq
    BY <1>0, <1>5, <2>0, ReplayedNodes
  <2>2. /\ \A e \in Gap' : e \in Gap /\ (Ends(e) => Ends(e)')
        /\ \A e \in Gap' : (e.parent = n => Beyond(e)) /\ (Beyond(e)' => Beyond(e)) /\ ~First(e)
        /\ \A e \in Gap' : \A d \in Gap : e.parent = n /\ Preceded(e, d) => d = h
        /\ \A e \in Gap' : \A d \in Gap : ~Ends(e) /\ Beyond(e)' /\ Preceded(e, d) =>
             First(e)' \/ (d \in Gap' /\ Preceded(e, d)')
    BY <1>0, <1>1, <1>3, <1>5, <2>0, ReplayOrder
  <2>3. ASSUME NEW e \in Gap', Follows(e), ~Ends(e) PROVE Follows(e)'
    <3>0. Beyond(e) => \E d \in Gap : Preceded(e, d) /\ Fits(truth, e, d)
      BY <2>2, <2>3 DEF Follows, Preceded
    <3>1. ASSUME e.parent \in DOMAIN rows' PROVE Fits(truth', e, rows'[e.parent])
      <4>1. CASE e.parent \in DOMAIN rows   BY <1>1, <2>1, <2>3, <4>1 DEF Follows
      <4>2. CASE e.parent = n
        <5>1. Fits(truth, e, h)   BY <2>2, <3>0, <4>2
        <5> QED BY <1>1, <2>1, <4>2, <5>1 DEF Fits
      <4> QED BY <2>1, <3>1, <4>1, <4>2
    <3>2. ASSUME Beyond(e)', ~First(e)' PROVE \E d \in Gap' : Preceded(e, d)' /\ Fits(truth', e, d)
      BY <1>1, <2>2, <2>3, <3>0, <3>2
    <3> QED BY <3>1, <3>2 DEF Follows, Preceded
  <2>4. RestInv'   BY <1>3, <2>2, <2>3 DEF RestInv
  <2> QED BY <1>2, <2>4 DEF Good
<1> QED BY <1>4, <1>5

\* Every step keeps the run good, also the one that fails first.
LEMMA PNext ==
    ASSUME SInv, SInv', TreeInv, AlongInv, KnownInv, RightInv, LogInv, FaithInv, LapseInv,
           [Next]_vars
    PROVE  LapseInv'
<1> SUFFICES ASSUME Lapse' PROVE Good'   BY DEF LapseInv, Good
<1>0. Lapse \/ (Clean /\ faults' = faults + 1)   BY LapseBefore
<1>a. faults \in Nat   BY DEF TreeInv, IdsInv
<1>1. CASE Still   BY <1>0, <1>1, PStill
<1>2. CASE Advances
  <2>1. faults' = faults \/ faults' = faults + 1   BY <1>2 DEF Advances
  <2>2. CASE Lapse
    <3>1. faults' = faults   BY <2>1, <2>2 DEF Lapse
    <3> QED BY <1>2, <2>2, <3>1, PAdvance
  <2>3. CASE Clean /\ faults' = faults + 1   BY <1>2, <2>3, PAdvanceFails
  <2> QED BY <1>0, <2>2, <2>3
<1>3. CASE ~Still /\ ~Advances
  <2>1. faults' = faults
    <3>1. \A p \in Paths : \A c, shape, trigger : Records(p, c, shape, trigger) => faults' = faults
      BY DEF Records, Start
    <3>2. CommitEntry \/ Dies \/ Open \/ Opened => faults' = faults
      BY DiesWhat DEF CommitEntry, Open, Opened, ghost
    <3> QED BY <1>3, <3>1, <3>2, Kinds, PromotedNodes, DeletedNodes, ReplayedNodes
  <2>2. Lapse   BY <1>0, <1>a, <2>1
  <2>3. ASSUME NEW p \in Paths, NEW c, NEW shape, NEW trigger, Records(p, c, shape, trigger)
        PROVE  Good'
    BY <2>2, <2>3, PRecord
  <2>4. CASE CommitEntry   BY <2>2, <2>4, PCommit
  <2>5. ASSUME NEW v \in plan.promote, GcPromote(v) PROVE Good'   BY <2>2, <2>5, PPromote
  <2>6. ASSUME NEW v \in plan.evict, GcDelete(v) PROVE Good'   BY <2>2, <2>6, PDelete
  <2>7. CASE Dies \/ Open \/ Opened   BY <2>2, <2>7, POpens
  <2>8. CASE Replay   BY <2>2, <2>8, PReplay
  <2> QED BY <1>3, <2>3, <2>4, <2>5, <2>6, <2>7, <2>8, Kinds
<1> QED BY <1>1, <1>2, <1>3

-----------------------------------------------------------------------------
(* What is read. *)

VInv ==
    /\ SInv /\ TreeInv /\ LogInv /\ KnownInv
    /\ RightInv /\ FaithInv /\ ChainInv /\ AlongInv /\ LapseInv

\* Whatever is replayed while it can be traced fits its parent's row.
LEMMA WhatIsReplayedFits ==
    ASSUME VInv, [Next]_vars
    PROVE  ReplayFits
<1> USE DEF VInv
<1> SUFFICES ASSUME Replay, Traced', Head(tasks).parent \in DOMAIN rows
             PROVE  Fits(truth, Head(tasks), rows[Head(tasks).parent])
  BY DEF ReplayFits
<1>1. /\ at = "replay" /\ ~HasNode(Head(tasks)) /\ Head(tasks) \in Elems(wal)
      /\ UNCHANGED <<crashes, faults>>
  BY ReplayedNodes
<1>2. crashes > 0 /\ crashes \in Nat   BY <1>1 DEF TreeInv, IdsInv, Opening
<1>3. CASE faults = 0   BY <1>1, <1>3 DEF FaithInv, HasNode
<1>4. CASE faults = 1 /\ "resurrected" \notin spoilt'
  <2>1. Lapse   BY <1>4, Monotone DEF Lapse, TreeInv, IdsInv
  <2>2. RestInv   BY <1>1, <2>1 DEF LapseInv, Loaded
  <2> QED BY <1>4, <2>2, LapseFits
<1> QED BY <1>1, <1>2, <1>3, <1>4 DEF Traced

\* The invariant holds of an empty store.
LEMMA VInit == Init => VInv
<1> SUFFICES ASSUME Init PROVE VInv   OBVIOUS
<1>1. faults = 0 /\ Elems(wal) = {} /\ tree = rows /\ at = "idle"   BY EmptySeq DEF Init
<1>2. LogInv   BY <1>1 DEF LogInv
<1>3. LapseInv   BY <1>1 DEF LapseInv, Lapse
<1> QED BY <1>2, <1>3, SInit, TInit, KInit, FInit, CInit, AInit DEF VInv

\* Every step keeps the invariant.
LEMMA VNext == VInv /\ [Next]_vars => VInv'
<1> SUFFICES ASSUME VInv, [Next]_vars PROVE VInv'   OBVIOUS
<1> USE DEF VInv
<1>1. SInv'   BY SNext
<1>2. TreeInv'   BY TNext
<1>3. LogInv'   BY LNext DEF TreeInv, IdsInv
<1>5. KnownInv'   BY KNext
<1>6. RightInv'   BY <1>1, WhatIsReplayedFits, RightNext
<1>7. FaithInv'   BY <1>1, FNext
<1>8. ChainInv'   BY <1>1, <1>2, CNext
<1>9. AlongInv'   BY <1>1, ANext
<1>10. LapseInv'   BY <1>1, PNext
<1> QED BY <1>1, <1>2, <1>3, <1>5, <1>6, <1>7, <1>8, <1>9, <1>10

\* The invariant holds in every state.
LEMMA VInvariance == Spec => []VInv
BY VInit, VNext, PTL DEF Spec

\* For any number of versions, crashes and collections: read_node_content never gives a
\* version another content than the one recorded under its number, until a second step
\* has failed (any number of them before the first crash), or one has and replay has
\* brought a deleted version back.
THEOREM ContentIsNeverWrong == Spec => []NeverWrongContent
<1>1. ASSUME VInv, Traced, NEW v \in DOMAIN tree
      PROVE  Read(tree, v) \in {Unreadable, truth[tree[v].seq]}
  <2>1. Right(truth, tree) /\ NoBlob \notin DOMAIN refs
        /\ DOMAIN tree \subseteq Nat /\ \A u \in DOMAIN tree : tree[u].parent \in Nat
    BY <1>1 DEF VInv, RightInv, TreeInv, IdsInv, Placed
  <2> QED BY <2>1, ReadRight
<1>2. VInv => NeverWrongContent   BY <1>1 DEF NeverWrongContent, Traced
<1> QED BY <1>2, VInvariance, PTL

\* For any number of versions and collections: the newest version of every path is there
\* and reads as what was recorded (QuotaManager.protected_set and batch_promote spare its
\* chain), through any number of crashes while nothing has failed, and through any number
\* of failed steps before the first crash.
THEOREM HeadsStayReadable == Spec => []HeadIsReadable
<1>1. VInv /\ RefsInv => HeadIsReadable   BY ChainsAreRead DEF VInv
<1> QED BY <1>1, VInvariance, RInvariance, PTL

-----------------------------------------------------------------------------
(* The whole history. *)

\* The collector has deleted nothing, and at most one step has failed.
Whole == evicted = {} /\ faults <= 1

\* The versions that hold a content.
Solid(nodes) == {v \in DOMAIN nodes : nodes[v].trigger # "Delete"}

\* deep gives the depth each version was recorded with: a promotion makes a version less
\* deep, but its entry in the log is still that of a delta, and replay counts from there.
RunDeep(deep) ==
    /\ \A v \in Solid(tree) : tree[v].depth <= deep[tree[v].seq]
    /\ \A p \in DOMAIN heads :
         heads[p] \in Solid(tree) => deep[tree[heads[p]].seq] = tree[heads[p]].depth
    /\ \A p \in DOMAIN heads : heads[p] \notin plan.promote
    /\ at \in Busy =>
         /\ op.trigger # "Delete" => deep[op.seq] = op.depth
         /\ op.delta # NoBlob => /\ op.parent \in Solid(tree)
                                 /\ deep[tree[op.parent].seq] < deep[op.seq]
    /\ \A e \in Gap : e.delta # NoBlob => /\ e.parent \in Solid(tree)
                                          /\ deep[tree[e.parent].seq] < deep[e.seq]
    /\ \A e \in Gap : \A t \in DOMAIN tree : tree[t].seq = e.seq => tree[t].trigger = e.trigger

\* The row of the entry's parent, or the entry that will get its id, is less deep.
Shallow(deep, e) ==
    e.delta # NoBlob =>
        /\ e.parent # Root
        /\ e.parent \in DOMAIN rows =>
             e.parent \in Solid(rows) /\ rows[e.parent].depth < deep[e.seq]
        /\ Beyond(e) => \/ First(e)
                        \/ \E d \in Gap : /\ Preceded(e, d) /\ d.trigger # "Delete"
                                          /\ deep[d.seq] < deep[e.seq]

RestDeep(deep) == \A e \in Gap : Ends(e) \/ Shallow(deep, e)

Deep(deep) == IF Loaded THEN RunDeep(deep) ELSE RestDeep(deep)

Depths == [1..MaxSeq -> 0..D_MAX]

\* Every version with a content has its whole chain, in tree, table and log.
Complete ==
    /\ Chain(tree, Solid(tree)) /\ Chain(rows, Solid(rows))
    /\ \E deep \in Depths : Deep(deep)

WholeInv ==
    /\ "resurrected" \in spoilt => evicted # {}
    /\ Whole => Complete

\* A table whose rows are the tree's has the chains of its rows.
LEMMA TableChain ==
    ASSUME NEW f, NEW g, Placed(f), Placed(g), Chain(g, Solid(g)),
           \A v \in DOMAIN f : v \in DOMAIN g /\ g[v] = f[v]
    PROVE  Chain(f, Solid(f))
<1> SUFFICES ASSUME NEW u \in Solid(f)
             PROVE  /\ u \in DOMAIN f /\ f[u].depth \in 0..D_MAX
                    /\ \/ f[u].full # NoBlob
                       \/ /\ f[u].delta # NoBlob /\ f[u].parent \in Solid(f)
                          /\ f[f[u].parent].depth < f[u].depth
  BY DEF Chain
<1>1. u \in DOMAIN f /\ u \in Solid(g)   BY DEF Solid
<1>2. CASE f[u].full # NoBlob   BY <1>1, <1>2 DEF Chain
<1>3. CASE f[u].full = NoBlob
  <2> DEFINE w == f[u].parent
  <2>1. /\ f[u].depth \in 0..D_MAX /\ f[u].delta # NoBlob
        /\ w \in Solid(g) /\ g[w].depth < f[u].depth
    BY <1>1, <1>3 DEF Chain
  <2>2. w \in DOMAIN g /\ w # Root   BY <2>1 DEF Solid, Placed, Root
  <2>3. w \in DOMAIN f   BY <1>1, <2>2 DEF Placed
  <2>4. w \in Solid(f) /\ f[w] = g[w]   BY <2>1, <2>3 DEF Solid
  <2> QED BY <1>1, <2>1, <2>4
<1> QED BY <1>2, <1>3

\* A head is not promoted: the walk from it comes to its parent, which is thus spared.
LEMMA PromoteSparesHeads ==
    ASSUME SInv, TreeInv, Chain(tree, Solid(tree)), PlanPass
    PROVE  \A p \in DOMAIN heads : heads[p] \notin plan'.promote
<1> SUFFICES ASSUME NEW p \in DOMAIN heads, heads[p] \in plan'.promote PROVE FALSE   OBVIOUS
<1>0. D_MAX \in Nat   BY BoundsAssumption
<1>1. PICK v : v = heads[p]   OBVIOUS
<1>2. plan'.promote = {} \/ plan'.promote = ToPromote
  BY NoPlanFields DEF PlanPass, SInv, TodoInv
<1>3. /\ v \in DOMAIN tree /\ tree[v].delta # NoBlob
      /\ tree[v].parent \in Victims
  BY <1>1, <1>2 DEF ToPromote
<1> DEFINE w == tree[v].parent
<1>4. w \in DOMAIN tree /\ w \notin Protected   BY <1>3 DEF Victims, Candidates
<1>5. v \in Nat /\ w \in Nat /\ tree[v].full = NoBlob /\ tree[v].trigger # "Delete"
  BY <1>3, <1>4 DEF TreeInv, IdsInv, Placed, Shaped, SInv, NodesInv, AreNodes, IsNode
<1>6. v \in Solid(tree)   BY <1>3, <1>5 DEF Solid
<1>7. tree[v].depth \in 0..D_MAX /\ w \in Solid(tree) /\ tree[w].depth < tree[v].depth
  BY <1>5, <1>6 DEF Chain
<1>8. tree[w].depth \in 0..D_MAX   BY <1>7 DEF Chain
<1>9. D_MAX # 0 /\ D_MAX \in 0..D_MAX /\ D_MAX - 1 \in 0..D_MAX   BY <1>0, <1>7, <1>8
<1>10. PICK f : AreWalks(f, D_MAX) /\ Protected = UNION {f[D_MAX][heads[q]] : q \in DOMAIN heads}
  BY ProtectedIs
<1>11. f[D_MAX] = Walk(f, D_MAX) /\ f[D_MAX - 1] = Walk(f, D_MAX - 1)
  BY <1>9, <1>10 DEF AreWalks
<1>12. w \in f[D_MAX - 1][w]   BY <1>4, <1>5, <1>11 DEF Walk
<1>13. w \in f[D_MAX][v]   BY <1>3, <1>5, <1>9, <1>11, <1>12 DEF Walk
<1>14. w \in Protected   BY <1>1, <1>10, <1>13
<1> QED BY <1>4, <1>14

\* The tree has what it had, and the log lacks no more than it lacked.
LEMMA RunDeepFrame ==
    ASSUME NEW deep, RunDeep(deep), UNCHANGED <<tree, heads>>, Gap' \subseteq Gap,
           \A p \in DOMAIN heads : heads[p] \notin plan'.promote,
           at' \in Busy => at \in Busy /\ op' = op
    PROVE  RunDeep(deep)'
BY DEF RunDeep, Solid, Busy

\* Nothing is replayed, and the log lacks what it lacked.
LEMMA RestDeepFrame ==
    ASSUME NEW deep, RestDeep(deep), UNCHANGED <<rows, evicted>>, Gap' = Gap
    PROVE  RestDeep(deep)'
<1>1. ASSUME NEW e \in Gap
      PROVE  /\ First(e) => First(e)'
             /\ Beyond(e) <=> Beyond(e)'
             /\ Dead(e) => Dead(e)'
             /\ \A d : After(e, d) => After(e, d)'
  BY DEF First, Beyond, Dead, After
<1>2. ASSUME NEW e \in Gap, Ends(e) PROVE Ends(e)'   BY <1>1, <1>2 DEF Ends
<1>3. ASSUME NEW e \in Gap, NEW d \in Gap, Preceded(e, d) PROVE Preceded(e, d)'
  BY <1>1, <1>3 DEF Preceded
<1>4. ASSUME NEW e \in Gap, Shallow(deep, e) PROVE Shallow(deep, e)'
  <2>1. Solid(rows') = Solid(rows)   OBVIOUS
  <2>2. Beyond(e)' => \/ First(e)'
                      \/ ~(e.delta # NoBlob)
                      \/ \E d \in Gap' : /\ Preceded(e, d)' /\ d.trigger # "Delete"
                                         /\ deep[d.seq] < deep[e.seq]
    BY <1>1, <1>3, <1>4 DEF Shallow
  <2> QED BY <1>4, <2>1, <2>2 DEF Shallow
<1> QED BY <1>2, <1>4 DEF RestDeep

-----------------------------------------------------------------------------
(* Every step keeps the history whole. *)

\* One lemma per kind of step: until a first deletion begins, every version has its chain.
LEMMA WStill ==
    ASSUME SInv, TreeInv, Complete, Still
    PROVE  Complete'
<1>1. UNCHANGED <<tree, rows, heads, evicted>> /\ (Loaded' <=> Loaded)   BY DEF Still, Loaded
<1>2. \A e : HasNode(e)' <=> HasNode(e)   BY <1>1 DEF HasNode
<1>3. Gap' \subseteq Gap
  <2>1. \A e \in Elems(wal') : e \in Elems(wal) \/ HasNode(e)   BY StillLog DEF HasNode
  <2> QED BY <1>2, <2>1 DEF Gap
<1>4. PICK deep \in Depths : Deep(deep)   BY DEF Complete
<1>5. Deep(deep)'
  <2>1. CASE Loaded
    <3>1. RunDeep(deep)   BY <1>4, <2>1 DEF Deep
    <3>2. \A p \in DOMAIN heads : heads[p] \notin plan'.promote
      <4>1. CASE PlanPass   BY <4>1, PromoteSparesHeads DEF Complete
      <4>2. CASE plan'.promote \subseteq plan.promote   BY <3>1, <4>2 DEF RunDeep
      <4> QED BY <4>1, <4>2 DEF Still
    <3>3. at' \in Busy => at \in Busy /\ op' = op   BY DEF Still
    <3>4. RunDeep(deep)'   BY <1>1, <1>3, <3>1, <3>2, <3>3, RunDeepFrame
    <3> QED BY <1>1, <2>1, <3>4 DEF Deep
  <2>2. CASE ~Loaded
    <3>1. RestDeep(deep)   BY <1>4, <2>2 DEF Deep
    <3>2. wal' = wal   BY <2>2 DEF Still, Loaded, Ready
    <3>3. Gap' = Gap   BY <1>2, <3>2 DEF Gap
    <3>4. RestDeep(deep)'   BY <1>1, <3>1, <3>3, RestDeepFrame
    <3> QED BY <1>1, <2>2, <3>4 DEF Deep
  <2> QED BY <2>1, <2>2
<1> QED BY <1>1, <1>4, <1>5 DEF Complete

\* The new version is one deeper than the head, which no promotion has changed.
LEMMA WRecord ==
    ASSUME SInv, TreeInv, KnownInv, Complete,
           NEW p \in Paths, NEW c, NEW shape, NEW trigger, Records(p, c, shape, trigger)
    PROVE  Complete'
<1>0. D_MAX \in Nat   BY BoundsAssumption
<1>1. /\ UNCHANGED <<tree, rows, wal, heads, evicted, plan>> /\ at = "idle" /\ at' = "log"
      /\ seqNo \in Nat /\ seqNo >= 1 /\ seqNo <= MaxSeq
      /\ op'.seq = seqNo /\ op'.parent = HeadOf(p) /\ op'.delta = shape.delta
      /\ op'.depth = shape.depth /\ op'.trigger = trigger
  BY DEF Records, Start, Ready, todo, SInv, NumbersInv
<1>2. Loaded /\ Loaded'   BY <1>1 DEF Loaded
<1>3. Gap' = Gap   BY <1>1 DEF Gap, HasNode
<1>4. PICK deep \in Depths : RunDeep(deep)   BY <1>2 DEF Complete, Deep
<1>5. /\ \A v \in DOMAIN tree : tree[v].seq # seqNo
      /\ \A e \in Gap : e.seq # seqNo
  BY RecordsTruth DEF Gap
<1> DEFINE h == HeadOf(p)
<1>6. ASSUME shape.delta # NoBlob
      PROVE  /\ h \in Solid(tree) /\ deep[tree[h].seq] = tree[h].depth
             /\ shape.depth = tree[h].depth + 1 /\ shape.depth \in 0..D_MAX
  <2>1. /\ h \in DOMAIN tree /\ Read(tree, h) # Unreadable
        /\ shape.depth = tree[h].depth + 1 /\ tree[h].depth + 1 <= D_MAX
    BY <1>6 DEF Records
  <2>2. h \in Solid(tree)   BY <2>1, TombstoneUnreadable DEF Solid
  <2>3. p \in DOMAIN heads /\ h = heads[p]
    BY <2>1 DEF HeadOf, TreeInv, IdsInv, Placed, Root
  <2>4. deep[tree[h].seq] = tree[h].depth   BY <1>4, <2>2, <2>3 DEF RunDeep
  <2>5. tree[h].depth \in 0..D_MAX   BY <2>2 DEF Complete, Chain
  <2>6. shape.depth \in 0..D_MAX   BY <1>0, <2>1, <2>5
  <2> QED BY <2>1, <2>2, <2>4, <2>6
<1>7. shape.delta = NoBlob /\ trigger # "Delete" => shape.depth = 0   BY DEF Records
<1>8. shape.delta # NoBlob => trigger # "Delete"   BY DEF Records
<1>a. PICK now : now = [deep EXCEPT ![seqNo] = IF trigger = "Delete" THEN 0 ELSE shape.depth]
  OBVIOUS
<1>9. now \in Depths
  <2>1. seqNo \in 1..MaxSeq   BY <1>1, BoundsAssumption
  <2>2. (IF trigger = "Delete" THEN 0 ELSE shape.depth) \in 0..D_MAX   BY <1>0, <1>6, <1>7
  <2> QED BY <1>a, <2>1, <2>2 DEF Depths
<1>10. now[seqNo] = (IF trigger = "Delete" THEN 0 ELSE shape.depth)
       /\ \A s : s # seqNo => now[s] = deep[s]
  <2>1. seqNo \in DOMAIN deep   BY <1>1, BoundsAssumption DEF Depths
  <2> QED BY <1>a, <2>1
<1> HIDE DEF h
<1>11. RunDeep(now)'
  <2>1. \A v \in Solid(tree) : v \in DOMAIN tree /\ now[tree[v].seq] = deep[tree[v].seq]
    BY <1>5, <1>10 DEF Solid
  <2>2. \A v \in Solid(tree') : tree'[v].depth <= now[tree'[v].seq]
    BY <1>1, <1>4, <2>1 DEF RunDeep
  <2>3. \A q \in DOMAIN heads' :
          heads'[q] \in Solid(tree') => now[tree'[heads'[q]].seq] = tree'[heads'[q]].depth
    BY <1>1, <1>4, <2>1 DEF RunDeep
  <2>4. \A q \in DOMAIN heads' : heads'[q] \notin plan'.promote   BY <1>1, <1>4 DEF RunDeep
  <2>5. op'.trigger # "Delete" => now[op'.seq] = op'.depth   BY <1>1, <1>10
  <2>6. op'.delta # NoBlob => /\ op'.parent \in Solid(tree')
                              /\ now[tree'[op'.parent].seq] < now[op'.seq]
    <3> SUFFICES ASSUME shape.delta # NoBlob
                 PROVE  h \in Solid(tree) /\ now[tree[h].seq] < now[seqNo]
      BY <1>1 DEF h
    <3>1. h \in Solid(tree) /\ now[tree[h].seq] = tree[h].depth   BY <1>6, <2>1
    <3>2. now[seqNo] = tree[h].depth + 1   BY <1>6, <1>8, <1>10
    <3>3. tree[h].depth \in 0..D_MAX   BY <3>1 DEF Complete, Chain
    <3> QED BY <1>0, <3>1, <3>2, <3>3
  <2>7. \A e \in Gap' : e.delta # NoBlob => /\ e.parent \in Solid(tree')
                                            /\ now[tree'[e.parent].seq] < now[e.seq]
    BY <1>1, <1>3, <1>4, <1>5, <1>10, <2>1 DEF RunDeep
  <2>8. \A e \in Gap' : \A t \in DOMAIN tree' : tree'[t].seq = e.seq => tree'[t].trigger = e.trigger
    BY <1>1, <1>3, <1>4 DEF RunDeep
  <2> QED BY <2>2, <2>3, <2>4, <2>5, <2>6, <2>7, <2>8 DEF RunDeep
<1> QED BY <1>1, <1>2, <1>9, <1>11 DEF Complete, Deep

\* The entry is of the version under way, whose depth is known.
LEMMA WCommit ==
    ASSUME SInv, TreeInv, Complete, CommitEntry
    PROVE  Complete'
<1>1. /\ UNCHANGED <<tree, rows, heads, plan, op>> /\ at = "log" /\ at' \in {"restore", "row"}
      /\ wal' = Append(wal, Entry(op, op.parent, op.trigger))
  BY DEF CommitEntry, memory, todo
<1>2. Loaded /\ Loaded' /\ at \in Busy   BY <1>1 DEF Loaded, Busy
<1>3. PICK deep \in Depths : RunDeep(deep)   BY <1>2 DEF Complete, Deep
<1>4. PICK n : n = Entry(op, op.parent, op.trigger)   OBVIOUS
<1>5. n.seq = op.seq /\ n.parent = op.parent /\ n.delta = op.delta   BY <1>4, EntryFields
<1>6. Gap' \subseteq Gap \cup {n}
  <2>1. Elems(wal') = Elems(wal) \cup {n}   BY <1>1, <1>4, AppendSeq DEF SInv, NumbersInv
  <2> QED BY <1>1, <2>1 DEF Gap, HasNode
<1>7. \A t \in DOMAIN tree : tree[t].seq # op.seq   BY <1>2 DEF SInv, OpInv, SeqsOf
<1>8. RunDeep(deep)'
  <2>1. \A e \in Gap' : e.delta # NoBlob => /\ e.parent \in Solid(tree')
                                            /\ deep[tree'[e.parent].seq] < deep[e.seq]
    BY <1>1, <1>2, <1>3, <1>5, <1>6 DEF RunDeep
  <2>2. \A e \in Gap' : \A t \in DOMAIN tree' : tree'[t].seq = e.seq => tree'[t].trigger = e.trigger
    BY <1>1, <1>3, <1>5, <1>6, <1>7 DEF RunDeep
  <2> QED BY <1>1, <1>2, <1>3, <2>1, <2>2 DEF RunDeep, Solid
<1> QED BY <1>1, <1>2, <1>3, <1>8 DEF Complete, Deep

\* The operation's node is as deep as it was recorded to be.
LEMMA WAdvance ==
    ASSUME SInv, SInv', TreeInv, TreeInv', Complete, Advances
    PROVE  Complete'
<1>1. /\ at = "row" /\ at' \in {"idle", "gc", "done"} /\ UNCHANGED <<wal, plan>>
      /\ at \in Busy /\ at' \notin Busy
  BY DEF Advances, Busy
<1>2. Loaded /\ Loaded' /\ at' # "down"   BY <1>1 DEF Loaded
<1>3. PICK deep \in Depths : RunDeep(deep)   BY <1>2 DEF Complete, Deep
<1>4. PICK n : n = nextId   OBVIOUS
<1>5. /\ n \notin DOMAIN tree
      /\ DOMAIN tree' = DOMAIN tree \cup {n}
      /\ \A u \in DOMAIN tree : tree'[u] = tree[u]
      /\ tree'[n].seq = op.seq /\ tree'[n].parent = op.parent
      /\ tree'[n].full = op.full /\ tree'[n].delta = op.delta /\ tree'[n].depth = op.depth
      /\ tree'[n].trigger = op.trigger
      /\ DOMAIN heads' = DOMAIN heads \cup {op.path} /\ heads'[op.path] = n
      /\ \A p \in DOMAIN heads : p # op.path => heads'[p] = heads[p]
  BY <1>4, AdvancedNodes
<1>6. SeqsOf(rows) \subseteq SeqsOf(rows')   BY AdvancedNodes DEF SeqsOf
<1>7. Gap' \subseteq Gap   BY <1>1, <1>6 DEF Gap, HasNode
<1>8. Solid(tree') = Solid(tree) \cup (IF op.trigger = "Delete" THEN {} ELSE {n})
  BY <1>5 DEF Solid
<1>9. Shaped(op) /\ \A u \in Solid(tree) : u \in DOMAIN tree
  BY <1>1 DEF TreeInv, OrderInv, Solid
<1>10. /\ op.trigger # "Delete" => op.depth \in 0..D_MAX /\ deep[op.seq] = op.depth
       /\ op.delta # NoBlob => /\ op.parent \in Solid(tree) /\ tree[op.parent].depth < op.depth
                               /\ op.trigger # "Delete"
  <2>1. op.seq \in 1..MaxSeq   BY <1>1 DEF SInv, OpInv
  <2>2. deep[op.seq] \in 0..D_MAX   BY <2>1 DEF Depths
  <2>3. op.trigger # "Delete" => deep[op.seq] = op.depth   BY <1>1, <1>3 DEF RunDeep
  <2>4. ASSUME op.delta # NoBlob
        PROVE  /\ op.parent \in Solid(tree) /\ tree[op.parent].depth < op.depth
               /\ op.trigger # "Delete"
    <3>1. op.trigger # "Delete"   BY <1>9, <2>4 DEF Shaped
    <3>2. op.parent \in Solid(tree) /\ deep[tree[op.parent].seq] < op.depth
          /\ tree[op.parent].depth <= deep[tree[op.parent].seq]
      BY <1>1, <1>3, <2>3, <2>4, <3>1 DEF RunDeep
    <3>3. tree[op.parent].depth \in 0..D_MAX   BY <3>2 DEF Complete, Chain
    <3>4. tree[op.parent].seq \in 1..MaxSeq
      BY <1>9, <3>2 DEF SInv, NodesInv, AreNodes, IsNode
    <3>5. deep[tree[op.parent].seq] \in 0..D_MAX   BY <3>4 DEF Depths
    <3> QED BY <2>2, <2>3, <3>1, <3>2, <3>3, <3>5, BoundsAssumption
  <2> QED BY <2>2, <2>3, <2>4
<1>11. Chain(tree', Solid(tree'))
  <2>1. ASSUME NEW u \in Solid(tree)
        PROVE  /\ u \in DOMAIN tree' /\ tree'[u].depth \in 0..D_MAX
               /\ \/ tree'[u].full # NoBlob
                  \/ /\ tree'[u].delta # NoBlob /\ tree'[u].parent \in Solid(tree)
                     /\ tree'[tree'[u].parent].depth < tree'[u].depth
    BY <1>5, <1>9 DEF Complete, Chain
  <2>2. ASSUME op.trigger # "Delete"
        PROVE  /\ n \in DOMAIN tree' /\ tree'[n].depth \in 0..D_MAX
               /\ \/ tree'[n].full # NoBlob
                  \/ /\ tree'[n].delta # NoBlob /\ tree'[n].parent \in Solid(tree)
                     /\ tree'[tree'[n].parent].depth < tree'[n].depth
    BY <1>5, <1>9, <1>10, <2>2 DEF Shaped
  <2> QED BY <1>8, <2>1, <2>2 DEF Chain
<1>12. RunDeep(deep)'
  <2>1. \A v \in Solid(tree') : tree'[v].depth <= deep[tree'[v].seq]
    BY <1>3, <1>5, <1>8, <1>9, <1>10 DEF RunDeep
  <2>2. \A p \in DOMAIN heads' :
          heads'[p] \in Solid(tree') => deep[tree'[heads'[p]].seq] = tree'[heads'[p]].depth
    <3> SUFFICES ASSUME NEW p \in DOMAIN heads', heads'[p] \in Solid(tree')
                 PROVE  deep[tree'[heads'[p]].seq] = tree'[heads'[p]].depth
      OBVIOUS
    <3>1. CASE p = op.path   BY <1>5, <1>8, <1>9, <1>10, <3>1
    <3>2. CASE p # op.path
      <4>1. p \in DOMAIN heads /\ heads'[p] = heads[p] /\ heads[p] \in DOMAIN tree
        BY <1>5, <3>2 DEF SInv, NodesInv
      <4>2. heads[p] \in Solid(tree)   BY <1>5, <1>8, <4>1
      <4> QED BY <1>3, <1>5, <4>1, <4>2 DEF RunDeep
    <3> QED BY <3>1, <3>2
  <2>3. plan.promote = {}   BY <1>1, NoPlanFields DEF SInv, TodoInv
  <2>4. \A e \in Gap' : e.delta # NoBlob => /\ e.parent \in Solid(tree')
                                            /\ deep[tree'[e.parent].seq] < deep[e.seq]
    BY <1>3, <1>5, <1>7, <1>8, <1>9 DEF RunDeep
  <2>5. ASSUME NEW e \in Gap', NEW t \in DOMAIN tree', tree'[t].seq = e.seq
        PROVE  tree'[t].trigger = e.trigger
    <3>1. CASE t = n
      <4>1. e \in Elems(wal) /\ e.seq = op.seq   BY <1>5, <1>7, <2>5, <3>1 DEF Gap
      <4>2. e = Entry(op, op.parent, op.trigger)   BY <1>1, <4>1 DEF TreeInv, OrderInv
      <4> QED BY <1>5, <3>1, <4>2, EntryFields
    <3>2. CASE t # n   BY <1>3, <1>5, <1>7, <2>5, <3>2 DEF RunDeep
    <3> QED BY <3>1, <3>2
  <2> QED BY <1>1, <2>1, <2>2, <2>3, <2>4, <2>5 DEF RunDeep
<1>13. Chain(rows', Solid(rows'))
  BY <1>2, <1>11, TableChain DEF SInv, NodesInv, TreeInv, IdsInv
<1> QED BY <1>2, <1>3, <1>11, <1>12, <1>13 DEF Complete, Deep

\* A promotion makes a version less deep, and it is no head.
LEMMA WPromote ==
    ASSUME SInv, SInv', TreeInv', Complete, NEW v \in plan.promote, GcPromote(v)
    PROVE  Complete'
<1>1. /\ at = "evict" /\ at' \in {"evict", "idle"} /\ UNCHANGED <<wal, heads>>
      /\ plan'.promote \subseteq plan.promote
  BY PromotedNodes
<1>2. Loaded /\ Loaded' /\ at' # "down" /\ at' \notin Busy   BY <1>1 DEF Loaded, Busy
<1>3. PICK deep \in Depths : RunDeep(deep)   BY <1>2 DEF Complete, Deep
<1>4. /\ DOMAIN tree' = DOMAIN tree
      /\ \A u \in DOMAIN tree :
           /\ tree'[u].trigger = tree[u].trigger /\ tree'[u].seq = tree[u].seq
           /\ tree'[u] = tree[u] \/ (tree'[u].full # NoBlob /\ tree'[u].depth = 0)
           /\ u # v => tree'[u] = tree[u]
  BY PromotedShapes
<1>5. Solid(tree') = Solid(tree) /\ Solid(tree) \subseteq DOMAIN tree   BY <1>4 DEF Solid
<1>6. Chain(tree', Solid(tree'))   BY <1>4, <1>5, ChainPromoted DEF Complete
<1>7. SeqsOf(rows) \subseteq SeqsOf(rows')
  <2>1. CASE rows' = rows   BY <2>1
  <2>2. CASE rows' # rows
    <3>1. /\ DOMAIN rows' = DOMAIN rows \cup {v} /\ rows'[v].seq = tree[v].seq
          /\ \A u \in DOMAIN rows : u # v => rows'[u] = rows[u]
      BY <2>2, PromotedNodes
    <3>2. v \in DOMAIN rows => rows[v] = tree[v]   BY <1>1 DEF SInv, NodesInv
    <3> QED BY <3>1, <3>2 DEF SeqsOf
  <2> QED BY <2>1, <2>2
<1>8. Gap' \subseteq Gap   BY <1>1, <1>7 DEF Gap, HasNode
<1>9. RunDeep(deep)'
  <2>1. ASSUME NEW u \in Solid(tree') PROVE tree'[u].depth <= deep[tree'[u].seq]
    <3>1. u \in DOMAIN tree /\ tree'[u].seq = tree[u].seq /\ tree[u].depth <= deep[tree[u].seq]
      BY <1>3, <1>4, <1>5 DEF RunDeep
    <3>2. tree[u].seq \in 1..MaxSeq   BY <3>1 DEF SInv, NodesInv, AreNodes, IsNode
    <3>3. deep[tree[u].seq] >= 0   BY <3>2, BoundsAssumption DEF Depths
    <3> QED BY <1>4, <3>1, <3>3
  <2>2. ASSUME NEW p \in DOMAIN heads, heads[p] \in Solid(tree)
        PROVE  deep[tree'[heads[p]].seq] = tree'[heads[p]].depth
    <3>1. heads[p] # v   BY <1>3 DEF RunDeep
    <3> QED BY <1>3, <1>4, <1>5, <2>2, <3>1 DEF RunDeep
  <2>3. \A p \in DOMAIN heads' : heads'[p] \notin plan'.promote   BY <1>1, <1>3 DEF RunDeep
  <2>4. \A e \in Gap' : e.delta # NoBlob => /\ e.parent \in Solid(tree')
                                            /\ deep[tree'[e.parent].seq] < deep[e.seq]
    BY <1>3, <1>4, <1>5, <1>8 DEF RunDeep
  <2>5. \A e \in Gap' : \A t \in DOMAIN tree' : tree'[t].seq = e.seq => tree'[t].trigger = e.trigger
    BY <1>3, <1>4, <1>8 DEF RunDeep
  <2> QED BY <1>1, <1>2, <1>5, <2>1, <2>2, <2>3, <2>4, <2>5 DEF RunDeep
<1>10. Chain(rows', Solid(rows'))
  BY <1>2, <1>6, TableChain DEF SInv, NodesInv, TreeInv, IdsInv
<1> QED BY <1>2, <1>3, <1>6, <1>9, <1>10 DEF Complete, Deep

\* What the tree knows of the depths, the log and the table do.
LEMMA RunDeepRests ==
    ASSUME SInv, TreeInv, AlongInv, RightInv, FaithInv, LapseInv, Whole,
           "resurrected" \notin spoilt, Loaded, Chain(tree, Solid(tree)),
           NEW deep \in Depths, RunDeep(deep)
    PROVE  RestDeep(deep)
<1> SUFFICES ASSUME NEW e \in Gap, e.delta # NoBlob, ~Ends(e)
             PROVE  /\ e.parent # Root
                    /\ e.parent \in DOMAIN rows =>
                         e.parent \in Solid(rows) /\ rows[e.parent].depth < deep[e.seq]
                    /\ Beyond(e) => \/ First(e)
                                    \/ \E d \in Gap : /\ Preceded(e, d) /\ d.trigger # "Delete"
                                                      /\ deep[d.seq] < deep[e.seq]
  BY DEF RestDeep, Shallow
<1>a. /\ \A d \in Gap : /\ d \in Elems(wal) /\ ~IsMark(d) /\ d.seq \in Nat /\ d.parent \in Nat
                        /\ d.seq \in 1..MaxSeq
      /\ \A x, y \in Gap : x.seq = y.seq => x = y
  BY GapFacts DEF SInv, NumbersInv
<1>b. \A v \in DOMAIN rows : v \in DOMAIN tree /\ tree[v] = rows[v] /\ v \in Nat
  BY DEF SInv, NodesInv, AreNodes, Loaded
<1>1. e.parent \in Solid(tree) /\ deep[tree[e.parent].seq] < deep[e.seq]   BY DEF RunDeep
<1>2. e.parent \in DOMAIN tree /\ e.parent # Root
  BY <1>1 DEF Solid, TreeInv, IdsInv, Placed, Root
<1>3. ASSUME e.parent \in DOMAIN rows
      PROVE  e.parent \in Solid(rows) /\ rows[e.parent].depth < deep[e.seq]
  <2>1. rows[e.parent] = tree[e.parent] /\ e.parent \in Solid(rows)   BY <1>1, <1>b, <1>3 DEF Solid
  <2>2. tree[e.parent].depth \in 0..D_MAX /\ tree[e.parent].depth <= deep[tree[e.parent].seq]
    BY <1>1 DEF RunDeep, Chain
  <2>3. tree[e.parent].seq \in 1..MaxSeq   BY <1>2 DEF SInv, NodesInv, AreNodes, IsNode
  <2>4. deep[tree[e.parent].seq] \in 0..D_MAX /\ deep[e.seq] \in 0..D_MAX
    BY <1>a, <2>3 DEF Depths
  <2> QED BY <1>1, <2>1, <2>2, <2>4, BoundsAssumption
<1>4. ASSUME Beyond(e), ~First(e)
      PROVE  \E d \in Gap : Preceded(e, d) /\ d.trigger # "Delete" /\ deep[d.seq] < deep[e.seq]
  <2>1. e.parent \notin DOMAIN rows   BY <1>4, <1>a, <1>b DEF Beyond
  <2>2. e.parent \in Bare   BY <1>2, <2>1 DEF Bare
  <2>3. faults = 1 /\ Lapse /\ Traced
    <3>1. faults # 0   BY <1>2, <2>1 DEF FaithInv, Loaded
    <3>2. faults = 1   BY <3>1 DEF Whole, TreeInv, IdsInv
    <3> QED BY <3>2 DEF Lapse, Traced
  <2>4. RunInv   BY <2>3 DEF LapseInv
  <2>5. RestInv   BY <2>3, <2>4, RunRests
  <2>6. PICK x \in Gap : Preceded(e, x)   BY <1>4, <2>5 DEF RestInv, Follows, Preceded
  <2>7. \A d \in Gap : ~Gone(d)   BY DEF Gone, Whole
  <2>8. Ordered(e)
    <3>1. CASE Inflight(e)
      <4>1. at \in {"restore", "row"} /\ e.seq = op.seq   BY <3>1 DEF Inflight
      <4>2. e = Entry(op, op.parent, op.trigger)   BY <1>a, <4>1 DEF TreeInv, OrderInv
      <4>3. op.parent \in Bare   BY <2>2, <4>2, EntryFields
      <4> QED BY <2>4, <4>1, <4>3, HeadLink
    <3>2. CASE Stands(e)   BY <3>2 DEF Stands
    <3> QED BY <2>2, <2>4, <2>7, <3>1, <3>2 DEF RunInv
  <2>9. PICK d \in Gap, t \in Bare : After(e, d) /\ tree[t].seq = d.seq /\ e.parent = t
    BY <1>4, <2>7, <2>8 DEF Ordered, Doomed, Linked
  <2>10. d = x
    <3>1. /\ d.seq < e.seq /\ x.seq < e.seq
          /\ d.seq <= x.seq \/ d.seq >= e.seq
          /\ x.seq <= d.seq \/ x.seq >= e.seq
      BY <2>6, <2>9 DEF After, Preceded
    <3>2. d.seq = x.seq   BY <1>a, <3>1
    <3> QED BY <1>a, <3>2
  <2>11. deep[d.seq] < deep[e.seq]   BY <1>1, <2>9
  <2>12. d.trigger # "Delete"   BY <1>1, <1>2, <2>9 DEF RunDeep, Solid
  <2> QED BY <2>6, <2>10, <2>11, <2>12
<1> QED BY <1>2, <1>3, <1>4

\* The depths of the run are those that replay will count.
LEMMA WDies ==
    ASSUME SInv, TreeInv, AlongInv, RightInv, FaithInv, LapseInv, Whole,
           "resurrected" \notin spoilt, Complete, Dies, Whole'
    PROVE  Complete'
<1>1. UNCHANGED <<wal, rows, evicted>> /\ at' = "down" /\ DOMAIN tree' = {}
  <2>1. wal' = wal /\ at' = "down" /\ tree' = <<>>   BY DiesWhat
  <2>2. \A v : evicted' # evicted \cup {tree[v].seq}   BY DEF Whole
  <2>3. rows' = rows /\ evicted' = evicted   BY <2>2, DiesWhat
  <2> QED BY <2>1, <2>3
<1>2. ~Loaded'   BY <1>1 DEF Loaded
<1>3. Chain(tree', Solid(tree'))   BY <1>1 DEF Chain, Solid
<1>4. PICK deep \in Depths : Deep(deep)   BY DEF Complete
<1>5. RestDeep(deep)
  <2>1. CASE Loaded
    <3>1. RunDeep(deep) /\ Chain(tree, Solid(tree))   BY <1>4, <2>1 DEF Deep, Complete
    <3> QED BY <2>1, <3>1, RunDeepRests
  <2>2. CASE ~Loaded   BY <1>4, <2>2 DEF Deep
  <2> QED BY <2>1, <2>2
<1>6. Gap' = Gap   BY <1>1 DEF Gap, HasNode
<1>7. RestDeep(deep)'   BY <1>1, <1>5, <1>6, RestDeepFrame
<1> QED BY <1>1, <1>2, <1>3, <1>4, <1>7 DEF Complete, Deep

\* The tree is the table, which has its chains.
LEMMA WOpen ==
    ASSUME Complete, Open
    PROVE  Complete'
<1>1. UNCHANGED <<wal, rows, evicted>> /\ at = "down" /\ at' = "replay" /\ tree' = rows
  BY DEF Open, durable, ghost
<1>2. ~Loaded /\ ~Loaded'   BY <1>1 DEF Loaded
<1>3. PICK deep \in Depths : RestDeep(deep)   BY <1>2 DEF Complete, Deep
<1>4. Gap' = Gap   BY <1>1 DEF Gap, HasNode
<1>5. RestDeep(deep)'   BY <1>1, <1>3, <1>4, RestDeepFrame
<1> QED BY <1>1, <1>2, <1>3, <1>5 DEF Complete, Deep

\* The log lacks nothing when replay is through, and the depths are the tree's.
LEMMA WOpened ==
    ASSUME SInv, AlongInv, Complete, Opened
    PROVE  Complete'
<1>0. D_MAX \in Nat   BY BoundsAssumption
<1>1. /\ UNCHANGED <<wal, rows, tree, plan>> /\ at = "replay" /\ at' = "recover" /\ tasks = <<>>
  BY DEF Opened, durable
<1>2. Loaded' /\ at' \notin Busy   BY <1>1 DEF Loaded, Busy
<1>3. Gap' = {}
  <2>1. \A e \in Elems(wal) : HasNode(e)   BY <1>1, EmptySeq DEF AlongInv
  <2> QED BY <1>1, <2>1 DEF Gap, HasNode
<1>4. plan.promote = {}   BY <1>1, NoPlanFields DEF SInv, TodoInv
<1> DEFINE of(s) == {v \in Solid(tree) : tree[v].seq = s}
<1>5. PICK deep : deep = [s \in 1..MaxSeq |->
                  IF of(s) = {} THEN 0 ELSE tree[CHOOSE v \in of(s) : TRUE].depth]
  OBVIOUS
<1>6. deep \in Depths
  <2>1. \A v \in Solid(tree) : tree[v].depth \in 0..D_MAX   BY DEF Complete, Chain
  <2>2. \A s : of(s) # {} => (CHOOSE v \in of(s) : TRUE) \in Solid(tree)   OBVIOUS
  <2> QED BY <1>0, <1>5, <2>1, <2>2 DEF Depths
<1>7. ASSUME NEW v \in Solid(tree) PROVE deep[tree[v].seq] = tree[v].depth
  <2>1. v \in DOMAIN tree /\ tree[v].seq \in 1..MaxSeq
    BY DEF Solid, SInv, NodesInv, AreNodes, IsNode
  <2>2. \A u \in of(tree[v].seq) : u = v   BY <2>1 DEF Solid, SInv, NodesInv, AreNodes
  <2>3. v \in of(tree[v].seq)   OBVIOUS
  <2>4. (CHOOSE u \in of(tree[v].seq) : TRUE) = v   BY <2>2, <2>3
  <2> QED BY <1>5, <2>1, <2>3, <2>4
<1>8. RunDeep(deep)'
  <2>1. \A v \in Solid(tree') : tree'[v].depth <= deep[tree'[v].seq]
    BY <1>0, <1>1, <1>7 DEF Complete, Chain
  <2> QED BY <1>1, <1>2, <1>3, <1>4, <1>7, <2>1 DEF RunDeep
<1> QED BY <1>1, <1>2, <1>6, <1>8 DEF Complete, Deep

\* The order of the log, also when nothing has failed.
LEMMA WholeRests ==
    ASSUME SInv, TreeInv, AlongInv, FaithInv, LapseInv, Whole, "resurrected" \notin spoilt,
           ~Loaded
    PROVE  RestInv
<1>1. CASE faults = 0
  <2>1. \A e \in Gap : e \in Elems(wal) /\ ~IsMark(e) /\ e.parent \in Nat   BY GapFacts
  <2>2. \A e \in Gap : Faithful(e)   BY <1>1, <2>1 DEF FaithInv, Faithful, IsMark
  <2> QED BY <2>1, <2>2, FaithfulFollows DEF RestInv
<1>2. CASE faults = 1   BY <1>2 DEF LapseInv, Lapse
<1> QED BY <1>1, <1>2 DEF Whole, TreeInv, IdsInv

\* A replayed version is no deeper than it was recorded to be.
LEMMA WReplay ==
    ASSUME SInv, TreeInv, AlongInv, FaithInv, LapseInv, Whole, "resurrected" \notin spoilt,
           Complete, Replay
    PROVE  Complete'
<1>0. D_MAX \in Nat   BY BoundsAssumption
<1>1. PICK h : h = Head(tasks)   OBVIOUS
<1>2. /\ at = "replay" /\ at' \in {"replay", "failed"} /\ UNCHANGED <<wal, evicted>>
      /\ tree = rows /\ tree' = rows' /\ h.seq \notin evicted /\ h \in Elems(wal) /\ ~HasNode(h)
  BY <1>1, ReplayedNodes DEF Whole
<1>3. ~Loaded /\ ~Loaded'   BY <1>2 DEF Loaded
<1>4. PICK deep \in Depths : RestDeep(deep)   BY <1>3 DEF Complete, Deep
<1>5. CASE rows' = rows
  <2>1. Gap' = Gap   BY <1>2, <1>5 DEF Gap, HasNode
  <2>2. RestDeep(deep)'   BY <1>2, <1>4, <1>5, <2>1, RestDeepFrame
  <2> QED BY <1>2, <1>3, <1>4, <1>5, <2>2 DEF Complete, Deep
<1>6. CASE rows' # rows
  <2>0. PICK n : n = nextId   OBVIOUS
  <2>1. /\ n \notin DOMAIN rows /\ RowFits(h)
        /\ DOMAIN rows' = DOMAIN rows \cup {n} /\ \A u \in DOMAIN rows : rows'[u] = rows[u]
        /\ rows'[n].seq = h.seq /\ rows'[n].parent = h.parent /\ rows'[n].full = h.full
        /\ rows'[n].delta = h.delta /\ rows'[n].depth = ReplayDepth(h)
        /\ rows'[n].trigger = h.trigger
    BY <1>1, <1>6, <2>0, ReplayedNodes
  <2>2. RestInv   BY <1>3, WholeRests
  <2>3. /\ h \in Gap /\ ~Ends(h)
        /\ \A e \in Gap' : e \in Gap /\ (Ends(e) => Ends(e)')
        /\ \A e \in Gap' : (e.parent = n => Beyond(e)) /\ (Beyond(e)' => Beyond(e)) /\ ~First(e)
        /\ \A e \in Gap' : \A d \in Gap : e.parent = n /\ Preceded(e, d) => d = h
        /\ \A e \in Gap' : \A d \in Gap : ~Ends(e) /\ Beyond(e)' /\ Preceded(e, d) =>
             First(e)' \/ (d \in Gap' /\ Preceded(e, d)')
    BY <1>1, <1>2, <1>6, <2>0, <2>2, ReplayOrder
  <2>4. h.seq \in 1..MaxSeq /\ Shaped(h)
    BY <1>2 DEF SInv, NumbersInv, TreeInv, OrderInv, HasNode
  <2>5. deep[h.seq] \in 0..D_MAX   BY <2>4 DEF Depths
  <2>6. Shallow(deep, h)   BY <1>4, <2>3 DEF RestDeep
  <2>7. /\ ReplayDepth(h) \in 0..D_MAX /\ ReplayDepth(h) <= deep[h.seq]
        /\ h.delta # NoBlob => h.parent \in Solid(rows) /\ rows[h.parent].depth < ReplayDepth(h)
    <3>1. CASE h.delta = NoBlob   BY <1>0, <2>5, <3>1 DEF ReplayDepth
    <3>2. CASE h.delta # NoBlob
      <4>1. /\ h.parent \in Solid(rows) /\ h.parent \in DOMAIN rows
            /\ rows[h.parent].depth < deep[h.seq]
        BY <2>1, <2>6, <3>2 DEF Shallow, RowFits
      <4>2. rows[h.parent].depth \in 0..D_MAX   BY <4>1 DEF Complete, Chain
      <4>3. ReplayDepth(h) = rows[h.parent].depth + 1   BY <1>2, <3>2, <4>1 DEF ReplayDepth
      <4> QED BY <1>0, <2>5, <4>1, <4>2, <4>3
    <3> QED BY <3>1, <3>2
  <2>8. Solid(rows') = Solid(rows) \cup (IF h.trigger = "Delete" THEN {} ELSE {n})
        /\ \A u \in Solid(rows) : u \in DOMAIN rows
    BY <2>1 DEF Solid
  <2>9. Chain(rows', Solid(rows'))
    <3>1. ASSUME NEW u \in Solid(rows)
          PROVE  /\ u \in DOMAIN rows' /\ rows'[u].depth \in 0..D_MAX
                 /\ \/ rows'[u].full # NoBlob
                    \/ /\ rows'[u].delta # NoBlob /\ rows'[u].parent \in Solid(rows)
                       /\ rows'[rows'[u].parent].depth < rows'[u].depth
      BY <2>1, <2>8 DEF Complete, Chain
    <3>2. ASSUME h.trigger # "Delete"
          PROVE  /\ n \in DOMAIN rows' /\ rows'[n].depth \in 0..D_MAX
                 /\ \/ rows'[n].full # NoBlob
                    \/ /\ rows'[n].delta # NoBlob /\ rows'[n].parent \in Solid(rows)
                       /\ rows'[rows'[n].parent].depth < rows'[n].depth
      BY <2>1, <2>4, <2>7, <2>8, <3>2 DEF Shaped
    <3> QED BY <2>8, <3>1, <3>2 DEF Chain
  <2>10. ASSUME NEW e \in Gap', ~Ends(e), Shallow(deep, e), e.delta # NoBlob PROVE Shallow(deep, e)'
    <3>0. Beyond(e) => \E d \in Gap : /\ Preceded(e, d) /\ d.trigger # "Delete"
                                      /\ deep[d.seq] < deep[e.seq]
      BY <2>3, <2>10 DEF Shallow
    <3>1. ASSUME e.parent \in DOMAIN rows'
          PROVE  e.parent \in Solid(rows') /\ rows'[e.parent].depth < deep[e.seq]
      <4>1. CASE e.parent \in DOMAIN rows   BY <2>1, <2>8, <2>10, <4>1 DEF Shallow
      <4>2. CASE e.parent = n
        <5>1. h.trigger # "Delete" /\ deep[h.seq] < deep[e.seq]   BY <2>3, <3>0, <4>2
        <5>2. deep[e.seq] \in 0..D_MAX
          <6>1. e.seq \in 1..MaxSeq   BY <2>3 DEF SInv, NumbersInv, Gap
          <6> QED BY <6>1 DEF Depths
        <5>3. ReplayDepth(h) < deep[e.seq]   BY <1>0, <2>5, <2>7, <5>1, <5>2
        <5> QED BY <2>1, <2>8, <4>2, <5>1, <5>3
      <4> QED BY <2>1, <3>1, <4>1, <4>2
    <3>2. ASSUME Beyond(e)', ~First(e)'
          PROVE  \E d \in Gap' : /\ Preceded(e, d)' /\ d.trigger # "Delete"
                                 /\ deep[d.seq] < deep[e.seq]
      BY <2>3, <2>10, <3>0, <3>2
    <3>3. e.parent # Root   BY <2>10 DEF Shallow
    <3> QED BY <3>1, <3>2, <3>3 DEF Shallow
  <2>11. \A e \in Gap' : e.delta = NoBlob => Shallow(deep, e)'   BY DEF Shallow
  <2>12. RestDeep(deep)'   BY <1>4, <2>3, <2>10, <2>11 DEF RestDeep
  <2> QED BY <1>2, <1>3, <1>4, <2>9, <2>12 DEF Complete, Deep
<1> QED BY <1>5, <1>6

\* There is no version yet.
LEMMA WInit == Init => WholeInv
<1> SUFFICES ASSUME Init PROVE WholeInv   OBVIOUS
<1>1. /\ DOMAIN tree = {} /\ DOMAIN rows = {} /\ DOMAIN heads = {} /\ at = "idle"
      /\ Elems(wal) = {} /\ spoilt = {}
  BY EmptySeq DEF Init
<1>2. Chain(tree, Solid(tree)) /\ Chain(rows, Solid(rows))   BY <1>1 DEF Chain, Solid
<1>3. PICK deep : deep = [s \in 1..MaxSeq |-> 0]   OBVIOUS
<1>4. deep \in Depths   BY <1>3, BoundsAssumption DEF Depths
<1>5. RunDeep(deep)   BY <1>1 DEF RunDeep, Solid, Gap, Busy
<1>6. Deep(deep)   BY <1>1, <1>5 DEF Deep, Loaded
<1> QED BY <1>1, <1>2, <1>4, <1>6 DEF WholeInv, Complete

\* Every step keeps the history whole.
LEMMA WNext == VInv /\ WholeInv /\ [Next]_vars => WholeInv'
<1> SUFFICES ASSUME VInv, WholeInv, [Next]_vars PROVE WholeInv'   OBVIOUS
<1>0. VInv'   BY VNext
<1>1. /\ SInv /\ TreeInv /\ KnownInv /\ RightInv /\ FaithInv /\ AlongInv /\ LapseInv
      /\ SInv' /\ TreeInv'
  BY <1>0 DEF VInv
<1>2. faults \in Nat /\ faults' \in Nat /\ faults <= faults' /\ evicted \subseteq evicted'
  BY <1>1, Monotone DEF TreeInv, IdsInv
<1>3. "resurrected" \in spoilt' => evicted' # {}
  <2>1. CASE Replay   BY <1>1, <1>2, <2>1, ReplayedNodes DEF WholeInv
  <2>2. CASE ~Replay
    <3>1. "resurrected" \in spoilt' => "resurrected" \in spoilt
      <4>1. \A p \in Paths : \A c, shape, trigger :
               Records(p, c, shape, trigger) => spoilt' = spoilt
        BY DEF Records, Start
      <4>2. CommitEntry \/ Still \/ Advances \/ Open \/ Dies => spoilt' = spoilt
        BY <1>1, DiesWhat DEF CommitEntry, Still, Advances, Open, ghost
      <4>3. Opened => spoilt' \subseteq spoilt \cup {"skipped"}   BY DEF Opened
      <4> QED BY <1>1, <2>2, <4>1, <4>2, <4>3, Kinds, PromotedNodes, DeletedNodes
    <3> QED BY <1>2, <3>1 DEF WholeInv
  <2> QED BY <2>1, <2>2
<1>4. ASSUME Whole' PROVE Complete'
  <2>1. Whole /\ "resurrected" \notin spoilt /\ Complete   BY <1>2, <1>4 DEF Whole, WholeInv
  <2>2. CASE Still   BY <1>1, <2>1, <2>2, WStill
  <2>3. ASSUME NEW p \in Paths, NEW c, NEW shape, NEW trigger, Records(p, c, shape, trigger)
        PROVE  Complete'
    BY <1>1, <2>1, <2>3, WRecord
  <2>4. CASE CommitEntry   BY <1>1, <2>1, <2>4, WCommit
  <2>5. CASE Advances   BY <1>1, <2>1, <2>5, WAdvance
  <2>6. ASSUME NEW v \in plan.promote, GcPromote(v) PROVE Complete'
    BY <1>1, <2>1, <2>6, WPromote
  <2>7. ASSUME NEW v \in plan.evict, GcDelete(v) PROVE FALSE
    BY <1>1, <1>4, <2>7, DeletedNodes DEF Whole
  <2>8. CASE Dies   BY <1>1, <1>4, <2>1, <2>8, WDies
  <2>9. CASE Open   BY <2>1, <2>9, WOpen
  <2>10. CASE Replay   BY <1>1, <2>1, <2>10, WReplay
  <2>11. CASE Opened   BY <1>1, <2>1, <2>11, WOpened
  <2> QED BY <1>1, <2>2, <2>3, <2>4, <2>5, <2>6, <2>7, <2>8, <2>9, <2>10, <2>11, Kinds
<1> QED BY <1>3, <1>4 DEF WholeInv

\* The history is whole in every state before the first deletion begins.
LEMMA WInvariance == Spec => []WholeInv
<1>1. Init => WholeInv   BY WInit
<1>2. VInv /\ WholeInv /\ [Next]_vars => WholeInv'   BY WNext
<1> QED BY <1>1, <1>2, VInvariance, PTL DEF Spec

\* For any number of versions, kills and replays, and one failed step: as long as the
\* collector has not begun to delete a version (delete_node's first statement included,
\* after which a kill may come), every version of every path reads as what was recorded
\* (read_node_content, within max_delta_depth deltas, also of versions that replay_wal has
\* put back), so that undo reaches all of them.
THEOREM HistoryStaysReadable == Spec => []HistoryIsReadable
<1>1. ASSUME VInv, RefsInv, WholeInv, Whole, NEW v \in DOMAIN tree, tree[v].trigger # "Delete"
      PROVE  Read(tree, v) = truth[tree[v].seq]
  <2>1. SInv /\ TreeInv /\ RightInv /\ faults \in Nat   BY <1>1 DEF VInv, TreeInv, IdsInv
  <2>2. Complete /\ "resurrected" \notin spoilt   BY <1>1 DEF WholeInv, Whole
  <2>3. Right(truth, tree)
    <3>1. Traced   BY <1>1, <2>1, <2>2 DEF Traced, Whole
    <3> QED BY <2>1, <3>1 DEF RightInv
  <2>4. v \in Solid(tree) /\ \A u \in Solid(tree) : u \in DOMAIN tree /\ u \in Nat
    BY <1>1, <2>1 DEF Solid, SInv, NodesInv, AreNodes
  <2>5. \A u \in DOMAIN tree : /\ tree[u].full # NoBlob => tree[u].full \in DOMAIN refs
                               /\ tree[u].delta # NoBlob => tree[u].delta \in DOMAIN refs
    <3>1. RefsCoverNodes /\ spoilt \cap {"resurrected"} = {}   BY <1>1, <2>1, <2>2, RefsCover
    <3> DEFINE B == UNION {{tree[u].full, tree[u].delta} : u \in DOMAIN tree}
    <3>2. \A b \in B \ {NoBlob} : b \in DOMAIN refs   BY <3>1 DEF RefsCoverNodes
    <3>3. \A u \in DOMAIN tree : tree[u].full \in B /\ tree[u].delta \in B   OBVIOUS
    <3> QED BY <3>2, <3>3
  <2> QED BY <2>2, <2>3, <2>4, <2>5, ChainReads DEF Complete
<1>2. VInv /\ RefsInv /\ WholeInv => HistoryIsReadable
  BY <1>1 DEF HistoryIsReadable, Whole
<1> QED BY <1>2, VInvariance, RInvariance, WInvariance, PTL

=============================================================================
