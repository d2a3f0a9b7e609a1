----------------------------- MODULE ShadowEngine -----------------------------
(***************************************************************************)
(* The shadow snapshot engine (shadow_snapshot: engine.rs, version_tree.rs, *)
(* delta_chain.rs, storage.rs, decline.rs, quota.rs) as the recorder thread *)
(* of mux_server's snapshot.rs drives it.                                   *)
(*                                                                          *)
(* One thread writes, so the hazards are a crash between two steps, a step  *)
(* that fails, and what a later open makes of what is left.  An operation   *)
(* is cut at its durable effects: a blob reference, a log commit, a file    *)
(* rename, a row.  The log is taken as WalLog shows it to be: a sequence of *)
(* whole entries, each there once its commit returned.                      *)
(*                                                                          *)
(* A blob is named by what it holds: <<c>> is content c, <<a, b>> the delta *)
(* that turns a into b, <<"=", "=">> the empty delta, <<>> no blob.  Every  *)
(* blob counts one towards the quota.                                       *)
(***************************************************************************)
EXTENDS Naturals, Sequences, FiniteSets

CONSTANTS
    Paths,
    Contents,       \* what a file may hold
    Binary,         \* the contents that are not UTF-8: never stored as a delta
    OnDisk,         \* the contents of INLINE_THRESHOLD bytes or more
    OnDiskDelta,    \* the contents that a delta to them takes as much to hold
    D_MAX,          \* the longest chain of deltas
    MaxBytes,       \* QuotaManager.max_bytes, in blobs
    GC_INTERVAL,    \* operations between two collections
    MaxSeq,         \* bound: operations recorded
    MaxCrashes,     \* bound: crashes
    MaxFaults       \* bound: steps that fail

ASSUME ContentsAssumption ==
    Binary \cup OnDisk \cup OnDiskDelta \subseteq Contents
ASSUME BoundsAssumption ==
    {D_MAX, MaxBytes, GC_INTERVAL, MaxSeq, MaxCrashes, MaxFaults} \subseteq Nat

Absent     == "absent"
Unreadable == "unreadable"
Garbled    == "garbled" \* a delta applied to a content it was not made for
NoBlob     == <<>>
Root       == 0         \* parent_id None

VARIABLES
    \* Durable.
    file,       \* path |-> what the worktree holds
    wal,        \* the log's entries
    rows,       \* SQLite version_nodes: version id |-> node
    refs,       \* SQLite blob_refs: blob |-> ref_count
    \* The recorder thread.
    at,         \* what it does next
    op,         \* the operation under way
    seqNo,      \* ShadowSnapshotEngine.seq_no
    tree,       \* VersionTree.nodes
    heads,      \* VersionTree.heads
    nextId,     \* VersionTree.next_id
    eligible,   \* QuotaManager.gc_eligible
    sinceGc,    \* records_since_gc
    tasks,      \* the log entries that an open or a recovery has yet to look at
    plan,       \* what is left of a collector's pass
    \* History, for the properties.
    truth,      \* sequence number |-> the content that was recorded under it
    dirty,      \* paths whose file changed since the engine last read or wrote it
    evicted,    \* sequence numbers the collector has deleted or begun to delete
    spoilt,     \* the known ways in which a restart went wrong
    crashes, faults

durable == <<file, wal, rows, refs>>
memory  == <<seqNo, tree, heads, nextId, eligible, sinceGc>>
ghost   == <<truth, dirty, evicted, spoilt, crashes, faults>>
todo    == <<tasks, plan>>
vars    == <<durable, at, op, memory, todo, ghost>>

NoOp == [path |-> "", seq |-> 0, parent |-> Root, full |-> NoBlob, delta |-> NoBlob,
         depth |-> 0, trigger |-> "none"]

NoPlan == [promote |-> {}, evict |-> {}, unref |-> <<>>, again |-> FALSE]

-----------------------------------------------------------------------------
(* Helpers. *)

MaxOf(S) == CHOOSE m \in S \cup {0} : \A n \in S : m >= n

Without(f, x) == [y \in DOMAIN f \ {x} |-> f[y]]

With(f, x, v) == [y \in DOMAIN f \cup {x} |-> IF y = x THEN v ELSE f[y]]

SeqsOf(nodes) == {nodes[v].seq : v \in DOMAIN nodes}

Ready == at = "idle"

-----------------------------------------------------------------------------
(* The blob store: BlobStore.put, get and unref. *)

\* Mutant of Put: a blob that is there already is not counted again.
PutUncounted(b) == IF b \in DOMAIN refs THEN refs ELSE With(refs, b, 1)

Put(b) == IF b \in DOMAIN refs THEN [refs EXCEPT ![b] = @ + 1] ELSE With(refs, b, 1)

\* delete_blob reads inline_data as a value that is not NULL, so the last
\* reference to a blob kept on disk cannot be given up.
UnrefFails(b) ==
    /\ b \in DOMAIN refs /\ refs[b] = 1
    /\ \/ Len(b) = 1 /\ b[1] \in OnDisk
       \/ Len(b) = 2 /\ b[2] \in OnDiskDelta

Unref(b) ==
    IF b \in DOMAIN refs /\ refs[b] > 1
    THEN [refs EXCEPT ![b] = @ - 1]
    ELSE Without(refs, b)

-----------------------------------------------------------------------------
(* Delta chains: compute_delta_ops, DeltaReplay and read_node_content. *)

DeltaOf(from, to) == IF from = to THEN <<"=", "=">> ELSE <<from, to>>

Applied(delta, base) ==
    CASE base = Unreadable    -> Unreadable
      [] delta = <<"=", "=">> -> base
      [] OTHER                -> IF delta[1] = base THEN delta[2] ELSE Garbled

\* At most D_MAX + 1 nodes are looked at.  A tombstone has no delta to apply.
Read(nodes, v) ==
    LET read[left \in 0..D_MAX] == [u \in Nat |->
          IF u \notin DOMAIN nodes THEN Unreadable
          ELSE IF nodes[u].full # NoBlob
          THEN IF nodes[u].full \in DOMAIN refs THEN nodes[u].full[1] ELSE Unreadable
          ELSE IF nodes[u].delta \notin DOMAIN refs \/ left = 0 THEN Unreadable
          ELSE Applied(nodes[u].delta, read[left - 1][nodes[u].parent])]
    IN read[D_MAX][v]

\* Mutant of Snapshot: the limit is reached one delta late.
SnapshotLate(v, c) ==
    LET base == IF v \in DOMAIN tree /\ tree[v].depth <= D_MAX
                THEN Read(tree, v) ELSE Unreadable
    IN IF base = Unreadable \/ base \in Binary \/ c \in Binary
       THEN [full |-> <<c>>, delta |-> NoBlob, depth |-> 0]
       ELSE [full |-> NoBlob, delta |-> DeltaOf(base, c), depth |-> tree[v].depth + 1]

\* produce_snapshot: the shape of the next version of content c under parent v.
Snapshot(v, c) ==
    LET base == IF v \in DOMAIN tree /\ tree[v].depth + 1 <= D_MAX
                THEN Read(tree, v) ELSE Unreadable
    IN IF base = Unreadable \/ base \in Binary \/ c \in Binary
       THEN [full |-> <<c>>, delta |-> NoBlob, depth |-> 0]
       ELSE [full |-> NoBlob, delta |-> DeltaOf(base, c), depth |-> tree[v].depth + 1]

-----------------------------------------------------------------------------
(* The version tree and its table. *)

HeadOf(p) == IF p \in DOMAIN heads THEN heads[p] ELSE Root

\* rebuild_from_nodes: the head of a path is its node with the largest
\* sequence number.
NewestHeads(nodes) ==
    LET of(p) == {v \in DOMAIN nodes : nodes[v].path = p}
    IN [p \in {q \in Paths : of(q) # {}} |->
            CHOOSE v \in of(p) : \A u \in of(p) : nodes[v].seq >= nodes[u].seq]

\* The entry of the log or of the operation under way, as a version node.
NodeOf(e, depth) ==
    [path |-> e.path, seq |-> e.seq, parent |-> e.parent, full |-> e.full,
     delta |-> e.delta, depth |-> depth, trigger |-> e.trigger]

\* WalEntry.
Entry(e, parent, trigger) ==
    [path |-> e.path, seq |-> e.seq, parent |-> parent, full |-> e.full,
     delta |-> e.delta, trigger |-> trigger]

\* write_node: parent_id is a foreign key.
RowFits(e) == e.parent = Root \/ e.parent \in DOMAIN rows

\* delete_node and remove_node: children are detached, then the node goes.
Detached(nodes, v) ==
    [u \in DOMAIN nodes |->
        IF nodes[u].parent = v THEN [nodes[u] EXCEPT !.parent = Root] ELSE nodes[u]]

Removed(nodes, v) == Without(Detached(nodes, v), v)

\* Mutant of Pending: any completion mark of the path will do.
PendingByPath ==
    {wal[i] : i \in {j \in 1..Len(wal) :
        /\ wal[j].trigger = "Decline"
        /\ \A k \in 1..Len(wal) :
             ~(wal[k].trigger = "DeclineDone" /\ wal[k].path = wal[j].path)}}

\* DeclineProtocol::recover: intents without their completion mark.
Pending ==
    {wal[i] : i \in {j \in 1..Len(wal) :
        /\ wal[j].trigger = "Decline"
        /\ \A k \in 1..Len(wal) :
             ~(wal[k].trigger = "DeclineDone" /\ wal[k].path = wal[j].path
               /\ wal[k].seq = wal[j].seq /\ wal[k].full = wal[j].full)}}

-----------------------------------------------------------------------------
(* The worktree.  An edit while the engine works on something else is the   *)
(* same as an edit just before or just after.                               *)

EditFile(p, c) ==
    /\ at \in {"idle", "down"}
    /\ c # file[p]
    /\ file' = [file EXCEPT ![p] = c]
    /\ dirty' = dirty \cup {p}
    /\ UNCHANGED <<wal, rows, refs, at, op, memory, todo, truth, evicted, spoilt,
                   crashes, faults>>

-----------------------------------------------------------------------------
(* Recording: record_change_with_trigger, record_delete and decline. *)

\* The operation, which records content c, has its sequence number and its blob.
Start(p, c, shape, trigger) ==
    LET blob == IF shape.full # NoBlob THEN shape.full ELSE shape.delta IN
    /\ seqNo <= MaxSeq
    /\ seqNo' = seqNo + 1
    /\ refs' = IF blob = NoBlob THEN refs ELSE Put(blob)
    /\ op' = [path |-> p, seq |-> seqNo, parent |-> HeadOf(p), full |-> shape.full,
              delta |-> shape.delta, depth |-> shape.depth, trigger |-> trigger]
    /\ at' = "log"
    /\ truth' = With(truth, seqNo, c)
    /\ UNCHANGED <<file, wal, rows, tree, heads, nextId, eligible, sinceGc, todo,
                   evicted, spoilt, crashes, faults>>

Full(c)   == [full |-> <<c>>, delta |-> NoBlob, depth |-> 0]
Tombstone == [full |-> NoBlob, delta |-> NoBlob, depth |-> 0]

\* route_record_event reads the file: what it holds now is the next version.
RecordChange(p) ==
    /\ Ready
    /\ file[p] # Absent
    /\ Start(p, file[p], Snapshot(HeadOf(p), file[p]), "Write")
    /\ dirty' = dirty \ {p}

\* record_tombstone: nothing to do without a history or on a tombstone.
RecordDelete(p) ==
    /\ Ready
    /\ file[p] = Absent
    /\ p \in DOMAIN heads
    /\ tree[heads[p]].trigger # "Delete"
    /\ Start(p, Absent, Tombstone, "Delete")
    /\ dirty' = dirty \ {p}

Decline(p, v) ==
    /\ Ready
    /\ v \in DOMAIN tree
    /\ tree[v].path = p
    /\ Read(tree, v) # Unreadable
    /\ Start(p, Read(tree, v), Full(Read(tree, v)), "Decline")
    /\ UNCHANGED dirty

\* Wal.append and Wal.commit.
CommitEntry ==
    /\ at = "log"
    /\ wal' = Append(wal, Entry(op, op.parent, op.trigger))
    /\ at' = IF op.trigger = "Decline" THEN "restore" ELSE "row"
    /\ UNCHANGED <<file, rows, refs, op, memory, todo, ghost>>

\* restore_file: temporary file, fsync, rename, fsync of the directory.
RestoreFile ==
    /\ at = "restore"
    /\ file' = [file EXCEPT ![op.path] = op.full[1]]
    /\ dirty' = dirty \ {op.path}
    /\ at' = "row"
    /\ UNCHANGED <<wal, rows, refs, op, memory, todo, truth, evicted, spoilt,
                   crashes, faults>>

\* maybe_run_gc at the end of an operation.
MaybeRunGc ==
    IF sinceGc + 1 < GC_INTERVAL
    THEN sinceGc' = sinceGc + 1 /\ at' = "idle"
    ELSE sinceGc' = 0 /\ at' = "gc"

\* advance_head.
AdvanceHead ==
    /\ tree' = With(tree, nextId, NodeOf(op, op.depth))
    /\ heads' = With(heads, op.path, nextId)
    /\ nextId' = nextId + 1

\* Mutant of WriteRow: a tombstone gets no row.
WriteRowNoTombstone ==
    /\ at = "row"
    /\ RowFits(op)
    /\ AdvanceHead
    /\ rows' = IF op.trigger = "Delete" THEN rows ELSE With(rows, nextId, NodeOf(op, op.depth))
    /\ IF op.trigger = "Decline"
       THEN at' = "done" /\ UNCHANGED <<sinceGc, op>>
       ELSE MaybeRunGc /\ op' = NoOp
    /\ UNCHANGED <<file, wal, refs, seqNo, eligible, todo, ghost>>

WriteRow ==
    /\ at = "row"
    /\ RowFits(op)
    /\ AdvanceHead
    /\ rows' = With(rows, nextId, NodeOf(op, op.depth))
    /\ IF op.trigger = "Decline"
       THEN at' = "done" /\ UNCHANGED <<sinceGc, op>>
       ELSE MaybeRunGc /\ op' = NoOp
    /\ UNCHANGED <<file, wal, refs, seqNo, eligible, todo, ghost>>

\* mark_done.
MarkDone ==
    /\ at = "done"
    /\ wal' = Append(wal, Entry(op, Root, "DeclineDone"))
    /\ MaybeRunGc
    /\ op' = NoOp
    /\ UNCHANGED <<file, rows, refs, seqNo, tree, heads, nextId, eligible, todo, ghost>>

-----------------------------------------------------------------------------
(* A step that fails: the operation returns its error and the engine goes   *)
(* on.  After a failed row the tree keeps a node that the table lacks.      *)

Fail(step) ==
    /\ at = step
    /\ faults < MaxFaults
    /\ faults' = faults + 1
    /\ at' = "idle"
    /\ op' = NoOp
    /\ UNCHANGED <<durable, seqNo, eligible, sinceGc, todo, truth, evicted, spoilt, crashes>>

LogFails ==
    /\ Fail("log")
    /\ dirty' = IF op.trigger = "Decline" THEN dirty ELSE dirty \cup {op.path}
    /\ UNCHANGED <<tree, heads, nextId>>

RestoreOrMarkFails ==
    /\ Fail("restore") \/ Fail("done")
    /\ UNCHANGED <<dirty, tree, heads, nextId>>

\* The fsync of commit fails when the frame is in the file already: the operation
\* is reported as failed, and a later open replays it.  For an undo this is the
\* same as a restore that fails.
SyncFails ==
    /\ op.trigger # "Decline"
    /\ Fail("row")
    /\ dirty' = dirty \cup {op.path}
    /\ UNCHANGED <<tree, heads, nextId>>

RowFails ==
    /\ Fail("row")
    /\ AdvanceHead
    /\ UNCHANGED dirty

\* The same without any fault: the parent's row is missing.
RowRefused ==
    /\ at = "row"
    /\ ~RowFits(op)
    /\ AdvanceHead
    /\ at' = "idle"
    /\ op' = NoOp
    /\ UNCHANGED <<durable, seqNo, eligible, sinceGc, todo, ghost>>

-----------------------------------------------------------------------------
(* The collector: QuotaManager.run_gc. *)

Bytes(v) == IF {tree[v].full, tree[v].delta} \cap DOMAIN refs # {} THEN 1 ELSE 0

\* Mutant of Protected: the heads only.
ProtectedHeads == {heads[p] : p \in DOMAIN heads}

\* protected_set: each head with its chain down to the full snapshot under it.
Protected ==
    LET chain[left \in 0..D_MAX] == [v \in Nat |->
          IF v \notin DOMAIN tree THEN {}
          ELSE {v} \cup (IF tree[v].full # NoBlob \/ left = 0 THEN {}
                         ELSE chain[left - 1][tree[v].parent])]
    IN UNION {chain[D_MAX][heads[p]] : p \in DOMAIN heads}

Candidates == DOMAIN tree \ Protected

\* evict_pass's order: eligible nodes first, then by sequence number, then by id.
Before(u, v) ==
    \/ u \in eligible /\ v \notin eligible
    \/ /\ (u \in eligible) = (v \in eligible)
       /\ \/ tree[u].seq < tree[v].seq
          \/ tree[u].seq = tree[v].seq /\ u < v

Freed(vs) == Cardinality({v \in vs : Bytes(v) = 1})

Excess == IF Cardinality(DOMAIN refs) > MaxBytes
          THEN Cardinality(DOMAIN refs) - MaxBytes ELSE 0

\* Candidates are taken in order until they are planned to free the excess.
Victims == {v \in Candidates : Freed({u \in Candidates : Before(u, v)}) < Excess}

\* batch_promote: the protected deltas whose full base is a victim.
ToPromote ==
    {v \in DOMAIN tree :
        /\ v \in Protected
        /\ tree[v].delta # NoBlob
        /\ tree[v].parent \in Victims
        /\ tree[tree[v].parent].full # NoBlob}

\* A pass promotes, then deletes each victim's row and gives up its blobs; it is
\* followed by another one if it has freed something.
PlanPass ==
    /\ at = "gc"
    /\ IF Excess = 0
       THEN at' = "idle" /\ UNCHANGED plan
       ELSE /\ at' = "evict"
            /\ plan' = [promote |-> ToPromote, evict |-> Victims, unref |-> <<>>,
                        again |-> Freed(Victims) > 0]
    /\ UNCHANGED <<durable, op, memory, tasks, ghost>>

\* The blobs a node refers to.
BlobsOf(n) ==
    (IF n.full = NoBlob THEN <<>> ELSE <<n.full>>)
    \o (IF n.delta = NoBlob THEN <<>> ELSE <<n.delta>>)

\* promote_to_full.
Promoted(n, c) ==
    [path |-> n.path, seq |-> n.seq, parent |-> n.parent, full |-> <<c>>,
     delta |-> NoBlob, depth |-> 0, trigger |-> n.trigger]

\* The children come in any order.  A row that is refused ends the collection
\* after the blob is stored and the tree has changed.
GcPromote(v) ==
    LET node == Promoted(tree[v], Read(tree, v)) IN
    /\ at = "evict"
    /\ plan.unref = <<>>
    /\ v \in plan.promote
    /\ IF Read(tree, v) = Unreadable
       THEN at' = "idle" /\ plan' = NoPlan /\ UNCHANGED <<refs, tree, rows>>
       ELSE /\ refs' = Put(node.full)
            /\ tree' = With(tree, v, node)
            /\ IF RowFits(node)
               THEN /\ rows' = With(rows, v, node)
                    /\ plan' = [plan EXCEPT !.promote = @ \ {v}, !.unref = <<tree[v].delta>>]
                    /\ UNCHANGED at
               ELSE at' = "idle" /\ plan' = NoPlan /\ UNCHANGED rows
    /\ UNCHANGED <<file, wal, op, seqNo, heads, nextId, eligible, sinceGc, tasks, ghost>>

\* The victims go in the order they were found in.
GcDelete(v) ==
    /\ at = "evict"
    /\ plan.unref = <<>> /\ plan.promote = {}
    /\ v \in plan.evict
    /\ \A w \in plan.evict \ {v} : Before(v, w)
    /\ rows' = Removed(rows, v)
    /\ tree' = Removed(tree, v)
    /\ heads' = [p \in {q \in DOMAIN heads : heads[q] # v} |-> heads[p]]
    /\ eligible' = eligible \ {v}
    /\ evicted' = evicted \cup {tree[v].seq}
    /\ plan' = [plan EXCEPT !.evict = @ \ {v}, !.unref = BlobsOf(tree[v])]
    /\ UNCHANGED <<file, wal, refs, at, op, seqNo, nextId, sinceGc, tasks, truth, dirty,
                   spoilt, crashes, faults>>

\* An error ends the collection.
GcUnref ==
    /\ at = "evict"
    /\ plan.unref # <<>>
    /\ IF UnrefFails(Head(plan.unref))
       THEN at' = "idle" /\ plan' = NoPlan /\ UNCHANGED refs
       ELSE /\ refs' = Unref(Head(plan.unref))
            /\ plan' = [plan EXCEPT !.unref = Tail(@)]
            /\ UNCHANGED at
    /\ UNCHANGED <<file, wal, rows, op, memory, tasks, ghost>>

GcPassEnds ==
    /\ at = "evict"
    /\ plan.unref = <<>> /\ plan.promote = {} /\ plan.evict = {}
    /\ at' = IF plan.again THEN "gc" ELSE "idle"
    /\ plan' = NoPlan
    /\ UNCHANGED <<durable, op, memory, tasks, ghost>>

\* on_git_commit: the deltas recorded so far are the first to go.
GitCommit ==
    /\ Ready
    /\ eligible' = eligible \cup
         {v \in DOMAIN tree : tree[v].seq < seqNo /\ tree[v].delta # NoBlob}
    /\ eligible' # eligible
    /\ UNCHANGED <<durable, at, op, seqNo, tree, heads, nextId, sinceGc, todo, ghost>>

\* checkpoint refuses while a restore is incomplete.
Checkpoint ==
    /\ Ready
    /\ wal # <<>>
    /\ Pending = {}
    /\ wal' = <<>>
    /\ UNCHANGED <<file, rows, refs, at, op, memory, todo, ghost>>

-----------------------------------------------------------------------------
(* Crash, open and recovery. *)

\* What is in memory is gone.
Killed ==
    /\ at # "down"
    /\ crashes < MaxCrashes
    /\ crashes' = crashes + 1
    /\ at' = "down"
    /\ dirty' = IF at = "log" /\ op.trigger # "Decline" THEN dirty \cup {op.path} ELSE dirty
    /\ op' = NoOp
    /\ tasks' = <<>> /\ plan' = NoPlan
    /\ seqNo' = 1 /\ nextId' = 1 /\ sinceGc' = 0
    /\ tree' = <<>> /\ heads' = <<>> /\ eligible' = {}
    /\ UNCHANGED <<file, wal, truth, spoilt, faults>>

Crash == Killed /\ UNCHANGED <<rows, refs, evicted>>

\* Between the blob and the row of a promotion.
CrashInPromote(v) ==
    /\ at = "evict" /\ plan.unref = <<>>
    /\ v \in plan.promote
    /\ Read(tree, v) # Unreadable
    /\ refs' = Put(<<Read(tree, v)>>)
    /\ Killed
    /\ UNCHANGED <<rows, evicted>>

\* Between the two statements of delete_node, which are not one transaction: the
\* children are detached and the victim is still there.
CrashInDelete(v) ==
    /\ at = "evict" /\ plan.unref = <<>> /\ plan.promote = {}
    /\ v \in plan.evict
    /\ \A w \in plan.evict \ {v} : Before(v, w)
    /\ rows' = Detached(rows, v)
    /\ evicted' = evicted \cup {tree[v].seq}
    /\ Killed
    /\ UNCHANGED refs

\* Mutant of Open: version ids go on from the number of rows.
OpenCountsRows ==
    /\ at = "down"
    /\ tree' = rows
    /\ nextId' = Cardinality(DOMAIN rows) + 1
    /\ seqNo' = MaxOf(SeqsOf(rows) \cup SeqsOf(wal)) + 1
    /\ tasks' = wal
    /\ at' = "replay"
    /\ UNCHANGED <<durable, op, heads, eligible, sinceGc, plan, ghost>>

\* open: the table is loaded; the entries it lacks are to be replayed.
Open ==
    /\ at = "down"
    /\ tree' = rows
    /\ nextId' = MaxOf(DOMAIN rows) + 1
    /\ seqNo' = MaxOf(SeqsOf(rows) \cup SeqsOf(wal)) + 1
    /\ tasks' = wal
    /\ at' = "replay"
    /\ UNCHANGED <<durable, op, heads, eligible, sinceGc, plan, ghost>>

\* Only an entry that makes a node and has none is replayed.
HasNode(e) == e.trigger = "DeclineDone" \/ e.seq \in SeqsOf(rows)

Replay ==
    LET e == Head(tasks)
        depth == IF e.delta = NoBlob THEN 0
                 ELSE IF e.parent \in DOMAIN tree THEN tree[e.parent].depth + 1 ELSE 1 IN
    /\ at = "replay"
    /\ tasks # <<>>
    /\ ~HasNode(e)
    /\ IF RowFits(e)
       THEN /\ tree' = With(tree, nextId, NodeOf(e, depth))
            /\ rows' = With(rows, nextId, NodeOf(e, depth))
            /\ nextId' = nextId + 1
            /\ tasks' = Tail(tasks)
            /\ UNCHANGED at
       ELSE /\ at' = "failed"
            /\ tasks' = <<>>
            /\ UNCHANGED <<tree, rows, nextId>>
    /\ spoilt' = IF e.seq \in evicted THEN spoilt \cup {"resurrected"} ELSE spoilt
    /\ UNCHANGED <<file, wal, refs, op, seqNo, heads, eligible, sinceGc, plan, truth, dirty,
                   evicted, crashes, faults>>

\* recover_incomplete_restores takes the pending intents whose file
\* build_path_hash_index has found in the worktree.
Recoverable(e) == e \in Pending /\ file[e.path] # Absent

\* The heads are rebuilt, and recovery goes through the log again.
Opened ==
    /\ at = "replay"
    /\ tasks = <<>>
    /\ heads' = NewestHeads(tree)
    /\ tasks' = wal
    /\ at' = "recover"
    /\ spoilt' = IF \E e \in Pending : ~Recoverable(e) THEN spoilt \cup {"skipped"} ELSE spoilt
    /\ UNCHANGED <<durable, op, seqNo, tree, nextId, eligible, sinceGc, plan, truth, dirty,
                   evicted, crashes, faults>>

\* An entry that is not to be replayed, or not to be restored, is passed over.
PassOver ==
    /\ tasks # <<>>
    /\ \/ at = "replay" /\ HasNode(Head(tasks))
       \/ at = "recover" /\ ~Recoverable(Head(tasks))
    /\ tasks' = Tail(tasks)
    /\ UNCHANGED <<durable, at, op, memory, plan, ghost>>

\* finish_restore: the file, then the mark.  A missing blob ends recovery.
FinishRestore ==
    LET e == Head(tasks) IN
    /\ at = "recover"
    /\ tasks # <<>>
    /\ Recoverable(e)
    /\ IF e.full \in DOMAIN refs
       THEN /\ file' = [file EXCEPT ![e.path] = e.full[1]]
            /\ dirty' = dirty \ {e.path}
            /\ at' = "finish"
            /\ UNCHANGED tasks
       ELSE /\ at' = "idle"
            /\ tasks' = <<>>
            /\ UNCHANGED <<file, dirty>>
    /\ UNCHANGED <<wal, rows, refs, op, memory, plan, truth, evicted, spoilt, crashes, faults>>

FinishMark ==
    /\ at = "finish"
    /\ wal' = Append(wal, Entry(Head(tasks), Root, "DeclineDone"))
    /\ tasks' = Tail(tasks)
    /\ at' = "recover"
    /\ UNCHANGED <<file, rows, refs, op, memory, plan, ghost>>

Recovered ==
    /\ at = "recover"
    /\ tasks = <<>>
    /\ at' = "idle"
    /\ UNCHANGED <<durable, op, memory, todo, ghost>>

-----------------------------------------------------------------------------

Init ==
    /\ file = [p \in Paths |-> Absent]
    /\ wal = <<>> /\ rows = <<>> /\ refs = <<>>
    /\ at = "idle" /\ op = NoOp /\ tasks = <<>> /\ plan = NoPlan
    /\ seqNo = 1 /\ tree = <<>> /\ heads = <<>> /\ nextId = 1
    /\ eligible = {} /\ sinceGc = 0
    /\ truth = <<>> /\ dirty = {} /\ evicted = {} /\ spoilt = {}
    /\ crashes = 0 /\ faults = 0

Next ==
    \/ \E p \in Paths, c \in Contents \cup {Absent} : EditFile(p, c)
    \/ \E p \in Paths : RecordChange(p) \/ RecordDelete(p)
    \/ \E p \in Paths, v \in DOMAIN tree : Decline(p, v)
    \/ CommitEntry \/ RestoreFile \/ WriteRow \/ MarkDone
    \/ LogFails \/ SyncFails \/ RestoreOrMarkFails \/ RowFails \/ RowRefused
    \/ \E v \in plan.promote : GcPromote(v) \/ CrashInPromote(v)
    \/ \E v \in plan.evict : GcDelete(v) \/ CrashInDelete(v)
    \/ PlanPass \/ GcUnref \/ GcPassEnds
    \/ GitCommit \/ Checkpoint
    \/ Crash \/ Open \/ Replay \/ Opened \/ PassOver \/ FinishRestore \/ FinishMark \/ Recovered

Spec == Init /\ [][Next]_vars

-----------------------------------------------------------------------------
(* Properties. *)

Readings == Contents \cup {Garbled}
Blobs == {NoBlob, <<"=", "=">>} \cup {<<c>> : c \in Readings} \cup (Readings \X Contents)

\* Tree and table hold version nodes whose chain is at most D_MAX long, and a
\* blob that is kept has a reference.
TypeOK ==
    /\ file \in [Paths -> Contents \cup {Absent}]
    /\ \A nodes \in {tree, rows} : \A v \in DOMAIN nodes :
         /\ nodes[v].path \in Paths
         /\ nodes[v].seq \in 1..MaxSeq
         /\ nodes[v].parent \in Nat
         /\ {nodes[v].full, nodes[v].delta} \subseteq Blobs
         /\ nodes[v].depth \in 0..D_MAX
    /\ DOMAIN refs \subseteq Blobs
    /\ \A b \in DOMAIN refs : refs[b] \in Nat \ {0}
    /\ \A p \in DOMAIN heads : heads[p] \in DOMAIN tree
    /\ seqNo \in 1..(MaxSeq + 1)
    /\ dirty \subseteq Paths
    /\ spoilt \subseteq {"resurrected", "skipped"}

\* Every version the tree lists reads as the content recorded under its
\* sequence number, or, once the collector has cut its chain, as nothing:
\* never as something else.  No failed step changes this until a crash, and one
\* does not after it, unless a deleted version came back from the log: that
\* takes a version id, and moves the ids of the entries replayed after it.  Two
\* failed steps and a crash do the same.
NeverWrongContent ==
    (crashes = 0 \/ faults = 0 \/ (faults = 1 /\ "resurrected" \notin spoilt)) =>
        \A v \in DOMAIN tree :
            tree[v].trigger # "Delete" =>
                Read(tree, v) \in {Unreadable, truth[tree[v].seq]}

\* Undo reaches every version the engine lists (foundation design 4.6) as long
\* as the collector has not begun to delete anything, through crashes, replays,
\* promotions and one failed step.  A deletion that has begun is enough to cut a
\* chain: killed between the two statements of delete_node, the collector leaves
\* the victim in its row and its children without their parent.
HistoryIsReadable ==
    evicted = {} /\ faults <= 1 =>
        \A v \in DOMAIN tree :
            tree[v].trigger # "Delete" => Read(tree, v) = truth[tree[v].seq]

\* The head of every path reads as the content recorded under its number,
\* whatever the collector has deleted: through crashes as long as nothing has
\* failed, and through failed steps until the first crash, unless a deleted
\* version came back from the log.  Not through both: a version without a row
\* keeps the versions under it out of the protected set, and is gone with the log.
HeadIsReadable ==
    "resurrected" \notin spoilt /\ (faults = 0 \/ crashes = 0) =>
        \A p \in DOMAIN heads :
            LET h == tree[heads[p]] IN
            h.trigger # "Delete" => Read(tree, heads[p]) = truth[h.seq]

\* A blob has at least as many references as nodes that name it, so giving up
\* one of them never takes the blob from another.
RefsCoverNodes ==
    spoilt \cap {"resurrected"} = {} =>
        \A b \in (UNION {{tree[v].full, tree[v].delta} : v \in DOMAIN tree}) \ {NoBlob} :
            /\ b \in DOMAIN refs
            /\ refs[b] >= Cardinality({v \in DOMAIN tree : b \in {tree[v].full, tree[v].delta}})

\* open succeeds, unless the log still holds a version the collector has
\* deleted or whose row could not be written.
OpenSucceeds == at = "failed" => "resurrected" \in spoilt \/ faults > 0

\* What the engine knows of a file that nobody has touched since is what the
\* file holds, also when an undo was cut short by a crash.
QuietFileIsHead ==
    at = "idle" /\ faults = 0 /\ spoilt = {} =>
        \A p \in DOMAIN heads \ dirty : file[p] = truth[tree[heads[p]].seq]

\* A restart completes every undo that was cut short (foundation design 4.8:
\* "On recovery: replay WAL -> see Decline entry -> re-execute Step 2").  The
\* code does not when the file is gone from the worktree.
UndoIsCompleted == at = "idle" /\ faults = 0 => Pending = {}

\* Every head stays readable whatever the collector deletes (quota.rs on
\* run_gc's protected set), also after a restart.  The code does not keep this:
\* a deleted version comes back from the log without its reference, and the
\* next collection takes the blob from the head that shares it.
HeadAlwaysReadable ==
    \A p \in DOMAIN heads :
        LET h == tree[heads[p]] IN
        h.trigger # "Delete" => Read(tree, heads[p]) = truth[h.seq]

\* Nothing is ever read as what it is not, however many steps have failed.  The
\* code does not keep this: open gives the entries without a row new version ids
\* in the order of the log, while the entries after them name their parents by
\* the ids the tree had given out.  After an undo whose restore failed (an entry
\* that never had a node) and a failed row the two differ, and a delta is applied
\* to a content it was not made for.
NeverGarbled == \A v \in DOMAIN tree : Read(tree, v) # Garbled

=============================================================================
