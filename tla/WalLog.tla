-------------------------------- MODULE WalLog --------------------------------
(***************************************************************************)
(* The write-ahead log of the shadow snapshot engine (shadow_snapshot's     *)
(* wal.rs) and the part of the engine that relies on it (engine.rs: open,   *)
(* record_change, record_delete, checkpoint), down to files, the directory  *)
(* that names them and what a crash leaves of both.                         *)
(*                                                                          *)
(* One thread writes.  A log file is a sequence of frames; a frame is the   *)
(* number of its entry, or Torn when a crash cut it short.  The file system *)
(* is external: a killed process loses its write buffer only; a power       *)
(* failure also loses directory changes and file tails that no fsync has    *)
(* covered, the directory changes in order, as on a journalling file        *)
(* system, where an fsync commits every change made before it.              *)
(***************************************************************************)
EXTENDS Naturals, Sequences, SequencesExt

CONSTANTS
    MaxSeq,         \* bound: entries recorded
    MaxFiles,       \* bound: log files ever created
    MaxCrashes,     \* bound: crashes
    FaultSets       \* what may go wrong: each behaviour has one of these sets

FaultNames ==
    {"power", "flush", "fsync", "row", "rename", "create", "create_fsync", "remove"}

ASSUME BoundsAssumption == {MaxSeq, MaxFiles, MaxCrashes} \subseteq Nat
ASSUME FaultsAssumption == FaultSets \subseteq SUBSET FaultNames

Seqs   == 1..MaxSeq
Files  == 1..MaxFiles
Torn   == 0
NoFile == 0
Frames == Seqs \cup {Torn}

VARIABLES
    at,         \* what the writer does next; "down" between a crash and open
    next,       \* ShadowSnapshotEngine.seq_no
    buf,        \* the BufWriter's content
    hand,       \* the file the BufWriter writes to
    data,       \* file |-> its frames
    synced,     \* file |-> how many of them an fsync has covered
    dirs,       \* the directory: its durable state, then one per later change
    rows,       \* SQLite: the entries that have a version node
    todo,       \* open: entries still to be replayed
    committed,  \* every entry whose commit succeeded
    live,       \* those committed since a rotation was last complete
    crashes,
    faults      \* what may go wrong in this behaviour

vars == <<faults, at, next, buf, hand, data, synced, dirs, rows, todo, committed, live, crashes>>

files == <<hand, data, synced, dirs>>
ghost == <<committed, live>>
env   == <<crashes, faults>>

-----------------------------------------------------------------------------
(* The file system (external). *)

Dir == Last(dirs)

ChangeDir(d) == dirs' = Append(dirs, d)

\* sync_all on file f, whose content has just become frames: it is durable,
\* and so is every directory change before it.
SyncFile(f, frames) ==
    /\ data' = [data EXCEPT ![f] = frames]
    /\ synced' = [synced EXCEPT ![f] = Len(frames)]
    /\ dirs' = <<Dir>>

\* What a power failure may leave of file f: at least what was covered by an
\* fsync, and the next frame perhaps in part.
Remains(f) ==
    {SubSeq(data[f], 1, n) : n \in synced[f]..Len(data[f])} \cup
    {SubSeq(data[f], 1, n) \o <<Torn>> : n \in synced[f]..(Len(data[f]) - 1)}

NewFile == CHOOSE f \in Files : f \notin {d.canon : d \in ToSet(dirs)}
                                     \cup {d.arch : d \in ToSet(dirs)} \cup {hand}

HasRoom == \E f \in Files : f \notin {d.canon : d \in ToSet(dirs)}
                                  \cup {d.arch : d \in ToSet(dirs)} \cup {hand}

Full(f) == f # NoFile /\ data[f] # <<>>

-----------------------------------------------------------------------------
(* open and replay. *)

\* Both files hold records: open fails, and keeps failing.
Ambiguous(d) == Full(d.canon) /\ Full(d.arch)

\* recover_rotated_log: an archive is put back when the log is missing or empty.
\* Mutant of Restored: only when it is missing.
RestoredIfMissing(d) ==
    IF Full(d.arch) /\ d.canon = NoFile THEN [canon |-> d.arch, arch |-> NoFile] ELSE d

Restored(d) ==
    IF Full(d.arch) /\ ~Full(d.canon) THEN [canon |-> d.arch, arch |-> NoFile] ELSE d

\* replay reads frame by frame and stops at a torn one.  With more behind it,
\* replay reads across the boundary and fails on the checksum, or stops when the
\* file ends first: what is before is all that can be read.
Readable(frames) ==
    LET torn == {i \in DOMAIN frames : frames[i] = Torn}
    IN  IF torn = {} THEN frames
        ELSE SubSeq(frames, 1, (CHOOSE i \in torn : \A j \in torn : i <= j) - 1)

Content(d) == IF d.canon = NoFile THEN <<>> ELSE data[d.canon]

\* The allocator starts above everything persisted and everything replayed.
\* Mutant of StartSeq: what is only in the log does not count.
StartSeqFromRows(entries) == Max(rows \cup {0}) + 1

StartSeq(entries) == Max(rows \cup ToSet(entries) \cup {0}) + 1

\* Wal::open restores or creates the log; the engine then replays it.  A replay
\* that fails leaves the engine closed, which is what "down" is.
Open ==
    /\ at = "down"
    /\ ~Ambiguous(Dir)
    /\ LET d == Restored(Dir)
       IN  /\ IF d.canon # NoFile
              THEN /\ hand' = d.canon
                   /\ IF d # Dir THEN ChangeDir(d) ELSE UNCHANGED dirs
                   /\ UNCHANGED <<data, synced>>
              ELSE /\ HasRoom
                   /\ hand' = NewFile
                   /\ ChangeDir([d EXCEPT !.canon = NewFile])
                   /\ data' = [data EXCEPT ![NewFile] = <<>>]
                   /\ synced' = [synced EXCEPT ![NewFile] = 0]
           /\ todo' = Readable(Content(d))
           /\ next' = StartSeq(Readable(Content(d)))
    /\ at' = "replay"
    /\ UNCHANGED <<buf, rows, ghost, env>>

\* An entry gets a version node unless it has one; after the last, the engine is
\* open.
\* Mutant of Replay: the engine is open before the last.
ReplayCutShort ==
    /\ at = "replay"
    /\ at' = "idle"
    /\ UNCHANGED <<next, buf, files, rows, todo, ghost, env>>

Replay ==
    /\ at = "replay"
    /\ IF todo = <<>>
       THEN at' = "idle" /\ UNCHANGED <<rows, todo>>
       ELSE rows' = rows \cup {Head(todo)} /\ todo' = Tail(todo) /\ UNCHANGED at
    /\ UNCHANGED <<next, buf, files, ghost, env>>

-----------------------------------------------------------------------------
(* record_change, record_delete. *)

Current == next - 1

\* append: the frame goes to the buffer.
Record ==
    /\ at = "idle" /\ next \in Seqs
    /\ buf' = Append(buf, next)
    /\ next' = next + 1
    /\ at' = "flush"
    /\ UNCHANGED <<files, rows, todo, ghost, env>>

\* commit (and checkpoint) flush the buffer.  A flush that fails keeps it, and
\* the entry of an operation that was reported as failed goes out with the next.
Flush ==
    /\ at \in {"flush", "ck_flush"}
    /\ \/ /\ data' = [data EXCEPT ![hand] = @ \o buf]
          /\ buf' = <<>>
          /\ at' = IF at = "flush" THEN "fsync" ELSE "ck_fsync"
       \/ /\ "flush" \in faults
          /\ at' = "idle"
          /\ UNCHANGED <<data, buf>>
    /\ UNCHANGED <<next, hand, synced, dirs, rows, todo, ghost, env>>

Commit ==
    /\ at = "fsync"
    /\ SyncFile(hand, data[hand])
    /\ committed' = committed \cup {Current}
    /\ live' = live \cup {Current}
    /\ at' = "row"
    /\ UNCHANGED <<next, buf, hand, rows, todo, env>>

\* sync_all fails: the operation is reported as failed.
FsyncFails ==
    /\ \/ at \in {"fsync", "ck_fsync"} /\ "fsync" \in faults
       \/ at = "ck_sync" /\ "create_fsync" \in faults
    /\ at' = "idle"
    /\ UNCHANGED <<next, buf, files, rows, todo, ghost, env>>

\* write_node, whose failure the recorder logs.
WriteNode ==
    /\ at = "row"
    /\ \/ rows' = rows \cup {Current}
       \/ "row" \in faults /\ UNCHANGED rows
    /\ at' = "idle"
    /\ UNCHANGED <<next, buf, files, todo, ghost, env>>

-----------------------------------------------------------------------------
(* checkpoint. *)

Checkpoint ==
    /\ at = "idle"
    /\ at' = "ck_flush"
    /\ UNCHANGED <<next, buf, files, rows, todo, ghost, env>>

CheckpointSync ==
    /\ at = "ck_fsync"
    /\ SyncFile(hand, data[hand])
    /\ at' = "ck_rename"
    /\ UNCHANGED <<next, buf, hand, rows, todo, ghost, env>>

\* The log becomes the archive, over an older one that an earlier rotation could
\* not remove.  A missing log is one that an earlier rotation moved and did not
\* replace.
Rotate ==
    /\ at = "ck_rename"
    /\ \/ /\ IF Dir.canon # NoFile
             THEN ChangeDir([canon |-> NoFile, arch |-> Dir.canon])
             ELSE UNCHANGED dirs
          /\ at' = "ck_create"
       \/ "rename" \in faults /\ at' = "idle" /\ UNCHANGED dirs
    /\ UNCHANGED <<next, buf, hand, data, synced, rows, todo, ghost, env>>

\* A new empty log, and the writer moves to it.
\* Mutant of Create: the writer stays on the archived file.
CreateKeepsHandle ==
    /\ at = "ck_create" /\ HasRoom
    /\ ChangeDir([Dir EXCEPT !.canon = NewFile])
    /\ data' = [data EXCEPT ![NewFile] = <<>>]
    /\ synced' = [synced EXCEPT ![NewFile] = 0]
    /\ at' = "ck_sync"
    /\ UNCHANGED <<next, buf, hand, rows, todo, ghost, env>>

Create ==
    /\ at = "ck_create"
    /\ \/ /\ HasRoom
          /\ ChangeDir([Dir EXCEPT !.canon = NewFile])
          /\ data' = [data EXCEPT ![NewFile] = <<>>]
          /\ synced' = [synced EXCEPT ![NewFile] = 0]
          /\ hand' = NewFile
          /\ at' = "ck_sync"
       \/ /\ "create" \in faults
          /\ at' = "idle"
          /\ UNCHANGED files
    /\ UNCHANGED <<next, buf, rows, todo, ghost, env>>

\* The new log and the directory are durable: the old log has served.
CreateSync ==
    /\ at = "ck_sync"
    /\ SyncFile(hand, data[hand])
    /\ live' = {}
    /\ at' = "ck_remove"
    /\ UNCHANGED <<next, buf, hand, rows, todo, committed, env>>

\* A removal that fails is logged, and the checkpoint succeeds all the same.
RemoveArchive ==
    /\ at = "ck_remove"
    /\ \/ ChangeDir([Dir EXCEPT !.arch = NoFile])
       \/ "remove" \in faults /\ UNCHANGED dirs
    /\ at' = "idle"
    /\ UNCHANGED <<next, buf, hand, data, synced, rows, todo, ghost, env>>

-----------------------------------------------------------------------------
Crash ==
    /\ at # "down" /\ crashes < MaxCrashes
    /\ crashes' = crashes + 1
    /\ at' = "down" /\ buf' = <<>> /\ todo' = <<>> /\ hand' = NoFile
    /\ IF "power" \in faults
       THEN /\ \E d \in ToSet(dirs) : dirs' = <<d>>
            /\ data' \in {g \in [Files -> UNION {Remains(f) : f \in Files}] :
                            \A f \in Files : g[f] \in Remains(f)}
            /\ synced' = [f \in Files |-> Len(data'[f])]
       ELSE UNCHANGED <<data, synced, dirs>>
    /\ UNCHANGED <<next, rows, ghost, faults>>

Init ==
    /\ at = "down" /\ next = 1 /\ buf = <<>> /\ hand = NoFile
    /\ data = [f \in Files |-> <<>>] /\ synced = [f \in Files |-> 0]
    /\ dirs = <<[canon |-> NoFile, arch |-> NoFile]>>
    /\ rows = {} /\ todo = <<>> /\ committed = {} /\ live = {} /\ crashes = 0
    /\ faults \in FaultSets

Next ==
    \/ Open \/ Replay
    \/ Record \/ Flush \/ Commit \/ FsyncFails \/ WriteNode
    \/ Checkpoint \/ CheckpointSync \/ Rotate \/ Create \/ CreateSync \/ RemoveArchive
    \/ Crash

Spec == Init /\ [][Next]_vars

-----------------------------------------------------------------------------
(* Properties. *)

\* What an engine opened on the present files would replay.
Recoverable ==
    IF Ambiguous(Dir) THEN {} ELSE ToSet(Readable(Content(Restored(Dir))))

\* Types.
TypeOK ==
    /\ at \in {"down", "replay", "idle", "flush", "fsync", "row", "ck_flush",
               "ck_fsync", "ck_rename", "ck_create", "ck_sync", "ck_remove"}
    /\ next \in 1..(MaxSeq + 1)
    /\ buf \in Seq(Seqs) /\ todo \in Seq(Seqs)
    /\ hand \in Files \cup {NoFile}
    /\ data \in [Files -> Seq(Frames)]
    /\ synced \in [Files -> Nat] /\ \A f \in Files : synced[f] <= Len(data[f])
    /\ dirs \in Seq([canon : Files \cup {NoFile}, arch : Files \cup {NoFile}])
    /\ dirs # <<>>
    /\ rows \subseteq Seqs /\ live \subseteq committed /\ committed \subseteq Seqs
    /\ crashes \in 0..MaxCrashes /\ faults \in FaultSets

\* What a killed process and a failed rotation leave is whole: no power failure,
\* and no write, fsync or removal that fails.
Benign == faults \subseteq {"rename", "create"}

\* Rotation is safe at every point of it: until the new log is durable, an
\* engine opened on what a crash would leave replays every committed entry.
LogSurvives == Benign => live \subseteq Recoverable

\* What is in the log and in its archive, readable or not.
Held == UNION {ToSet(data[f]) : f \in {Dir.canon, Dir.arch} \ {NoFile}}

\* A rotation that goes wrong loses no entry.  Whatever fails of it, the fsync of the
\* new log and the removal of the archive included, and whenever the process is
\* killed: a committed entry has its version node or its frame is still there, also
\* when the next rename overwrites an archive (wal.rs:148) that was not removed.
NothingDiscarded == faults \cap {"power", "row"} = {} => committed \subseteq rows \cup Held

\* Unless the fsync of a new log fails, no frame committed since the last complete
\* rotation leaves the log and its archive, even if the power fails.  A torn frame may
\* hide it from replay.
LogKeepsFrames == "create_fsync" \notin faults => live \subseteq Held

\* "A removal that fails only leaves a stale file" (wal.rs:131, checkpoint): open does
\* not refuse for it.
OpenNeverRefuses == at = "down" => ~Ambiguous(Dir)

\* An entry whose commit succeeded has a version node or gets one from the next
\* replay (engine.rs, record_change).
CommittedAlwaysRecovered == committed \subseteq rows \cup Recoverable

\* That holds of every kill and of every rotation that fails.
CommittedIsRecovered == Benign => CommittedAlwaysRecovered

\* Sequence numbers are strictly monotonic across restarts: an engine that is
\* open never hands out the number of a committed entry again (engine.rs, open).
SeqAboveCommitted == Benign /\ at = "idle" => \A s \in committed : s < next

\* The files and the crashes implement a log that grows and is emptied as a whole.
Log == INSTANCE DurableLog WITH log <- IF Benign THEN Recoverable ELSE {},
                                persisted <- IF Benign THEN rows ELSE {}

ImplementsLog == Log!Spec
=============================================================================
