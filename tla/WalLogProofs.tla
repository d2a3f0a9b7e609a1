---------------------------- MODULE WalLogProofs ----------------------------
(***************************************************************************)
(* Proofs about WalLog, for any number of entries, files and crashes.  In   *)
(* the first part the process may be killed between any two steps and the   *)
(* rename and the creation of a rotation may fail (Benign).                 *)
(*                                                                          *)
(* The argument: of the log and its archive at most one holds entries, so   *)
(* what open would replay is simply what the two hold together (Kept).      *)
(* While the engine is up its handle is on the file that holds them, even   *)
(* when that file has been archived, until the new log has been made        *)
(* durable; by then each of them has its version node.                      *)
(*                                                                          *)
(* The second part (FramesStay) is for the loss of power and every fault    *)
(* but a failed fsync of a new log; the third (NothingIsDiscarded) is for   *)
(* kills and whatever fails of a rotation, that fsync included.             *)
(***************************************************************************)
EXTENDS WalLog, WellFoundedInduction, TLAPS

Places == Files \union {NoFile}
Dirs   == [canon : Places, arch : Places]

Entries(f) == IF f = NoFile THEN {} ELSE ToSet(data[f])

\* The entries in the log and in its archive.
InLog  == Entries(Dir.canon)
InArch == Entries(Dir.arch)
Kept   == InLog \union InArch

TypeInv ==
    /\ at \in {"down", "replay", "idle", "flush", "fsync", "row", "ck_flush",
               "ck_fsync", "ck_rename", "ck_create", "ck_sync", "ck_remove"}
    /\ buf \in Seq(Seqs) /\ todo \in Seq(Seqs)
    /\ data \in [Files -> Seq(Seqs)]
    /\ dirs \in Seq(Dirs) /\ dirs # <<>>
    /\ hand \in Places
    /\ rows \subseteq Seqs /\ committed \subseteq Seqs /\ live \subseteq Seqs

\* Which name the writer's file has, and which of the two files is empty.
NameInv ==
    /\ Dir.canon # NoFile => Dir.canon # Dir.arch
    /\ at # "down" => /\ hand # NoFile
                      /\ hand = IF Dir.canon # NoFile THEN Dir.canon ELSE Dir.arch
    /\ at = "ck_create" => Dir.canon = NoFile
    /\ at \in {"ck_sync", "ck_remove"} =>
         Dir.canon # NoFile /\ Dir.arch # NoFile /\ InLog = {}
    /\ Dir.canon # NoFile /\ at \notin {"ck_sync", "ck_remove", "down"} =>
         InArch = {}
    /\ InLog = {} \/ InArch = {}

\* Where a committed entry is.
LiveInv ==
    /\ live \subseteq Kept
    /\ at = "ck_remove" => live = {}
    /\ committed \subseteq rows \union live

\* Which entries may lack a version node, by what the writer is doing.
LogInv ==
    /\ at = "flush" => ToSet(buf) = {Current}
    /\ at # "flush" => buf = <<>>
    /\ at \in {"fsync", "row"} => Current \in Kept /\ Kept \subseteq rows \union {Current}
    /\ at = "replay" => Kept \subseteq rows \union ToSet(todo) /\ ToSet(todo) \subseteq Kept
    /\ at \notin {"down", "replay", "fsync", "row"} => Kept \subseteq rows

\* Numbers grow.
SeqInv ==
    /\ at # "down" => next \in Nat /\ \A s \in Kept \union committed : s < next
    /\ at = "flush" => Current \in Seqs /\ \A s \in Kept : s < Current

Inv == TypeInv /\ NameInv /\ LiveInv /\ LogInv /\ SeqInv

IInv == Benign => Inv

\* What a step may do to the log: the steps of DurableLog, in terms of Kept.
Extended  == /\ \E S \in (SUBSET Seqs) \ {{}} :
                  /\ \A s \in S, t \in Kept : s > t
                  /\ Kept' = Kept \union S
             /\ rows' = rows
Persisted == Kept' = Kept /\ \E s \in Kept : rows' = rows \union {s}
Truncated == Kept \subseteq rows /\ Kept' = {} /\ rows' = rows
Unchanged == Kept' = Kept /\ rows' = rows

-----------------------------------------------------------------------------
(* Sequences, numbers and files. *)

LEMMA SetOfSeq ==
    ASSUME NEW S, NEW s \in Seq(S)
    PROVE  /\ ToSet(s) \subseteq S
           /\ s = <<>> <=> ToSet(s) = {}
           /\ s # <<>> => /\ Head(s) \in ToSet(s)
                          /\ ToSet(s) \subseteq {Head(s)} \union ToSet(Tail(s))
                          /\ ToSet(Tail(s)) \subseteq ToSet(s)
<1>1. ToSet(s) \subseteq S   BY DEF ToSet
<1>2. s = <<>> <=> ToSet(s) = {}   BY DEF ToSet
<1>3. ASSUME s # <<>> PROVE Head(s) \in ToSet(s)   BY <1>3 DEF ToSet
<1>4. ASSUME s # <<>> PROVE ToSet(Tail(s)) \subseteq ToSet(s)   BY <1>4 DEF ToSet
<1>5. ASSUME s # <<>>, NEW e \in ToSet(s), e # Head(s) PROVE e \in ToSet(Tail(s))
  <2>1. PICK i \in 1..Len(s) : e = s[i]   BY <1>5 DEF ToSet
  <2>2. i - 1 \in 1..Len(Tail(s)) /\ Tail(s)[i - 1] = e   BY <1>5, <2>1
  <2>3. DOMAIN Tail(s) = 1..Len(Tail(s))   BY <1>5
  <2> QED BY <2>2, <2>3 DEF ToSet
<1> QED BY <1>1, <1>2, <1>3, <1>4, <1>5

LEMMA SetOfConcat ==
    ASSUME NEW S, NEW s \in Seq(S), NEW t \in Seq(S)
    PROVE  s \o t \in Seq(S) /\ ToSet(s \o t) = ToSet(s) \union ToSet(t)
<1>1. s \o t \in Seq(S) /\ Len(s \o t) = Len(s) + Len(t)   OBVIOUS
<1>2. ASSUME NEW e \in ToSet(s \o t) PROVE e \in ToSet(s) \union ToSet(t)
  <2>1. PICK i \in 1..(Len(s) + Len(t)) : e = (s \o t)[i]   BY <1>1, <1>2 DEF ToSet
  <2>2. CASE i <= Len(s)   BY <2>1, <2>2 DEF ToSet
  <2>3. CASE i > Len(s)
    <3>1. i - Len(s) \in 1..Len(t) /\ e = t[i - Len(s)]   BY <2>1, <2>3
    <3> QED BY <3>1 DEF ToSet
  <2> QED BY <2>2, <2>3
<1>3. ASSUME NEW e \in ToSet(s) PROVE e \in ToSet(s \o t)
  <2>1. PICK i \in 1..Len(s) : e = s[i]   BY <1>3 DEF ToSet
  <2>2. i \in 1..Len(s \o t) /\ (s \o t)[i] = e   BY <1>1, <2>1
  <2> QED BY <2>2 DEF ToSet
<1>4. ASSUME NEW e \in ToSet(t) PROVE e \in ToSet(s \o t)
  <2>1. PICK i \in 1..Len(t) : e = t[i]   BY <1>4 DEF ToSet
  <2>2. i + Len(s) \in 1..Len(s \o t) /\ (s \o t)[i + Len(s)] = e   BY <1>1, <2>1
  <2> QED BY <2>2 DEF ToSet
<1> QED BY <1>1, <1>2, <1>3, <1>4

LEMMA SetOfEmpty == ToSet(<<>>) = {}
BY DEF ToSet

\* A set of numbers up to n that is not empty has a largest one.
LEMMA MaxIsMax ==
    ASSUME NEW n \in Nat, NEW S, S \subseteq 0..n, 0 \in S
    PROVE  Max(S) \in S /\ \A s \in S : s <= Max(S)
<1> DEFINE T == {b \in Nat : \A s \in S : s <= b}
<1>1. n \in T   OBVIOUS
<1>2. PICK b \in T : \A c \in T : ~(<<c, b>> \in OpToRel(<, Nat))
  <2> HIDE DEF T
  <2>1. T \subseteq Nat /\ T # {}   BY <1>1 DEF T
  <2> QED BY <2>1, WFMin, NatLessThanWellFounded
<1>3. \A c \in T : ~(c < b)   BY <1>2 DEF OpToRel
<1>4. b \in S
  <2> SUFFICES ASSUME b \notin S PROVE FALSE   OBVIOUS
  <2>1. b # 0   OBVIOUS
  <2>2. b - 1 \in Nat /\ \A s \in S : s <= b - 1   BY <2>1
  <2> QED BY <1>3, <2>2
<1>5. \E x \in S : \A y \in S : x >= y   BY <1>4
<1>6. Max(S) \in S /\ \A y \in S : Max(S) >= y   BY <1>5 DEF Max
<1> QED BY <1>6

LEMMA Constants == MaxSeq \in Nat /\ MaxFiles \in Nat /\ NoFile \notin Files
BY BoundsAssumption DEF Files, NoFile

\* The directory as the writer sees it, after a change and after an fsync.
DirsInv == dirs \in Seq(Dirs) /\ dirs # <<>>

LEMMA DirIsListed == ASSUME DirsInv PROVE Dir \in Dirs /\ Dir \in ToSet(dirs)
<1>1. Len(dirs) \in 1..Len(dirs)   BY DEF DirsInv
<1>2. Dir = dirs[Len(dirs)]   BY DEF Dir, Last
<1> QED BY <1>1, <1>2 DEF DirsInv, ToSet

LEMMA DirAppended ==
    ASSUME DirsInv, NEW d \in Dirs, ChangeDir(d)
    PROVE  DirsInv' /\ Dir' = d /\ ToSet(dirs') = ToSet(dirs) \union {d}
<1>1. dirs' = Append(dirs, d)   BY DEF ChangeDir
<1>2. dirs' \in Seq(Dirs) /\ Len(dirs') = Len(dirs) + 1 /\ dirs'[Len(dirs) + 1] = d
      /\ \A i \in 1..Len(dirs) : dirs'[i] = dirs[i]
  BY <1>1 DEF DirsInv
<1>3. Len(dirs) \in Nat   BY DEF DirsInv
<1>4. ToSet(dirs') = ToSet(dirs) \union {d}
  <2>1. DOMAIN dirs = 1..Len(dirs) /\ DOMAIN dirs' = 1..(Len(dirs) + 1)
    BY <1>2 DEF DirsInv
  <2> QED BY <1>2, <1>3, <2>1 DEF ToSet
<1> QED BY <1>2, <1>3, <1>4 DEF Dir, Last, DirsInv

LEMMA DirCovered ==
    ASSUME DirsInv, dirs' = <<Dir>>
    PROVE  DirsInv' /\ Dir' = Dir /\ ToSet(dirs') = {Dir}
<1>1. Dir \in Dirs   BY DirIsListed
<1>2. dirs' \in Seq(Dirs) /\ Len(dirs') = 1 /\ dirs'[1] = Dir   BY <1>1
<1> QED BY <1>2 DEF Dir, Last, DirsInv, ToSet

LEMMA FreshFile ==
    ASSUME HasRoom
    PROVE  /\ NewFile \in Files /\ NewFile # hand /\ NewFile # NoFile
           /\ \A d \in ToSet(dirs) : NewFile # d.canon /\ NewFile # d.arch
<1>1. NewFile \in Files /\ NewFile \notin {d.canon : d \in ToSet(dirs)}
                                     \union {d.arch : d \in ToSet(dirs)} \union {hand}
  BY DEF NewFile, HasRoom
<1> QED BY <1>1, Constants

LEMMA DirIsNamed == ASSUME TypeInv PROVE Dir \in Dirs /\ Dir \in ToSet(dirs)
BY DirIsListed DEF TypeInv, DirsInv

LEMMA DirChanged ==
    ASSUME TypeInv, NEW d \in Dirs, ChangeDir(d)
    PROVE  dirs' \in Seq(Dirs) /\ dirs' # <<>> /\ Dir' = d
BY DirAppended DEF TypeInv, DirsInv

LEMMA DirSynced ==
    ASSUME TypeInv, dirs' = <<Dir>>
    PROVE  dirs' \in Seq(Dirs) /\ dirs' # <<>> /\ Dir' = Dir
BY DirCovered DEF TypeInv, DirsInv

LEMMA NewFileIsNew ==
    ASSUME TypeInv, HasRoom
    PROVE  NewFile \in Files /\ NewFile \notin {Dir.canon, Dir.arch, hand, NoFile}
BY FreshFile, DirIsNamed

LEMMA FullIsHolding ==
    ASSUME data \in [Files -> Seq(Seqs)], NEW f \in Places
    PROVE  Full(f) <=> Entries(f) # {}
BY SetOfSeq DEF Full, Entries, Places

\* Without a torn frame replay reads everything.
LEMMA AllReadable == ASSUME NEW s \in Seq(Seqs) PROVE Readable(s) = s
<1>1. \A i \in DOMAIN s : s[i] \in Seqs   OBVIOUS
<1>2. Torn \notin Seqs   BY Constants DEF Seqs, Torn
<1>3. {i \in DOMAIN s : s[i] = Torn} = {}   BY <1>1, <1>2
<1> QED BY <1>3 DEF Readable

\* What open finds.
LEMMA OpenFinds ==
    ASSUME DirsInv, data \in [Files -> Seq(Seqs)], InLog = {} \/ InArch = {}
    PROVE  /\ ~Ambiguous(Dir)
           /\ Restored(Dir) \in Dirs
           /\ Content(Restored(Dir)) \in Seq(Seqs)
           /\ ToSet(Content(Restored(Dir))) = Kept
           /\ Entries(Restored(Dir).arch) = {}
           /\ Restored(Dir).canon # NoFile => Entries(Restored(Dir).canon) = Kept
           /\ Restored(Dir).canon = NoFile => Kept = {} /\ Restored(Dir) = Dir
           /\ Recoverable = Kept
<1>1. Dir \in Dirs /\ Dir.canon \in Places /\ Dir.arch \in Places   BY DirIsListed DEF Dirs
<1>2. /\ Full(Dir.canon) <=> Entries(Dir.canon) # {}
      /\ Full(Dir.arch) <=> Entries(Dir.arch) # {}
      /\ InLog = Entries(Dir.canon) /\ InArch = Entries(Dir.arch)
  BY <1>1, FullIsHolding DEF InLog, InArch
<1>3. ~Ambiguous(Dir)   BY <1>2 DEF Ambiguous
<1>4. CASE Full(Dir.arch) /\ ~Full(Dir.canon)
  <2>1. Restored(Dir) = [canon |-> Dir.arch, arch |-> NoFile]   BY <1>4 DEF Restored
  <2>2. Dir.arch # NoFile /\ Dir.arch \in Files   BY <1>1, <1>4 DEF Full, Places
  <2>3. Content(Restored(Dir)) = data[Dir.arch]   BY <2>1, <2>2 DEF Content
  <2>4. data[Dir.arch] \in Seq(Seqs)   BY <2>2
  <2>5. Restored(Dir) \in Dirs   BY <1>1, <2>1 DEF Dirs, Places
  <2>6. ToSet(data[Dir.arch]) = Kept /\ Entries(Dir.arch) = Kept
    BY <1>2, <1>4, <2>2 DEF Kept, Entries
  <2>7. Entries(NoFile) = {}   BY DEF Entries
  <2>8. Recoverable = Kept   BY <1>3, <2>3, <2>4, <2>6, AllReadable DEF Recoverable
  <2>9. Restored(Dir).canon = Dir.arch /\ Restored(Dir).arch = NoFile   BY <2>1
  <2> QED BY <1>3, <2>2, <2>3, <2>4, <2>5, <2>6, <2>7, <2>8, <2>9
<1>5. CASE ~(Full(Dir.arch) /\ ~Full(Dir.canon))
  <2>1. Restored(Dir) = Dir   BY <1>5 DEF Restored
  <2>2. Entries(Dir.arch) = {}   BY <1>2, <1>5
  <2>3. Kept = Entries(Dir.canon)   BY <1>2, <2>2 DEF Kept
  <2>4. Content(Dir) \in Seq(Seqs) /\ ToSet(Content(Dir)) = Kept
    <3>1. CASE Dir.canon = NoFile
      BY <2>3, <3>1, SetOfEmpty DEF Content, Entries
    <3>2. CASE Dir.canon # NoFile
      <4>1. data[Dir.canon] \in Seq(Seqs)   BY <1>1, <3>2 DEF Places
      <4> QED BY <2>3, <3>2, <4>1 DEF Content, Entries
    <3> QED BY <3>1, <3>2
  <2>5. Recoverable = Kept   BY <1>3, <2>1, <2>4, AllReadable DEF Recoverable
  <2>6. Dir.canon = NoFile => Kept = {}   BY <2>3 DEF Entries
  <2> QED BY <1>1, <1>3, <2>1, <2>2, <2>3, <2>4, <2>5, <2>6
<1> QED BY <1>4, <1>5

-----------------------------------------------------------------------------
(* The steps.  Most of them leave every file and the directory as they are. *)

LEMMA FilesSame ==
    ASSUME Dir' = Dir, data' = data
    PROVE  InLog' = InLog /\ InArch' = InArch /\ Kept' = Kept
BY DEF InLog, InArch, Kept, Entries

LEMMA SyncedSame ==
    ASSUME TypeInv, hand \in Files, SyncFile(hand, data[hand])
    PROVE  dirs' \in Seq(Dirs) /\ dirs' # <<>> /\ Dir' = Dir /\ data' = data
<1>1. data' = data   BY DEF SyncFile, TypeInv
<1> QED BY <1>1, DirSynced DEF SyncFile

LEMMA HandIsFile == ASSUME TypeInv, NameInv, at # "down" PROVE hand \in Files
BY DEF TypeInv, NameInv, Places

\* The steps that touch neither files nor rows.
LEMMA QuietStep ==
    ASSUME Inv, Record \/ Checkpoint \/ (Crash /\ Benign) \/ UNCHANGED vars
    PROVE  Inv' /\ Unchanged
<1>1. CASE UNCHANGED vars
  <2>1. Dir' = Dir   BY <1>1 DEF vars, Dir
  <2> QED BY <1>1, <2>1, FilesSame
     DEF vars, Inv, TypeInv, NameInv, LiveInv, LogInv, SeqInv, Unchanged, Current
<1>2. CASE Checkpoint
  <2>1. Dir' = Dir   BY <1>2 DEF Checkpoint, files, Dir
  <2> QED BY <1>2, <2>1, FilesSame
     DEF Checkpoint, files, ghost, Inv, TypeInv, NameInv, LiveInv, LogInv, SeqInv, Unchanged,
         Current
<1>3. CASE Record
  <2>1. Dir' = Dir /\ data' = data /\ dirs' = dirs   BY <1>3 DEF Record, files, Dir
  <2>2. next \in Seqs /\ next \in Nat /\ Current' = next
    BY <1>3, Constants DEF Record, Seqs, Current
  <2>3. buf = <<>>   BY <1>3 DEF Record, Inv, LogInv
  <2>4. buf' \in Seq(Seqs) /\ ToSet(buf') = {next}
    <3>1. buf' = <<next>>   BY <1>3, <2>3 DEF Record
    <3> QED BY <3>1, <2>2 DEF ToSet
  <2>5. \A s \in Kept \union committed : s \in Nat /\ s < next
    <3>1. at = "idle"   BY <1>3 DEF Record
    <3>2. Kept \union committed \subseteq Seqs   BY <3>1 DEF Inv, TypeInv, LogInv
    <3>3. \A s \in Kept \union committed : s < next   BY <3>1 DEF Inv, SeqInv
    <3>4. Seqs \subseteq Nat   BY Constants DEF Seqs
    <3> QED BY <3>2, <3>3, <3>4
  <2>6. Kept' = Kept /\ InLog' = InLog /\ InArch' = InArch   BY <2>1, FilesSame
  <2>7. TypeInv'   BY <1>3, <2>1, <2>4 DEF Record, files, ghost, Inv, TypeInv
  <2>8. NameInv' /\ LiveInv'
    BY <1>3, <2>1, <2>6 DEF Record, files, ghost, Inv, NameInv, LiveInv
  <2>9. LogInv' /\ Unchanged
    BY <1>3, <2>2, <2>4, <2>6 DEF Record, Inv, LogInv, Unchanged
  <2>10. SeqInv'   BY <1>3, <2>2, <2>5, <2>6 DEF Record, ghost, SeqInv
  <2> QED BY <2>7, <2>8, <2>9, <2>10 DEF Inv
<1>4. CASE Crash /\ Benign
  <2>1. Dir' = Dir /\ data' = data /\ dirs' = dirs   BY <1>4 DEF Crash, Benign, Dir
  <2> QED BY <1>4, <2>1, FilesSame
     DEF Crash, ghost, Inv, TypeInv, NameInv, LiveInv, LogInv, SeqInv, Unchanged, Places
<1> QED BY <1>1, <1>2, <1>3, <1>4

\* The steps that write the table.
LEMMA RowStep ==
    ASSUME Inv, Benign, Replay \/ WriteNode
    PROVE  Inv' /\ (Unchanged \/ Persisted)
<1>1. Dir' = Dir /\ data' = data /\ dirs' = dirs   BY DEF Replay, WriteNode, files, Dir
<1>2. Current' = Current   BY DEF Replay, WriteNode, Current
<1>3. CASE Replay /\ todo = <<>>
  BY <1>1, <1>2, <1>3, FilesSame, SetOfEmpty
  DEF Replay, files, ghost, Inv, TypeInv, NameInv, LiveInv, LogInv, SeqInv, Unchanged
<1>4. CASE Replay /\ todo # <<>>
  <2>1. /\ Head(todo) \in ToSet(todo) /\ Tail(todo) \in Seq(Seqs) /\ Head(todo) \in Seqs
        /\ ToSet(todo) \subseteq {Head(todo)} \union ToSet(Tail(todo))
        /\ ToSet(Tail(todo)) \subseteq ToSet(todo)
    BY <1>4, SetOfSeq DEF Inv, TypeInv
  <2> QED BY <1>1, <1>2, <1>4, <2>1, FilesSame
    DEF Replay, files, ghost, Inv, TypeInv, NameInv, LiveInv, LogInv, SeqInv, Persisted
<1>5. CASE WriteNode
  <2>1. rows' = rows \union {Current} /\ Current \in Kept
    BY <1>5 DEF WriteNode, Benign, Inv, LogInv
  <2>2. Current \in Seqs
    BY <2>1, DirIsNamed, SetOfSeq
    DEF Inv, TypeInv, Kept, InLog, InArch, Entries, Dirs, Places
  <2> QED BY <1>1, <1>2, <1>5, <2>1, <2>2, FilesSame
    DEF WriteNode, files, ghost, Inv, TypeInv, NameInv, LiveInv, LogInv, SeqInv, Persisted
<1> QED BY <1>3, <1>4, <1>5

\* The writer's own steps on its file.
LEMMA FlushStep == ASSUME Inv, Benign, Flush PROVE Inv' /\ (Unchanged \/ Extended)
<1>1. hand \in Files /\ hand # NoFile   BY HandIsFile, Constants DEF Inv, Flush
<1>2. /\ data' = [data EXCEPT ![hand] = @ \o buf] /\ buf' = <<>>
      /\ at' = IF at = "flush" THEN "fsync" ELSE "ck_fsync"
      /\ UNCHANGED <<next, hand, dirs, rows, todo, ghost>>
  BY DEF Flush, Benign
<1>3. Dir' = Dir /\ Current' = Current   BY <1>2 DEF Dir, Current
<1>4. data[hand] \o buf \in Seq(Seqs)
      /\ ToSet(data[hand] \o buf) = ToSet(data[hand]) \union ToSet(buf)
  BY <1>1, SetOfConcat DEF Inv, TypeInv
<1>5. data' \in [Files -> Seq(Seqs)] /\ ToSet(data'[hand]) = ToSet(data[hand]) \union ToSet(buf)
      /\ \A f \in Files \ {hand} : data'[f] = data[f]
  BY <1>1, <1>2, <1>4 DEF Inv, TypeInv
<1>6. Dir.canon \in Places /\ Dir.arch \in Places   BY DirIsNamed DEF Inv, Dirs
<1>7. /\ Dir.canon # NoFile => InLog' = InLog \union ToSet(buf) /\ InArch' = InArch
      /\ Dir.canon = NoFile => InArch' = InArch \union ToSet(buf) /\ InLog' = InLog
  BY <1>1, <1>3, <1>5, <1>6 DEF InLog, InArch, Entries, Inv, NameInv, Flush, Places
<1>8. Kept' = Kept \union ToSet(buf)   BY <1>7 DEF Kept
<1>9. TypeInv' /\ NameInv'
  BY <1>2, <1>3, <1>5, <1>7 DEF Inv, TypeInv, NameInv, Flush, ghost, InLog, Entries
<1>10. LiveInv'   BY <1>2, <1>8 DEF Inv, LiveInv, ghost, Flush
<1>11. CASE at = "flush"
  <2>1. /\ ToSet(buf) = {Current} /\ Current \in Seqs /\ next \in Nat
        /\ Kept \subseteq rows /\ \A s \in Kept : s < Current
    BY <1>11 DEF Inv, LogInv, SeqInv
  <2>2. Current < next   BY <2>1 DEF Current
  <2>3. LogInv' /\ SeqInv'
    BY <1>2, <1>3, <1>8, <1>11, <2>1, <2>2 DEF Inv, LogInv, SeqInv, ghost
  <2>4. Extended
    <3>1. {Current} \in (SUBSET Seqs) \ {{}}   BY <2>1
    <3>2. \A s \in {Current}, t \in Kept : s > t
      BY <2>1, Constants DEF Inv, TypeInv, Seqs
    <3> QED BY <1>2, <1>8, <2>1, <3>1, <3>2 DEF Extended
  <2> QED BY <1>9, <1>10, <2>3, <2>4 DEF Inv
<1>12. CASE at # "flush"
  <2>1. Kept' = Kept   BY <1>8, <1>12, SetOfEmpty DEF Inv, LogInv
  <2> QED BY <1>2, <1>3, <1>9, <1>10, <1>12, <2>1
    DEF Inv, LogInv, SeqInv, ghost, Flush, Unchanged
<1> QED BY <1>11, <1>12

\* The fsyncs.
LEMMA SyncStep ==
    ASSUME Inv, Commit \/ CheckpointSync \/ CreateSync
    PROVE  Inv' /\ Unchanged
<1>1. hand \in Files   BY HandIsFile DEF Inv, Commit, CheckpointSync, CreateSync
<1>2. dirs' \in Seq(Dirs) /\ dirs' # <<>> /\ Dir' = Dir /\ data' = data
  BY <1>1, SyncedSame DEF Inv, Commit, CheckpointSync, CreateSync
<1>3. Kept' = Kept /\ InLog' = InLog /\ InArch' = InArch   BY <1>2, FilesSame
<1>4. Current' = Current   BY DEF Commit, CheckpointSync, CreateSync, Current
<1>5. CASE Commit
  <2>1. Current \in Kept /\ Kept \subseteq rows \union {Current}
    BY <1>5 DEF Commit, Inv, LogInv
  <2>2. Current \in Seqs
    BY <2>1, DirIsNamed, SetOfSeq
    DEF Inv, TypeInv, Kept, InLog, InArch, Entries, Dirs, Places
  <2>3. TypeInv' /\ NameInv' /\ LiveInv' /\ LogInv'
    BY <1>2, <1>3, <1>4, <1>5, <2>1, <2>2
    DEF Commit, Inv, TypeInv, NameInv, LiveInv, LogInv
  <2>4. SeqInv'   BY <1>3, <1>5, <2>1 DEF Commit, Inv, SeqInv
  <2> QED BY <1>3, <1>5, <2>3, <2>4 DEF Inv, Unchanged, Commit
<1>6. CASE CheckpointSync
  BY <1>2, <1>3, <1>4, <1>6
  DEF CheckpointSync, ghost, Inv, TypeInv, NameInv, LiveInv, LogInv, SeqInv, Unchanged
<1>7. CASE CreateSync
  BY <1>2, <1>3, <1>4, <1>7
  DEF CreateSync, Inv, TypeInv, NameInv, LiveInv, LogInv, SeqInv, Unchanged
<1> QED BY <1>5, <1>6, <1>7

\* The steps that rename, create and remove.
LEMMA RotateStep == ASSUME Inv, Rotate PROVE Inv' /\ Unchanged
<1>1. Dir \in Dirs /\ Dir.canon \in Places /\ Dir.arch \in Places
  BY DirIsNamed DEF Inv, Dirs
<1>2. Current' = Current   BY DEF Rotate, Current
<1>3. ASSUME Dir' = Dir, dirs' = dirs, live' = live, at' \in {"idle", "ck_create"},
             at' = "ck_create" => Dir.canon = NoFile
      PROVE  Inv' /\ Unchanged
  <2>1. Kept' = Kept /\ InLog' = InLog /\ InArch' = InArch
    BY <1>3, FilesSame DEF Rotate
  <2> QED BY <1>2, <1>3, <2>1
    DEF Rotate, ghost, Inv, TypeInv, NameInv, LiveInv, LogInv, SeqInv, Unchanged
<1>4. CASE at' = "ck_create" /\ Dir.canon # NoFile
  <2>1. ChangeDir([canon |-> NoFile, arch |-> Dir.canon])   BY <1>4 DEF Rotate
  <2>2. [canon |-> NoFile, arch |-> Dir.canon] \in Dirs   BY <1>1 DEF Dirs, Places
  <2>3. /\ dirs' \in Seq(Dirs) /\ dirs' # <<>>
        /\ Dir' = [canon |-> NoFile, arch |-> Dir.canon]
    BY <2>1, <2>2, DirChanged DEF Inv
  <2>4. InArch = {} /\ Kept = InLog   BY <1>4 DEF Rotate, ghost, Inv, NameInv, Kept
  <2>5. InLog' = {} /\ InArch' = InLog /\ Kept' = Kept
    <3>1. InLog' = {}   BY <2>3 DEF InLog, Entries
    <3>2. InArch' = InLog   BY <1>4, <2>3 DEF InArch, InLog, Entries, Rotate
    <3> QED BY <2>4, <3>1, <3>2 DEF Kept
  <2>6. live' = live   BY DEF Rotate, ghost
  <2>7. TypeInv'   BY <2>3, <2>6 DEF Rotate, ghost, Inv, TypeInv
  <2>8. NameInv'   BY <1>4, <2>3, <2>5 DEF Rotate, ghost, Inv, NameInv
  <2> QED BY <1>2, <1>4, <2>5, <2>6, <2>7, <2>8
    DEF Rotate, ghost, Inv, LiveInv, LogInv, SeqInv, Unchanged
<1>5. CASE at' = "ck_create" /\ Dir.canon = NoFile
  BY <1>3, <1>5 DEF Rotate, ghost, Dir
<1>6. CASE at' # "ck_create"
  BY <1>3, <1>6 DEF Rotate, ghost, Dir
<1> QED BY <1>4, <1>5, <1>6

LEMMA CreateStep == ASSUME Inv, Create PROVE Inv' /\ Unchanged
<1>1. Dir \in Dirs /\ Dir.canon \in Places /\ Dir.arch \in Places
  BY DirIsNamed DEF Inv, Dirs
<1>2. Current' = Current   BY DEF Create, Current
<1>3. at = "ck_create" /\ Dir.canon = NoFile /\ hand = Dir.arch /\ hand # NoFile
  BY DEF Create, Inv, NameInv
<1>4. CASE HasRoom /\ at' = "ck_sync"
  <2>1. NewFile \in Files /\ NewFile # Dir.arch /\ NewFile # NoFile
    BY <1>4, NewFileIsNew DEF Inv
  <2>2. /\ ChangeDir([Dir EXCEPT !.canon = NewFile])
        /\ data' = [data EXCEPT ![NewFile] = <<>>] /\ hand' = NewFile
    BY <1>4 DEF Create
  <2>3. [Dir EXCEPT !.canon = NewFile] = [canon |-> NewFile, arch |-> Dir.arch]
        /\ [canon |-> NewFile, arch |-> Dir.arch] \in Dirs
    BY <1>1, <2>1 DEF Dirs, Places
  <2>4. /\ dirs' \in Seq(Dirs) /\ dirs' # <<>>
        /\ Dir' = [canon |-> NewFile, arch |-> Dir.arch]
    BY <2>2, <2>3, DirChanged DEF Inv
  <2>5. data' \in [Files -> Seq(Seqs)] /\ data'[NewFile] = <<>>
        /\ data'[Dir.arch] = data[Dir.arch]
    BY <1>1, <1>3, <2>1, <2>2 DEF Inv, TypeInv, Places
  <2>6. InLog' = {}   BY <2>1, <2>4, <2>5, SetOfEmpty DEF InLog, Entries
  <2>7. InArch' = InArch   BY <2>4, <2>5 DEF InArch, Entries
  <2>8. Kept' = Kept   BY <1>3, <2>6, <2>7 DEF Kept, InLog, Entries
  <2>9. TypeInv' /\ NameInv'
    BY <1>3, <1>4, <2>1, <2>2, <2>4, <2>5, <2>6
    DEF Create, ghost, Inv, TypeInv, NameInv, Places
  <2> QED BY <1>2, <1>3, <1>4, <2>8, <2>9
    DEF Create, ghost, Inv, LiveInv, LogInv, SeqInv, Unchanged
<1>5. CASE at' = "idle"
  <2>1. Dir' = Dir /\ data' = data /\ dirs' = dirs /\ hand' = hand
    BY <1>5 DEF Create, files, Dir
  <2> QED BY <1>2, <1>3, <1>5, <2>1, FilesSame
    DEF Create, ghost, Inv, TypeInv, NameInv, LiveInv, LogInv, SeqInv, Unchanged
<1> QED BY <1>4, <1>5 DEF Create

LEMMA RemoveStep == ASSUME Inv, Benign, RemoveArchive PROVE Inv' /\ Truncated
<1>1. Dir \in Dirs /\ Dir.canon \in Places /\ Dir.arch \in Places
  BY DirIsNamed DEF Inv, Dirs
<1>2. Current' = Current   BY DEF RemoveArchive, Current
<1>3. ChangeDir([Dir EXCEPT !.arch = NoFile]) /\ at' = "idle"
  BY DEF RemoveArchive, Benign
<1>4. [Dir EXCEPT !.arch = NoFile] = [canon |-> Dir.canon, arch |-> NoFile]
      /\ [canon |-> Dir.canon, arch |-> NoFile] \in Dirs
  BY <1>1 DEF Dirs, Places
<1>5. dirs' \in Seq(Dirs) /\ dirs' # <<>> /\ Dir' = [canon |-> Dir.canon, arch |-> NoFile]
  BY <1>3, <1>4, DirChanged DEF Inv
<1>6. at = "ck_remove" /\ InLog = {} /\ live = {} /\ Kept \subseteq rows
      /\ Dir.canon # NoFile
  BY DEF RemoveArchive, Inv, NameInv, LiveInv, LogInv
<1>7. InLog' = {}   BY <1>5, <1>6 DEF InLog, Entries, RemoveArchive
<1>8. InArch' = {}   BY <1>5 DEF InArch, Entries
<1>9. Kept' = {}   BY <1>7, <1>8 DEF Kept
<1>10. TypeInv' /\ NameInv'
  BY <1>3, <1>5, <1>6, <1>7, <1>8
  DEF RemoveArchive, ghost, Inv, TypeInv, NameInv
<1> QED BY <1>2, <1>3, <1>6, <1>9, <1>10
  DEF RemoveArchive, ghost, Inv, LiveInv, LogInv, SeqInv, Truncated

\* Open finds everything that is kept, and numbers above all of it.
LEMMA StartIsAbove ==
    ASSUME TypeInv, NEW s \in Seq(Seqs)
    PROVE  StartSeq(s) \in Nat /\ \A e \in rows \union ToSet(s) : e < StartSeq(s)
<1> DEFINE S == rows \union ToSet(s) \union {0}
<1>1. S \subseteq 0..MaxSeq /\ 0 \in S
  <2>1. ToSet(s) \subseteq Seqs /\ rows \subseteq Seqs   BY SetOfSeq DEF TypeInv
  <2>2. Seqs \union {0} \subseteq 0..MaxSeq   BY Constants DEF Seqs
  <2> QED BY <2>1, <2>2
<1>2. Max(S) \in S /\ \A e \in S : e <= Max(S)
  <2> HIDE DEF S
  <2> QED BY <1>1, MaxIsMax, Constants
<1>3. StartSeq(s) = Max(S) + 1   BY DEF StartSeq
<1>4. \A e \in S : e \in Nat   BY <1>1, Constants
<1>5. Max(S) \in Nat   BY <1>2, <1>4
<1> HIDE DEF S
<1>6. StartSeq(s) \in Nat /\ \A e \in S : e < StartSeq(s)   BY <1>2, <1>3, <1>4, <1>5
<1> QED BY <1>6 DEF S

\* What Open reads and leaves: all that is kept, in the log.
LEMMA OpenKeeps ==
    ASSUME DirsInv, data \in [Files -> Seq(Seqs)], InLog = {} \/ InArch = {}, Open
    PROVE  /\ DirsInv' /\ Dir' \in Dirs
           /\ data' \in [Files -> Seq(Seqs)] /\ hand' \in Files
           /\ hand' = Dir'.canon
           /\ (Dir.canon # NoFile => Dir.canon # Dir.arch) => Dir'.canon # Dir'.arch
           /\ InLog' = Kept /\ InArch' = {} /\ Kept' = Kept
           /\ todo' \in Seq(Seqs) /\ ToSet(todo') = Kept /\ next' = StartSeq(todo')
<1> DEFINE d == Restored(Dir)
<1>2. /\ d \in Dirs /\ d.canon \in Places /\ d.arch \in Places
      /\ Content(d) \in Seq(Seqs) /\ ToSet(Content(d)) = Kept
      /\ Entries(d.arch) = {}
      /\ d.canon # NoFile => Entries(d.canon) = Kept
      /\ d.canon = NoFile => Kept = {} /\ d = Dir
  BY OpenFinds DEF Dirs
<1>3. (Dir.canon # NoFile => Dir.canon # Dir.arch) => (d.canon # NoFile => d.canon # d.arch)
  BY DEF Restored
<1>4. Readable(Content(d)) = Content(d)   BY <1>2, AllReadable
<1>5. todo' = Content(d) /\ next' = StartSeq(Content(d))   BY <1>4 DEF Open
<1>6. /\ Dir' \in Dirs /\ dirs' \in Seq(Dirs) /\ dirs' # <<>>
      /\ data' \in [Files -> Seq(Seqs)] /\ hand' \in Files
      /\ hand' = Dir'.canon
      /\ (Dir.canon # NoFile => Dir.canon # Dir.arch) => Dir'.canon # Dir'.arch
      /\ InLog' = Kept /\ InArch' = {}
  <2>1. CASE d.canon # NoFile
    <3>1. hand' = d.canon /\ data' = data   BY <2>1 DEF Open
    <3>2. dirs' \in Seq(Dirs) /\ dirs' # <<>> /\ Dir' = d
      <4>1. CASE d # Dir
        <5>1. ChangeDir(d)   BY <2>1, <4>1 DEF Open
        <5> QED BY <1>2, <5>1, DirAppended DEF DirsInv
      <4>2. CASE d = Dir
        <5>1. dirs' = dirs   BY <2>1, <4>2 DEF Open
        <5> QED BY <4>2, <5>1 DEF Dir, DirsInv
      <4> QED BY <4>1, <4>2
    <3>4. data' \in [Files -> Seq(Seqs)] /\ hand' \in Files
      BY <1>2, <2>1, <3>1 DEF Places
    <3>5. InLog' = Kept /\ InArch' = {}
      BY <1>2, <2>1, <3>1, <3>2 DEF InLog, InArch, Entries
    <3> QED BY <1>2, <1>3, <2>1, <3>1, <3>2, <3>4, <3>5
  <2>2. CASE d.canon = NoFile
    <3>1. /\ HasRoom /\ hand' = NewFile
          /\ ChangeDir([d EXCEPT !.canon = NewFile])
          /\ data' = [data EXCEPT ![NewFile] = <<>>]
      BY <2>2 DEF Open
    <3>2. NewFile \in Files /\ NewFile # d.arch /\ NewFile # NoFile
      BY <1>2, <2>2, <3>1, FreshFile, DirIsListed
    <3>3. [d EXCEPT !.canon = NewFile] = [canon |-> NewFile, arch |-> d.arch]
          /\ [canon |-> NewFile, arch |-> d.arch] \in Dirs
      BY <1>2, <3>2 DEF Dirs, Places
    <3>4. dirs' \in Seq(Dirs) /\ dirs' # <<>> /\ Dir' = [canon |-> NewFile, arch |-> d.arch]
      BY <3>1, <3>3, DirAppended DEF DirsInv
    <3>5. data' \in [Files -> Seq(Seqs)] /\ data'[NewFile] = <<>>
          /\ \A f \in Files \ {NewFile} : data'[f] = data[f]
      BY <3>1, <3>2
    <3>6. Dir'.canon = NewFile /\ Dir'.arch = d.arch   BY <3>4
    <3>7. InLog' = {}   BY <3>2, <3>5, <3>6, SetOfEmpty DEF InLog, Entries
    <3>8. InArch' = {}
      <4>1. CASE d.arch = NoFile   BY <3>6, <4>1 DEF InArch, Entries
      <4>2. CASE d.arch # NoFile
        <5>1. d.arch \in Files \ {NewFile}   BY <1>2, <3>2, <4>2 DEF Places
        <5> QED BY <1>2, <3>5, <3>6, <4>2, <5>1 DEF InArch, Entries
      <4> QED BY <4>1, <4>2
    <3> QED BY <1>2, <2>2, <3>1, <3>2, <3>3, <3>4, <3>5, <3>6, <3>7, <3>8
  <2> QED BY <2>1, <2>2
<1> QED BY <1>2, <1>5, <1>6 DEF Kept, DirsInv

LEMMA OpenStep == ASSUME Inv, Open PROVE Inv' /\ Unchanged
<1>1. at = "down" /\ at' = "replay" /\ buf = <<>>   BY DEF Open, Inv, LogInv
<1>2. DirsInv /\ data \in [Files -> Seq(Seqs)] /\ (InLog = {} \/ InArch = {})
      /\ (Dir.canon # NoFile => Dir.canon # Dir.arch)
  BY DEF Inv, TypeInv, NameInv, DirsInv
<1>6. /\ dirs' \in Seq(Dirs) /\ dirs' # <<>>
      /\ data' \in [Files -> Seq(Seqs)] /\ hand' \in Files
      /\ hand' = Dir'.canon /\ Dir'.canon # Dir'.arch
      /\ InLog' = Kept /\ InArch' = {} /\ Kept' = Kept
      /\ todo' \in Seq(Seqs) /\ ToSet(todo') = Kept /\ next' = StartSeq(todo')
  BY <1>2, OpenKeeps DEF DirsInv
<1>8. TypeInv'   BY <1>1, <1>6 DEF Open, ghost, Inv, TypeInv, Places
<1>9. NameInv'   BY <1>1, <1>6, Constants DEF NameInv
<1>10. LiveInv'   BY <1>1, <1>6 DEF Open, ghost, Inv, LiveInv
<1>11. LogInv'   BY <1>1, <1>6 DEF Open, Inv, LogInv
<1>12. SeqInv'
  <2>1. next' \in Nat /\ \A e \in rows \union Kept : e < next'
    BY <1>6, StartIsAbove DEF Inv
  <2>2. committed' \subseteq rows \union Kept   BY DEF Open, ghost, Inv, LiveInv
  <2> QED BY <1>1, <1>6, <2>1, <2>2 DEF SeqInv
<1> QED BY <1>6, <1>8, <1>9, <1>10, <1>11, <1>12 DEF Inv, Unchanged, Open

-----------------------------------------------------------------------------
(* The invariant, and what it implies. *)

LEMMA InitHolds == Init => Inv /\ Kept = {} /\ rows = {}
<1> SUFFICES ASSUME Init PROVE Inv /\ Kept = {} /\ rows = {}   OBVIOUS
<1>1. Dir = [canon |-> NoFile, arch |-> NoFile]   BY DEF Init, Dir, Last
<1>2. InLog = {} /\ InArch = {} /\ Kept = {}   BY <1>1 DEF InLog, InArch, Kept, Entries
<1>3. dirs \in Seq(Dirs) /\ dirs # <<>>   BY DEF Init, Dirs, Places
<1>4. TypeInv   BY <1>3 DEF Init, TypeInv, Places
<1> QED BY <1>1, <1>2, <1>4 DEF Init, Inv, NameInv, LiveInv, LogInv, SeqInv

\* Each step keeps the invariant, and does to the log what DurableLog allows.
LEMMA StepHolds ==
    ASSUME Inv, Benign, [Next]_vars
    PROVE  Inv' /\ (Unchanged \/ Extended \/ Persisted \/ Truncated)
<1>1. CASE Open   BY <1>1, OpenStep
<1>2. CASE Replay \/ WriteNode   BY <1>2, RowStep
<1>3. CASE Record \/ Checkpoint \/ Crash \/ UNCHANGED vars   BY <1>3, QuietStep
<1>4. CASE Flush   BY <1>4, FlushStep
<1>5. CASE Commit \/ CheckpointSync \/ CreateSync   BY <1>5, SyncStep
<1>6. CASE FsyncFails   BY <1>6 DEF FsyncFails, Benign
<1>7. CASE Rotate   BY <1>7, RotateStep
<1>8. CASE Create   BY <1>8, CreateStep
<1>9. CASE RemoveArchive   BY <1>9, RemoveStep
<1> QED BY <1>1, <1>2, <1>3, <1>4, <1>5, <1>6, <1>7, <1>8, <1>9 DEF Next

\* What may go wrong is settled at the start.
LEMMA FaultsStay == [Next]_vars => faults' = faults
BY DEF Next, vars, env, Open, Replay, Record, Flush, Commit, FsyncFails, WriteNode,
       Checkpoint, CheckpointSync, Rotate, Create, CreateSync, RemoveArchive, Crash

LEMMA Invariance == Spec => []IInv
<1>1. Init => IInv   BY InitHolds DEF IInv
<1>2. IInv /\ [Next]_vars => IInv'
  <2> SUFFICES ASSUME IInv, [Next]_vars, Benign' PROVE Inv'   BY DEF IInv
  <2>1. Benign   BY FaultsStay DEF Benign
  <2> QED BY <2>1, StepHolds DEF IInv
<1> QED BY <1>1, <1>2, PTL DEF Spec

LEMMA KeptIsRecovered == Inv => Recoverable = Kept
BY OpenFinds DEF Inv, TypeInv, NameInv, DirsInv

\* At every point of a rotation, and after a kill at any of them or a rename or
\* creation that failed, what is on the disk replays every entry committed since
\* the log was last emptied (wal.rs, checkpoint and recover_rotated_log).
THEOREM RotationKeepsLog == Spec => []LogSurvives
<1>1. IInv => LogSurvives   BY KeptIsRecovered DEF IInv, LogSurvives, Inv, LiveInv
<1> QED BY <1>1, Invariance, PTL

\* An entry whose commit succeeded has its version node or gets it from the next
\* replay (engine.rs, record_change and open).
THEOREM CommitIsDurable == Spec => []CommittedIsRecovered
<1>1. IInv => CommittedIsRecovered
  BY KeptIsRecovered DEF IInv, CommittedIsRecovered, CommittedAlwaysRecovered, Inv, LiveInv
<1> QED BY <1>1, Invariance, PTL

\* An engine that is open numbers above every committed entry, so a number is
\* never handed out twice (engine.rs, open's new allocator).
THEOREM NumbersAreNew == Spec => []SeqAboveCommitted
<1>1. IInv => SeqAboveCommitted   BY DEF IInv, SeqAboveCommitted, Inv, SeqInv
<1> QED BY <1>1, Invariance, PTL

\* The log with its files, rotations and kills implements DurableLog: to a reader
\* of the log, entries appear in order and go all at once, after they have their
\* nodes (wal.rs, the module as a whole).
THEOREM Refinement == Spec => ImplementsLog
<1> DEFINE log == IF Benign THEN Recoverable ELSE {}
           persisted == IF Benign THEN rows ELSE {}
<1>1. Init => Log!Init
  <2> SUFFICES ASSUME Init PROVE log = {} /\ persisted = {}   BY DEF Log!Init
  <2> QED BY InitHolds, KeptIsRecovered
<1>2. IInv /\ IInv' /\ [Next]_vars => [Log!Next]_<<log, persisted>>
  <2> SUFFICES ASSUME IInv, IInv', [Next]_vars PROVE [Log!Next]_<<log, persisted>>
    OBVIOUS
  <2>1. Benign' <=> Benign   BY FaultsStay DEF Benign
  <2>2. CASE ~Benign   BY <2>1, <2>2
  <2>3. CASE Benign
    <3>1. Recoverable = Kept   BY <2>3, KeptIsRecovered DEF IInv
    <3>2. Inv'   BY <2>1, <2>3 DEF IInv
    <3>3. (Recoverable = Kept)'   BY <3>2, KeptIsRecovered, PTL
    <3>4. log = Kept /\ persisted = rows /\ log' = Kept' /\ persisted' = rows'
      BY <2>1, <2>3, <3>1, <3>3
    <3> HIDE DEF log, persisted
    <3>5. Unchanged \/ Extended \/ Persisted \/ Truncated   BY <2>3, StepHolds DEF IInv
    <3> QED BY <3>4, <3>5
      DEF Unchanged, Extended, Persisted, Truncated, Seqs, Log!Next, Log!Commit, Log!Persist,
          Log!Truncate, log, persisted
  <2> QED BY <2>2, <2>3
<1> QED BY <1>1, <1>2, Invariance, PTL DEF Spec, ImplementsLog, Log!Spec

-----------------------------------------------------------------------------
(* With power failures.  One may cut each file back to what an fsync has    *)
(* covered and the directory back to any state since the last one, so the   *)
(* argument is about the covered frames and about each of these states.     *)
(* While the engine is up the writer's own file covers them all, so the     *)
(* rename that overwrites an archive takes none of them away.               *)

Covered(f) == {data[f][i] : i \in 1..synced[f]}

CoveredIn(d) == UNION {Covered(f) : f \in {d.canon, d.arch} \ {NoFile}}

FileInv ==
    /\ buf \in Seq(Seqs)
    /\ data \in [Files -> Seq(Frames)]
    /\ synced \in [Files -> Nat]
    /\ \A f \in Files : synced[f] <= Len(data[f])
    /\ hand \in Places

\* The writer's file has a name, and what it is about to commit is on its way there.
HandInv ==
    /\ at # "down" => /\ hand # NoFile
                      /\ hand = IF Dir.canon # NoFile THEN Dir.canon ELSE Dir.arch
    /\ at = "ck_create" => Dir.canon = NoFile
    /\ at \in {"ck_sync", "ck_remove"} => Dir.canon # NoFile
    /\ at = "ck_remove" => live = {}
    /\ at = "flush" => Current \in ToSet(buf)
    /\ at = "fsync" => Current \in ToSet(data[hand])

\* However far the directory falls back, it names the committed frames.
CoveredInv == \A d \in ToSet(dirs) : live \subseteq CoveredIn(d)

\* They are in the writer's file, except between a rotation's new log and its fsync.
LiveInHand == at \notin {"down", "ck_sync"} => live \subseteq Covered(hand)

\* These hold whatever fails...
FInv == DirsInv /\ FileInv /\ HandInv

\* ...and these while no fsync of a new log fails.
CInv == CoveredInv /\ LiveInHand
NewLogsAreSynced == "create_fsync" \notin faults


LEMMA CoveredIsHeld ==
    ASSUME FileInv, NEW f \in Files
    PROVE  /\ Covered(f) \subseteq ToSet(data[f])
           /\ synced[f] = Len(data[f]) => Covered(f) = ToSet(data[f])
<1>1. data[f] \in Seq(Frames) /\ synced[f] \in Nat /\ synced[f] <= Len(data[f])
  BY DEF FileInv
<1>2. DOMAIN data[f] = 1..Len(data[f]) /\ Len(data[f]) \in Nat   BY <1>1
<1> QED BY <1>1, <1>2 DEF Covered, ToSet

\* A file keeps its covered frames when it grows, is synced or is cut short.
LEMMA CoveredStays ==
    ASSUME FileInv, NEW f \in Files,
           synced'[f] \in Nat, synced[f] <= synced'[f],
           \A i \in 1..synced[f] : data'[f][i] = data[f][i]
    PROVE  Covered(f) \subseteq Covered(f)'
<1>1. synced[f] \in Nat   BY DEF FileInv
<1>2. \A i \in 1..synced[f] : i \in 1..synced'[f] /\ data'[f][i] = data[f][i]   BY <1>1
<1> QED BY <1>2 DEF Covered

LEMMA CoveredInStays ==
    ASSUME NEW d \in Dirs,
           \A f \in {d.canon, d.arch} \ {NoFile} : Covered(f) \subseteq Covered(f)'
    PROVE  CoveredIn(d) \subseteq CoveredIn(d)'
BY DEF CoveredIn

LEMMA NamedFiles ==
    ASSUME DirsInv, NEW d \in ToSet(dirs)
    PROVE  d \in Dirs /\ {d.canon, d.arch} \ {NoFile} \subseteq Files
<1>1. d \in Dirs   BY DEF DirsInv, ToSet
<1> QED BY <1>1 DEF Dirs, Places

\* Steps that leave the files alone.
LEMMA UntouchedStep ==
    ASSUME FInv, UNCHANGED <<data, synced, dirs, live>>
    PROVE  /\ DirsInv' /\ Dir' = Dir
           /\ CoveredInv => CoveredInv'
           /\ \A f \in Files : Covered(f)' = Covered(f)
<1>1. Dir' = Dir   BY DEF Dir
<1>2. \A d : CoveredIn(d)' = CoveredIn(d)   BY DEF CoveredIn, Covered
<1>3. \A f \in Files : Covered(f)' = Covered(f)   BY DEF Covered
<1> QED BY <1>1, <1>2, <1>3 DEF FInv, DirsInv, CoveredInv

LEMMA FHandIsFile == ASSUME FInv, at # "down" PROVE hand \in Files
BY DEF FInv, FileInv, HandInv, Places

LEMMA FQuiet ==
    ASSUME FInv,
           UNCHANGED vars \/ Replay \/ Record \/ FsyncFails \/ WriteNode \/ Checkpoint
    PROVE  FInv' /\ (NewLogsAreSynced /\ CInv => CInv')
<1>1. /\ UNCHANGED <<hand, data, synced, dirs, live>>
  BY DEF vars, Replay, Record, FsyncFails, WriteNode, Checkpoint, files, ghost
<1>2. /\ DirsInv' /\ Dir' = Dir /\ (CoveredInv => CoveredInv')
      /\ \A f \in Files : Covered(f)' = Covered(f)
  BY <1>1, UntouchedStep
<1>5. ASSUME NewLogsAreSynced, CInv PROVE CInv'
  <2>1. CASE at' \in {"down", "ck_sync"}   BY <1>2, <1>5, <2>1 DEF CInv, LiveInHand
  <2>2. CASE at' \notin {"down", "ck_sync"}
    <3>1. at \notin {"down", "ck_sync"}
      BY <1>5, <2>2
      DEF NewLogsAreSynced, vars, Replay, Record, FsyncFails, WriteNode, Checkpoint
    <3>2. Covered(hand)' = Covered(hand)   BY <1>1, <1>2, <3>1, FHandIsFile
    <3> QED BY <1>1, <1>2, <1>5, <3>1, <3>2 DEF CInv, LiveInHand
  <2> QED BY <2>1, <2>2
<1>3. CASE Record
  <2>1. next \in Seqs /\ buf' = Append(buf, next) /\ Current' = next
    BY <1>3, Constants DEF Record, Current, Seqs
  <2>2. buf' \in Seq(Seqs) /\ next \in ToSet(buf')
    <3>1. buf \in Seq(Seqs)   BY DEF FInv, FileInv
    <3>2. /\ buf' \in Seq(Seqs) /\ Len(buf) + 1 \in 1..Len(buf')
          /\ buf'[Len(buf) + 1] = next
      BY <2>1, <3>1
    <3> QED BY <3>2 DEF ToSet
  <2>3. FileInv'   BY <1>1, <2>2 DEF FInv, FileInv
  <2>4. HandInv'   BY <1>1, <1>2, <1>3, <2>1, <2>2 DEF FInv, HandInv, Record
  <2> QED BY <1>2, <1>5, <2>3, <2>4 DEF FInv
<1>4. CASE ~Record
  <2>1. buf' = buf /\ next' = next /\ Current' = Current
    BY <1>4 DEF vars, Replay, FsyncFails, WriteNode, Checkpoint, Current
  <2>2. FileInv'   BY <1>1, <2>1 DEF FInv, FileInv
  <2>3. HandInv'
    BY <1>1, <1>2, <1>4, <2>1
    DEF FInv, HandInv, vars, Replay, FsyncFails, WriteNode, Checkpoint
  <2> QED BY <1>2, <1>5, <2>2, <2>3 DEF FInv
<1> QED BY <1>3, <1>4

LEMMA FFlush == ASSUME FInv, Flush PROVE FInv' /\ (CInv => CInv')
<1>1. hand \in Files   BY FHandIsFile DEF Flush
<1>2. Current' = Current /\ UNCHANGED <<hand, synced, dirs, live>>
  BY DEF Flush, Current, ghost
<1>3. CASE data' = data /\ buf' = buf /\ at' = "idle"
  <2>1. /\ DirsInv' /\ Dir' = Dir /\ (CoveredInv => CoveredInv')
        /\ Covered(hand)' = Covered(hand)
    BY <1>1, <1>2, <1>3, UntouchedStep
  <2>2. FileInv'   BY <1>2, <1>3 DEF FInv, FileInv
  <2>3. HandInv'   BY <1>2, <1>3, <2>1 DEF FInv, HandInv, Flush
  <2>4. CInv => CInv'   BY <1>2, <2>1 DEF CInv, LiveInHand, Flush
  <2> QED BY <2>1, <2>2, <2>3, <2>4 DEF FInv
<1>4. CASE /\ data' = [data EXCEPT ![hand] = @ \o buf] /\ buf' = <<>>
           /\ at' = IF at = "flush" THEN "fsync" ELSE "ck_fsync"
  <2>1. data[hand] \in Seq(Frames) /\ buf \in Seq(Seqs) /\ buf \in Seq(Frames)
    <3>1. data[hand] \in Seq(Frames) /\ buf \in Seq(Seqs)   BY <1>1 DEF FInv, FileInv
    <3>2. Seqs \subseteq Frames   BY DEF Frames
    <3>3. buf \in Seq(Frames)   BY <3>1, <3>2
    <3> QED BY <3>1, <3>3
  <2>2. data'[hand] = data[hand] \o buf /\ \A f \in Files \ {hand} : data'[f] = data[f]
    BY <1>1, <1>4 DEF FInv, FileInv
  <2>3. /\ data'[hand] \in Seq(Frames) /\ Len(data'[hand]) >= Len(data[hand])
        /\ \A i \in 1..Len(data[hand]) : data'[hand][i] = data[hand][i]
    BY <2>1, <2>2
  <2>4. FileInv'
    <3>1. data' \in [Files -> Seq(Frames)]   BY <1>1, <1>4, <2>2, <2>3 DEF FInv, FileInv
    <3>2. \A f \in Files : synced'[f] <= Len(data'[f])
      <4> SUFFICES ASSUME NEW f \in Files PROVE synced[f] <= Len(data'[f])   BY <1>2
      <4>1. synced[f] \in Nat /\ synced[f] <= Len(data[f]) /\ Len(data[f]) \in Nat
        BY DEF FInv, FileInv
      <4>2. Len(data'[f]) \in Nat   BY <3>1
      <4> QED BY <2>2, <2>3, <4>1, <4>2
    <3> QED BY <1>2, <1>4, <3>1, <3>2 DEF FInv, FileInv
  <2>5. \A f \in Files : Covered(f) \subseteq Covered(f)'
    <3> SUFFICES ASSUME NEW f \in Files PROVE Covered(f) \subseteq Covered(f)'   OBVIOUS
    <3>1. synced[f] \in Nat /\ synced[f] <= Len(data[f]) /\ Len(data[f]) \in Nat
      BY DEF FInv, FileInv
    <3>2. \A i \in 1..synced[f] : data'[f][i] = data[f][i]
      <4>1. CASE f = hand
        <5>1. \A i \in 1..synced[f] : i \in 1..Len(data[hand])   BY <3>1, <4>1
        <5> QED BY <2>3, <4>1, <5>1
      <4>2. CASE f # hand   BY <2>2, <4>2
      <4> QED BY <4>1, <4>2
    <3> QED BY <1>2, <3>1, <3>2, CoveredStays DEF FInv
  <2>6. Dir' = Dir /\ DirsInv'   BY <1>2 DEF Dir, FInv, DirsInv
  <2>7. ASSUME CInv PROVE CInv'
    <3>1. ASSUME NEW d \in ToSet(dirs) PROVE live \subseteq CoveredIn(d)'
      <4>1. CoveredIn(d) \subseteq CoveredIn(d)'   BY <2>5, NamedFiles, CoveredInStays DEF FInv
      <4> QED BY <2>7, <4>1 DEF CInv, CoveredInv
    <3>2. Covered(hand) \subseteq Covered(hand)'   BY <1>1, <1>2, <2>5
    <3> QED BY <1>2, <2>7, <3>1, <3>2 DEF CInv, CoveredInv, LiveInHand, Flush
  <2>8. at = "flush" => Current \in ToSet(data'[hand])
    BY <2>1, <2>2, SetOfConcat DEF FInv, HandInv
  <2>9. HandInv'   BY <1>2, <1>4, <2>6, <2>8 DEF FInv, HandInv, Flush
  <2> QED BY <2>4, <2>6, <2>7, <2>9 DEF FInv
<1> QED BY <1>3, <1>4 DEF Flush

\* An fsync of the writer's file covers all of it, and the directory.
LEMMA FSynced ==
    ASSUME FInv, hand \in Files, SyncFile(hand, data[hand]), hand' = hand, buf' = buf
    PROVE  /\ DirsInv' /\ FileInv' /\ Dir' = Dir /\ ToSet(dirs') = {Dir} /\ data' = data
           /\ CoveredIn(Dir) \subseteq CoveredIn(Dir)'
           /\ Covered(hand)' = ToSet(data[hand])
<1>1. data' = data /\ dirs' = <<Dir>>   BY DEF SyncFile, FInv, FileInv
<1>2. DirsInv' /\ Dir' = Dir /\ ToSet(dirs') = {Dir}   BY <1>1, DirCovered DEF FInv
<1>3. /\ synced' \in [Files -> Nat] /\ synced'[hand] = Len(data[hand])
      /\ \A f \in Files : synced[f] <= synced'[f] /\ synced'[f] <= Len(data[f])
  <2>1. data[hand] \in Seq(Frames) /\ Len(data[hand]) \in Nat   BY DEF FInv, FileInv
  <2> QED BY <2>1 DEF SyncFile, FInv, FileInv
<1>4. FileInv'   BY <1>1, <1>3 DEF FInv, FileInv
<1>5. \A f \in Files : Covered(f) \subseteq Covered(f)'
  BY <1>1, <1>3, CoveredStays DEF FInv
<1>6. CoveredIn(Dir) \subseteq CoveredIn(Dir)'
  <2> DEFINE d == Dir
  <2>1. d \in Dirs /\ {d.canon, d.arch} \ {NoFile} \subseteq Files
    BY DirIsListed, NamedFiles DEF FInv
  <2>2. d' = d   BY <1>2
  <2> QED BY <1>5, <2>1, <2>2 DEF CoveredIn
<1>7. Covered(hand)' = ToSet(data[hand])
  <2>1. data[hand] \in Seq(Frames)   BY DEF FInv, FileInv
  <2>2. DOMAIN data[hand] = 1..Len(data[hand])   BY <2>1
  <2> QED BY <1>1, <1>3, <2>2 DEF Covered, ToSet
<1> QED BY <1>1, <1>2, <1>4, <1>6, <1>7

LEMMA FSync ==
    ASSUME FInv, Commit \/ CheckpointSync \/ CreateSync
    PROVE  FInv' /\ (CInv => CInv')
<1>1. hand \in Files   BY FHandIsFile DEF Commit, CheckpointSync, CreateSync
<1>2. SyncFile(hand, data[hand]) /\ UNCHANGED <<next, hand, buf>>
  BY DEF Commit, CheckpointSync, CreateSync
<1>3. /\ DirsInv' /\ FileInv' /\ Dir' = Dir /\ ToSet(dirs') = {Dir} /\ data' = data
      /\ CoveredIn(Dir) \subseteq CoveredIn(Dir)'
      /\ Covered(hand)' = ToSet(data[hand])
  BY <1>1, <1>2, FSynced
<1>4. HandInv'
  BY <1>2, <1>3 DEF FInv, HandInv, Commit, CheckpointSync, CreateSync, Current, ghost
<1>5. ASSUME CInv PROVE CInv'
  <2>4. live \subseteq CoveredIn(Dir)'   BY <1>3, <1>5, DirIsListed DEF FInv, CInv, CoveredInv
  <2>5. Covered(hand) \subseteq Covered(hand)'
    BY <1>1, <1>3, CoveredIsHeld DEF FInv
  <2>1. CASE Commit
    <3>1. hand \in {Dir.canon, Dir.arch} \ {NoFile}   BY <2>1 DEF Commit, FInv, HandInv
    <3>2. Current \in ToSet(data[hand])   BY <2>1 DEF Commit, FInv, HandInv
    <3>3. Covered(hand)' \subseteq CoveredIn(Dir)'   BY <1>2, <1>3, <3>1 DEF CoveredIn
    <3>4. live' = live \union {Current}   BY <2>1 DEF Commit
    <3>5. live' \subseteq CoveredIn(Dir)'   BY <1>3, <2>4, <3>2, <3>3, <3>4
    <3>6. live \subseteq Covered(hand)   BY <1>5, <2>1 DEF CInv, LiveInHand, Commit
    <3>7. live' \subseteq Covered(hand)'   BY <1>3, <2>5, <3>2, <3>4, <3>6
    <3> QED BY <1>3, <3>5, <3>7 DEF CInv, CoveredInv, LiveInHand
  <2>2. CASE CheckpointSync
    <3>1. live' = live /\ live \subseteq Covered(hand)
      BY <1>5, <2>2 DEF CInv, LiveInHand, CheckpointSync, ghost
    <3> QED BY <1>3, <2>4, <2>5, <3>1 DEF CInv, CoveredInv, LiveInHand
  <2>3. CASE CreateSync   BY <2>3 DEF CreateSync, CInv, CoveredInv, LiveInHand
  <2> QED BY <2>1, <2>2, <2>3
<1> QED BY <1>3, <1>4, <1>5 DEF FInv

LEMMA FRotate == ASSUME FInv, Rotate PROVE FInv' /\ (CInv => CInv')
<1>1. UNCHANGED <<next, buf, hand, data, synced, live>> /\ at = "ck_rename"
  BY DEF Rotate, ghost
<1>2. Dir \in Dirs /\ Dir \in ToSet(dirs) /\ Dir.canon \in Places /\ Dir.arch \in Places
  BY DirIsListed DEF FInv, Dirs
<1>3. FileInv'   BY <1>1 DEF FInv, FileInv
<1>4. /\ \A d : CoveredIn(d)' = CoveredIn(d)
      /\ \A f : Covered(f)' = Covered(f)
  BY <1>1 DEF CoveredIn, Covered
<1>9. CInv => live \subseteq Covered(hand) /\ LiveInHand'
  BY <1>1, <1>4 DEF CInv, LiveInHand
<1>5. ASSUME dirs' = dirs, at' \in {"idle", "ck_create"},
             at' = "ck_create" => Dir.canon = NoFile
      PROVE  FInv' /\ (CInv => CInv')
  <2>1. DirsInv' /\ Dir' = Dir /\ (CoveredInv => CoveredInv')
    BY <1>1, <1>5, UntouchedStep
  <2>2. HandInv'   BY <1>1, <1>5, <2>1 DEF FInv, HandInv
  <2> QED BY <1>3, <1>9, <2>1, <2>2 DEF FInv, CInv
<1>6. CASE Dir.canon # NoFile /\ at' = "ck_create"
  <2>2. PICK d \in Dirs : d = [canon |-> NoFile, arch |-> Dir.canon]
    BY <1>2 DEF Dirs, Places
  <2>1. ChangeDir(d)   BY <1>6, <2>2 DEF Rotate
  <2>3. DirsInv' /\ Dir' = d /\ ToSet(dirs') = ToSet(dirs) \union {d}
    BY <2>1, <2>2, DirAppended DEF FInv
  <2>6. hand = Dir.canon   BY <1>1, <1>6 DEF FInv, HandInv
  <2>4. HandInv'   BY <1>1, <1>6, <2>2, <2>3, <2>6 DEF HandInv
  <2>7. ASSUME CInv PROVE CInv'
    <3>1. CoveredIn(d) = Covered(hand)   BY <1>6, <2>2, <2>6 DEF CoveredIn
    <3>2. ASSUME NEW e \in ToSet(dirs') PROVE live \subseteq CoveredIn(e)'
      <4>1. CASE e \in ToSet(dirs)   BY <1>4, <2>7, <4>1 DEF CInv, CoveredInv
      <4>2. CASE e = d   BY <1>4, <1>9, <2>7, <3>1, <4>2
      <4> QED BY <2>3, <4>1, <4>2
    <3> QED BY <1>1, <1>9, <2>7, <3>2 DEF CInv, CoveredInv
  <2> QED BY <1>3, <2>3, <2>4, <2>7 DEF FInv
<1>7. CASE Dir.canon = NoFile /\ at' = "ck_create"
  <2>1. dirs' = dirs   BY <1>7 DEF Rotate
  <2> QED BY <1>5, <1>7, <2>1
<1>8. CASE at' # "ck_create"
  <2>1. dirs' = dirs /\ at' = "idle"   BY <1>8 DEF Rotate
  <2> QED BY <1>5, <2>1
<1> QED BY <1>6, <1>7, <1>8

\* A new empty log beside an archive, by Create or by Open.
LEMMA FNewLog ==
    ASSUME FInv, HasRoom, Dir.canon = NoFile, buf' = buf, live' = live,
           ChangeDir([Dir EXCEPT !.canon = NewFile]),
           data' = [data EXCEPT ![NewFile] = <<>>],
           synced' = [synced EXCEPT ![NewFile] = 0],
           hand' = NewFile
    PROVE  /\ DirsInv' /\ FileInv' /\ (CoveredInv => CoveredInv')
           /\ Dir'.canon = hand' /\ hand' # NoFile
<1>1. Dir \in Dirs /\ Dir \in ToSet(dirs) /\ Dir.arch \in Places
  BY DirIsListed DEF FInv, Dirs
<1>2. /\ NewFile \in Files /\ NewFile # NoFile
      /\ \A e \in ToSet(dirs) : NewFile # e.canon /\ NewFile # e.arch
  BY FreshFile
<1>3. PICK d \in Dirs : d = [Dir EXCEPT !.canon = NewFile]
  BY <1>1, <1>2 DEF Dirs, Places
<1>11. d.canon = NewFile /\ d.arch = Dir.arch   BY <1>1, <1>3 DEF Dirs
<1>4. DirsInv' /\ Dir' = d /\ ToSet(dirs') = ToSet(dirs) \union {d}
  BY <1>3, DirAppended DEF FInv
<1>5. /\ data'[NewFile] = <<>> /\ synced'[NewFile] = 0
      /\ \A f \in Files \ {NewFile} : data'[f] = data[f] /\ synced'[f] = synced[f]
  BY <1>2 DEF FInv, FileInv
<1>6. FileInv'
  <2>1. <<>> \in Seq(Frames) /\ Len(<<>>) = 0   OBVIOUS
  <2>2. data' \in [Files -> Seq(Frames)]   BY <1>2, <2>1 DEF FInv, FileInv
  <2>3. synced' \in [Files -> Nat]   BY <1>2 DEF FInv, FileInv
  <2>4. \A f \in Files : synced'[f] <= Len(data'[f])
    BY <1>5, <2>1 DEF FInv, FileInv
  <2> QED BY <1>2, <2>2, <2>3, <2>4 DEF FInv, FileInv, Places
<1>7. \A f \in Files \ {NewFile} : Covered(f)' = Covered(f)   BY <1>5 DEF Covered
<1>8. ASSUME CoveredInv, NEW e \in ToSet(dirs) PROVE live \subseteq CoveredIn(e)'
  <2>1. {e.canon, e.arch} \ {NoFile} \subseteq Files \ {NewFile}
    BY <1>2, NamedFiles DEF FInv
  <2>2. CoveredIn(e)' = CoveredIn(e)   BY <1>7, <2>1 DEF CoveredIn
  <2> QED BY <1>8, <2>2 DEF CoveredInv
<1>9. ASSUME CoveredInv PROVE live \subseteq CoveredIn(d)'
  <2>1. live \subseteq CoveredIn(Dir)   BY <1>1, <1>9 DEF CoveredInv
  <2>2. CASE Dir.arch = NoFile
    <3>1. CoveredIn(Dir) = {}   BY <2>2 DEF CoveredIn
    <3> QED BY <2>1, <3>1
  <2>3. CASE Dir.arch # NoFile
    <3>1. CoveredIn(Dir) = Covered(Dir.arch)   BY <2>3 DEF CoveredIn
    <3>2. Dir.arch \in Files \ {NewFile}   BY <1>1, <1>2, <2>3 DEF Places
    <3>3. \A f \in Files : f = d.arch /\ f # NoFile => Covered(f)' \subseteq CoveredIn(d)'
      BY DEF CoveredIn
    <3> QED BY <1>7, <1>11, <2>1, <2>3, <3>1, <3>2, <3>3
  <2> QED BY <2>2, <2>3
<1>10. ASSUME CoveredInv PROVE CoveredInv'
  <2> SUFFICES ASSUME NEW e \in ToSet(dirs') PROVE live \subseteq CoveredIn(e)'
    BY DEF CoveredInv
  <2> QED BY <1>4, <1>8, <1>9, <1>10
<1> QED BY <1>2, <1>4, <1>6, <1>10, <1>11

LEMMA FCreate == ASSUME FInv, Create PROVE FInv' /\ (CInv => CInv')
<1>1. at = "ck_create" /\ Dir.canon = NoFile /\ live' = live /\ buf' = buf
      /\ Current' = Current
  BY DEF Create, FInv, HandInv, ghost, Current
<1>2. CASE at' = "ck_sync"
  <2>1. /\ DirsInv' /\ FileInv' /\ (CoveredInv => CoveredInv')
        /\ Dir'.canon = hand' /\ hand' # NoFile
    BY <1>1, <1>2, FNewLog DEF Create
  <2>2. HandInv'   BY <1>1, <1>2, <2>1 DEF HandInv
  <2> QED BY <1>2, <2>1, <2>2 DEF FInv, CInv, LiveInHand
<1>3. CASE at' = "idle"
  <2>1. UNCHANGED <<hand, data, synced, dirs, live>>   BY <1>1, <1>3 DEF Create, files
  <2>2. /\ DirsInv' /\ Dir' = Dir /\ (CoveredInv => CoveredInv')
        /\ Covered(hand)' = Covered(hand)
    BY <1>1, <2>1, UntouchedStep, FHandIsFile
  <2>3. FileInv'   BY <1>1, <2>1 DEF FInv, FileInv
  <2>4. HandInv'   BY <1>1, <1>3, <2>1, <2>2 DEF FInv, HandInv
  <2> QED BY <1>1, <2>1, <2>2, <2>3, <2>4 DEF FInv, CInv, LiveInHand
<1> QED BY <1>2, <1>3 DEF Create

LEMMA FRemove == ASSUME FInv, RemoveArchive PROVE FInv' /\ (CInv => CInv')
<1>1. /\ at = "ck_remove" /\ at' = "idle" /\ Dir.canon # NoFile /\ live = {}
      /\ UNCHANGED <<hand, buf, data, synced, live>>
  BY DEF RemoveArchive, FInv, HandInv, ghost
<1>2. FileInv'   BY <1>1 DEF FInv, FileInv
<1>3. CInv'   BY <1>1 DEF CInv, CoveredInv, LiveInHand
<1>4. DirsInv' /\ Dir'.canon = Dir.canon
  <2>1. CASE dirs' = dirs   BY <2>1 DEF FInv, DirsInv, Dir
  <2>2. CASE ChangeDir([Dir EXCEPT !.arch = NoFile])
    <3>1. Dir \in Dirs   BY DirIsListed DEF FInv
    <3>2. [Dir EXCEPT !.arch = NoFile] = [canon |-> Dir.canon, arch |-> NoFile]
          /\ [canon |-> Dir.canon, arch |-> NoFile] \in Dirs
      BY <3>1 DEF Dirs, Places
    <3>3. DirsInv' /\ Dir' = [canon |-> Dir.canon, arch |-> NoFile]
      BY <2>2, <3>2, DirAppended DEF FInv
    <3> QED BY <3>3
  <2> QED BY <2>1, <2>2 DEF RemoveArchive
<1>5. HandInv'   BY <1>1, <1>4 DEF FInv, HandInv
<1> QED BY <1>2, <1>3, <1>4, <1>5 DEF FInv

\* Open drops at most the name of an empty log.
LEMMA FOpen == ASSUME FInv, Open PROVE FInv' /\ (CInv => CInv')
<1>1. at = "down" /\ at' = "replay" /\ buf' = buf /\ live' = live
  BY DEF Open, ghost
<1>2. Dir \in Dirs /\ Dir \in ToSet(dirs) /\ Dir.canon \in Places /\ Dir.arch \in Places
  BY DirIsListed DEF FInv, Dirs
<1>3. PICK d \in Dirs : d = Restored(Dir)   BY <1>2 DEF Restored, Dirs, Places
<1>4. CASE d.canon # NoFile
  <2>1. hand' = d.canon /\ UNCHANGED <<data, synced>>
        /\ IF d # Dir THEN ChangeDir(d) ELSE UNCHANGED dirs
    BY <1>3, <1>4 DEF Open
  <2>2. FileInv'   BY <1>1, <2>1 DEF FInv, FileInv, Dirs
  <2>3. DirsInv' /\ Dir' = d /\ ToSet(dirs') \subseteq ToSet(dirs) \union {d}
    <3>1. CASE d # Dir   BY <2>1, <3>1, DirAppended DEF FInv
    <3>2. CASE d = Dir   BY <2>1, <3>2 DEF FInv, DirsInv, Dir
    <3> QED BY <3>1, <3>2
  <2>4. \A f \in Files : ~Full(f) => Covered(f) = {}
    <3> SUFFICES ASSUME NEW f \in Files, ~Full(f) PROVE Covered(f) = {}   OBVIOUS
    <3>1. data[f] = <<>>   BY Constants DEF Full
    <3>2. ToSet(data[f]) = {}   BY <3>1, SetOfEmpty
    <3> QED BY <3>2, CoveredIsHeld DEF FInv
  <2>5. ASSUME CInv PROVE live \subseteq Covered(d.canon) /\ live \subseteq CoveredIn(d)
    <3>1. live \subseteq CoveredIn(Dir)   BY <1>2, <2>5 DEF CInv, CoveredInv
    <3>2. Covered(d.canon) \subseteq CoveredIn(d)   BY <1>4 DEF CoveredIn
    <3>3. CASE d = Dir
      <4>1. ~Full(Dir.arch)   BY <1>3, <1>4, <3>3 DEF Open, Ambiguous, Restored, Full
      <4>2. Dir.arch # NoFile => Covered(Dir.arch) = {}   BY <1>2, <2>4, <4>1 DEF Places
      <4>3. CoveredIn(Dir) \subseteq Covered(Dir.canon)   BY <4>2 DEF CoveredIn
      <4> QED BY <3>1, <3>2, <3>3, <4>3
    <3>4. CASE d # Dir
      <4>1. Full(Dir.arch) /\ ~Full(Dir.canon) /\ d = [canon |-> Dir.arch, arch |-> NoFile]
        BY <1>3, <3>4 DEF Restored
      <4>2. Dir.canon # NoFile => Covered(Dir.canon) = {}   BY <1>2, <2>4, <4>1 DEF Places
      <4>3. CoveredIn(Dir) \subseteq Covered(Dir.arch)   BY <4>2 DEF CoveredIn
      <4> QED BY <3>1, <3>2, <4>1, <4>3
    <3> QED BY <3>3, <3>4
  <2>7. ASSUME CInv PROVE CInv'
    <3>1. /\ \A e : CoveredIn(e)' = CoveredIn(e)
          /\ \A f : Covered(f)' = Covered(f)
      BY <2>1 DEF CoveredIn, Covered
    <3>2. ASSUME NEW e \in ToSet(dirs') PROVE live \subseteq CoveredIn(e)'
      <4>1. CASE e \in ToSet(dirs)   BY <2>7, <3>1, <4>1 DEF CInv, CoveredInv
      <4>2. CASE e = d   BY <2>5, <2>7, <3>1, <4>2
      <4> QED BY <2>3, <4>1, <4>2
    <3>3. Covered(hand)' = Covered(d.canon)   BY <2>1 DEF Covered
    <3> QED BY <1>1, <2>5, <2>7, <3>2, <3>3 DEF CInv, CoveredInv, LiveInHand
  <2>6. HandInv'   BY <1>1, <1>4, <2>1, <2>3 DEF HandInv
  <2> QED BY <2>2, <2>3, <2>6, <2>7 DEF FInv
<1>5. CASE d.canon = NoFile
  <2>1. d = Dir /\ ~Full(Dir.arch)
    <3>1. ~(Full(Dir.arch) /\ ~Full(Dir.canon))
      <4> SUFFICES ASSUME Full(Dir.arch), ~Full(Dir.canon) PROVE FALSE   OBVIOUS
      <4>1. d = [canon |-> Dir.arch, arch |-> NoFile]   BY <1>3 DEF Restored
      <4> QED BY <1>5, <4>1 DEF Full
    <3>2. d = Dir   BY <1>3, <3>1 DEF Restored
    <3> QED BY <1>5, <3>1, <3>2 DEF Full
  <2>2. /\ HasRoom /\ hand' = NewFile
        /\ ChangeDir([Dir EXCEPT !.canon = NewFile])
        /\ data' = [data EXCEPT ![NewFile] = <<>>]
        /\ synced' = [synced EXCEPT ![NewFile] = 0]
    BY <1>3, <1>5, <2>1 DEF Open
  <2>3. /\ DirsInv' /\ FileInv' /\ (CoveredInv => CoveredInv')
        /\ Dir'.canon = hand' /\ hand' # NoFile
    BY <1>1, <1>5, <2>1, <2>2, FNewLog
  <2>4. HandInv'   BY <1>1, <2>3 DEF HandInv
  <2>5. CInv => live = {}
    <3> SUFFICES ASSUME CInv PROVE CoveredIn(Dir) = {}   BY <1>2 DEF CInv, CoveredInv
    <3>1. CASE Dir.arch = NoFile   BY <1>5, <2>1, <3>1 DEF CoveredIn
    <3>2. CASE Dir.arch # NoFile
      <4>1. Dir.arch \in Files /\ data[Dir.arch] = <<>>
        BY <1>2, <2>1, <3>2 DEF Full, Places
      <4>2. Covered(Dir.arch) = {}   BY <4>1, SetOfEmpty, CoveredIsHeld DEF FInv
      <4> QED BY <1>5, <2>1, <4>2 DEF CoveredIn
    <3> QED BY <3>1, <3>2
  <2> QED BY <1>1, <2>3, <2>4, <2>5 DEF FInv, CInv, LiveInHand
<1> QED BY <1>4, <1>5

\* What a power failure leaves of a file begins with its covered frames.
LEMMA RemainsCover ==
    ASSUME FInv, NEW f \in Files, NEW g \in Remains(f)
    PROVE  /\ g \in Seq(Frames) /\ synced[f] <= Len(g)
           /\ \A i \in 1..synced[f] : g[i] = data[f][i]
<1>1. data[f] \in Seq(Frames) /\ synced[f] \in Nat /\ synced[f] <= Len(data[f])
      /\ Len(data[f]) \in Nat
  BY DEF FInv, FileInv
<1>2. \A n \in synced[f]..Len(data[f]) :
        /\ SubSeq(data[f], 1, n) \in Seq(Frames) /\ Len(SubSeq(data[f], 1, n)) = n
        /\ \A i \in 1..n : SubSeq(data[f], 1, n)[i] = data[f][i]
  BY <1>1
<1>3. CASE \E n \in synced[f]..Len(data[f]) : g = SubSeq(data[f], 1, n)
  BY <1>1, <1>2, <1>3
<1>4. CASE \E n \in synced[f]..(Len(data[f]) - 1) : g = SubSeq(data[f], 1, n) \o <<Torn>>
  <2>1. PICK n \in synced[f]..(Len(data[f]) - 1) : g = SubSeq(data[f], 1, n) \o <<Torn>>
    BY <1>4
  <2> DEFINE h == SubSeq(data[f], 1, n)
  <2>2. h \in Seq(Frames) /\ Len(h) = n /\ \A i \in 1..n : h[i] = data[f][i]
    BY <1>1, <1>2, <2>1
  <2>3. <<Torn>> \in Seq(Frames)   BY DEF Frames
  <2> HIDE DEF h
  <2>4. /\ h \o <<Torn>> \in Seq(Frames) /\ Len(h \o <<Torn>>) = n + 1
        /\ \A i \in 1..n : (h \o <<Torn>>)[i] = h[i]
    BY <2>2, <2>3
  <2> QED BY <1>1, <2>1, <2>2, <2>4 DEF h
<1> QED BY <1>3, <1>4 DEF Remains

LEMMA FCrash == ASSUME FInv, Crash PROVE FInv' /\ (CInv => CInv')
<1>1. at' = "down" /\ buf' = <<>> /\ hand' = NoFile /\ live' = live
  BY DEF Crash, ghost
<1>2. HandInv' /\ LiveInHand'   BY <1>1 DEF HandInv, LiveInHand
<1>3. CASE "power" \notin faults
  <2>1. UNCHANGED <<data, synced, dirs>>   BY <1>3 DEF Crash
  <2>2. DirsInv' /\ (CoveredInv => CoveredInv')   BY <1>1, <2>1, UntouchedStep
  <2>3. FileInv'   BY <1>1, <2>1 DEF FInv, FileInv, Places
  <2> QED BY <1>2, <2>2, <2>3 DEF FInv, CInv
<1>4. CASE "power" \in faults
  <2>1. PICK d \in ToSet(dirs) : dirs' = <<d>>   BY <1>4 DEF Crash
  <2>2. /\ data' \in [Files -> UNION {Remains(f) : f \in Files}]
        /\ \A f \in Files : data'[f] \in Remains(f)
        /\ synced' = [f \in Files |-> Len(data'[f])]
    BY <1>4 DEF Crash
  <2>3. d \in Dirs /\ {d.canon, d.arch} \ {NoFile} \subseteq Files   BY NamedFiles DEF FInv
  <2>4. DirsInv' /\ ToSet(dirs') = {d}
    <3>1. dirs' \in Seq(Dirs) /\ Len(dirs') = 1 /\ dirs'[1] = d   BY <2>1, <2>3
    <3> QED BY <3>1 DEF DirsInv, ToSet
  <2>5. \A f \in Files : /\ data'[f] \in Seq(Frames) /\ synced[f] <= Len(data'[f])
                         /\ \A i \in 1..synced[f] : data'[f][i] = data[f][i]
    BY <2>2, RemainsCover
  <2>6. \A f \in Files : synced'[f] = Len(data'[f]) /\ Len(data'[f]) \in Nat   BY <2>2, <2>5
  <2>7. FileInv'
    <3>1. data' \in [Files -> Seq(Frames)]   BY <2>2, <2>5
    <3>2. synced' \in [Files -> Nat]   BY <2>2, <2>6
    <3> QED BY <1>1, <2>6, <3>1, <3>2 DEF FileInv, Places
  <2>8. \A f \in Files : Covered(f) \subseteq Covered(f)'
    BY <2>5, <2>6, CoveredStays DEF FInv
  <2>9. CoveredIn(d) \subseteq CoveredIn(d)'   BY <2>3, <2>8, CoveredInStays
  <2>10. CoveredInv => CoveredInv'   BY <1>1, <2>4, <2>9 DEF CoveredInv
  <2> QED BY <1>2, <2>4, <2>7, <2>10 DEF FInv, CInv
<1> QED BY <1>3, <1>4

LEMMA FStep ==
    ASSUME FInv, [Next]_vars
    PROVE  FInv' /\ (NewLogsAreSynced /\ CInv => CInv')
BY FQuiet, FFlush, FSync, FRotate, FCreate, FRemove, FOpen, FCrash DEF Next

LEMMA FInit == Init => FInv /\ CInv
<1> SUFFICES ASSUME Init PROVE FInv /\ CInv   OBVIOUS
<1>1. DirsInv   BY DEF Init, DirsInv, Dirs, Places
<1>2. FileInv   BY DEF Init, FileInv, Places
<1>3. HandInv /\ CInv   BY DEF Init, HandInv, CInv, CoveredInv, LiveInHand
<1> QED BY <1>1, <1>2, <1>3 DEF FInv

LEMMA FInvariance == Spec => [](FInv /\ (NewLogsAreSynced => CInv))
<1>1. Init => FInv /\ (NewLogsAreSynced => CInv)   BY FInit
<1>2. FInv /\ (NewLogsAreSynced => CInv) /\ [Next]_vars
        => (FInv /\ (NewLogsAreSynced => CInv))'
  BY FStep, FaultsStay DEF NewLogsAreSynced
<1> QED BY <1>1, <1>2, PTL DEF Spec

\* Wherever the power goes and whatever else fails, as long as each new log is synced
\* the frame of every entry committed since the last rotation is in the log or in its
\* archive (wal.rs: checkpoint, recover_rotated_log, and the handle that stays on the
\* old file when create fails).
THEOREM FramesStay == Spec => []LogKeepsFrames
<1>1. FInv /\ (NewLogsAreSynced => CInv) => LogKeepsFrames
  <2> SUFFICES ASSUME FInv, NewLogsAreSynced, CInv PROVE live \subseteq Held
    BY DEF LogKeepsFrames, NewLogsAreSynced
  <2>1. Dir \in ToSet(dirs) /\ {Dir.canon, Dir.arch} \ {NoFile} \subseteq Files
    BY DirIsListed, NamedFiles DEF FInv
  <2>2. \A f \in Files : Covered(f) \subseteq ToSet(data[f])   BY CoveredIsHeld DEF FInv
  <2> QED BY <2>1, <2>2 DEF CInv, CoveredInv, CoveredIn, Held
<1> QED BY <1>1, FInvariance, PTL

-----------------------------------------------------------------------------
(* Kills, and whatever fails of a rotation.  An archive that was not        *)
(* removed, or not covered by a log that was synced, is overwritten by the  *)
(* next rename.  It is spared when one of its entries may lack a node:      *)
(* only between a commit and its row, and between a kill and the end of the *)
(* replay, which no rename can come between.                                *)

RInv ==
    /\ data \in [Files -> Seq(Seqs)] /\ todo \in Seq(Seqs)
    /\ at \notin {"down", "replay", "row"} => committed \subseteq rows
    /\ at = "row" => committed \subseteq rows \union {Current}
    /\ at = "replay" => committed \subseteq rows \union ToSet(todo)
    /\ committed \subseteq rows \union Kept

OnlyRotationsFail == faults \intersect {"power", "row"} = {}

LEMMA HeldIsKept == Held = Kept
BY DEF Held, Kept, InLog, InArch, Entries

\* The steps that leave the files as they are.
LEMMA RUntouched ==
    ASSUME FInv, RInv, OnlyRotationsFail,
           \/ UNCHANGED vars \/ Replay \/ Record \/ FsyncFails \/ WriteNode \/ Checkpoint
           \/ Crash \/ Commit \/ CheckpointSync \/ CreateSync
    PROVE  RInv'
<1>1. data' = data /\ Dir' = Dir
  <2>1. CASE UNCHANGED <<data, dirs>>   BY <2>1 DEF Dir
  <2>2. CASE Commit \/ CheckpointSync \/ CreateSync
    <3>1. hand \in Files /\ hand' = hand /\ buf' = buf /\ SyncFile(hand, data[hand])
      BY <2>2, FHandIsFile DEF Commit, CheckpointSync, CreateSync
    <3> QED BY <3>1, FSynced
  <2> QED BY <2>1, <2>2
    DEF vars, Replay, Record, FsyncFails, WriteNode, Checkpoint, Crash, files,
        OnlyRotationsFail
<1>2. Kept' = Kept   BY <1>1, FilesSame
<1>3. CASE Replay
  <2>1. CASE todo = <<>>
    BY <1>1, <1>2, <1>3, <2>1, SetOfEmpty DEF Replay, RInv, ghost
  <2>2. CASE todo # <<>>
    <3>1. /\ Tail(todo) \in Seq(Seqs)
          /\ ToSet(todo) \subseteq {Head(todo)} \union ToSet(Tail(todo))
      BY <2>2, SetOfSeq DEF RInv
    <3> QED BY <1>1, <1>2, <1>3, <2>2, <3>1 DEF Replay, RInv, ghost
  <2> QED BY <2>1, <2>2
<1>4. CASE Commit
  <2>1. Current' = Current /\ committed' = committed \union {Current} /\ at' = "row"
        /\ rows' = rows /\ todo' = todo /\ at = "fsync"
    BY <1>4 DEF Commit, Current
  <2>2. Current \in Kept
    <3>1. Current \in ToSet(data[hand]) /\ hand \in {Dir.canon, Dir.arch} \ {NoFile}
      BY <2>1 DEF FInv, HandInv
    <3> QED BY <3>1 DEF Kept, InLog, InArch, Entries
  <2> QED BY <1>1, <1>2, <2>1, <2>2 DEF RInv
<1>5. CASE WriteNode
  <2>1. rows' = rows \union {Current} /\ at' = "idle" /\ at = "row" /\ committed' = committed
        /\ todo' = todo
    BY <1>5 DEF WriteNode, OnlyRotationsFail, ghost
  <2> QED BY <1>1, <1>2, <2>1 DEF RInv
<1>6. CASE Crash
  BY <1>1, <1>2, <1>6 DEF Crash, RInv, ghost
<1>7. CASE Record \/ FsyncFails \/ Checkpoint \/ CheckpointSync \/ CreateSync
  <2>1. /\ committed' = committed /\ rows' = rows /\ todo' = todo
        /\ {at, at'} \intersect {"down", "replay", "row"} = {}
    BY <1>7 DEF Record, FsyncFails, Checkpoint, CheckpointSync, CreateSync, ghost
  <2> QED BY <1>1, <1>2, <2>1 DEF RInv
<1>8. CASE UNCHANGED vars   BY <1>1, <1>2, <1>8 DEF vars, RInv, Current
<1> QED BY <1>3, <1>4, <1>5, <1>6, <1>7, <1>8

\* The steps that write, name or drop a file when every entry has its node.
LEMMA RFiles ==
    ASSUME FInv, RInv, Flush \/ Rotate \/ Create \/ RemoveArchive
    PROVE  RInv'
<1>1. /\ committed' = committed /\ rows' = rows /\ todo' = todo
      /\ at \notin {"down", "replay", "row"} /\ at' \notin {"down", "replay", "row"}
  BY DEF Flush, Rotate, Create, RemoveArchive, ghost
<1>2. data' \in [Files -> Seq(Seqs)]
  <2>1. CASE data' = data   BY <2>1 DEF RInv
  <2>2. CASE Flush /\ data' = [data EXCEPT ![hand] = @ \o buf]
    <3>1. hand \in Files /\ buf \in Seq(Seqs)   BY <1>1, FHandIsFile DEF FInv, FileInv
    <3>2. data[hand] \o buf \in Seq(Seqs)   BY <3>1, SetOfConcat DEF RInv
    <3> QED BY <2>2, <3>1, <3>2 DEF RInv
  <2>3. CASE data' = [data EXCEPT ![NewFile] = <<>>]
    <3>1. <<>> \in Seq(Seqs)   OBVIOUS
    <3> QED BY <2>3, <3>1 DEF RInv
  <2> QED BY <2>1, <2>2, <2>3 DEF Flush, Rotate, Create, RemoveArchive, files
<1> QED BY <1>1, <1>2 DEF RInv

\* Open reads all there is, as no frame is torn.
LEMMA ROpen == ASSUME FInv, RInv, Open PROVE RInv'
<1>1. InLog = {} \/ InArch = {}
  <2>1. Dir.canon \in Places /\ Dir.arch \in Places   BY DirIsListed DEF FInv, Dirs
  <2> QED BY <2>1, FullIsHolding DEF Open, Ambiguous, RInv, InLog, InArch
<1>2. /\ data' \in [Files -> Seq(Seqs)] /\ Kept' = Kept
      /\ todo' \in Seq(Seqs) /\ ToSet(todo') = Kept
  BY <1>1, OpenKeeps DEF FInv, RInv
<1> QED BY <1>2 DEF Open, RInv, ghost

LEMMA RStep == ASSUME FInv, RInv, OnlyRotationsFail, [Next]_vars PROVE RInv'
BY RUntouched, RFiles, ROpen DEF Next

LEMMA RInvariance == Spec => [](OnlyRotationsFail => RInv)
<1>1. Init => RInv   BY DEF Init, RInv
<1>2. FInv /\ (OnlyRotationsFail => RInv) /\ [Next]_vars => (OnlyRotationsFail => RInv)'
  BY RStep, FaultsStay DEF OnlyRotationsFail
<1> QED BY <1>1, <1>2, FInvariance, PTL DEF Spec

\* Whatever fails of a rotation and whenever the process is killed, a committed entry
\* has its node or a frame: an archive that the next rename overwrites held none that
\* was still needed (wal.rs, checkpoint; engine.rs, open).
THEOREM NothingIsDiscarded == Spec => []NothingDiscarded
<1>1. (OnlyRotationsFail => RInv) => NothingDiscarded
  BY HeldIsKept DEF OnlyRotationsFail, NothingDiscarded, RInv
<1> QED BY <1>1, RInvariance, PTL
=============================================================================
