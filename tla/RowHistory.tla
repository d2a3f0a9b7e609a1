------------------------------ MODULE RowHistory ------------------------------
(***************************************************************************)
(* Scrollback and row addressing of one pane (pane.rs).                     *)
(*                                                                          *)
(* Rows leave the viewport at the top and enter a history of bounded size.  *)
(* Two numbers let others refer to those rows.  The history version, with   *)
(* the history length, names a content: a view that has cached the rows     *)
(* keeps them while both are unchanged.  The absolute number of the top     *)
(* viewport row names rows: a shell marker keeps the number of the row it   *)
(* was seen on and is resolved against it later.  At capacity the emulator  *)
(* evicts silently, so process_pty_bytes parses each batch in steps under a *)
(* raised limit, counts the growth and evicts itself.                       *)
(*                                                                          *)
(* A row is a number here, given when the row comes into being, so that     *)
(* "the same row" can be said.  All of a batch happens under the commit     *)
(* lock; the state is observable only between batches.                      *)
(***************************************************************************)
EXTENDS Integers, Sequences, FiniteSets

CONSTANTS
    Rows,           \* rows of the viewport
    Capacities,     \* scrollback capacities the settings can give
    Headroom,       \* ROW_ADDRESSING_HEADROOM
    Input,          \* kinds of input the program in the pane writes
    MaxInput,       \* bound: inputs, resizes and settings changes
    MaxMarkers      \* MAX_RECORDED_SHELL_MARKERS

ASSUME SizeAssumption == /\ Rows \in Nat \ {0}
                         /\ Capacities \subseteq Nat
                         /\ Headroom \in Nat \ {0}
                         /\ MaxMarkers \in Nat \ {0}
                         /\ MaxInput \in Nat

VARIABLES
    grid,       \* the active grid: its rows, its history and its limit
    other,      \* the inactive grid
    alt,        \* TermMode::ALT_SCREEN
    cursor,     \* cursor row of the active grid
    region,     \* Term.scroll_region, its first and last row
    fresh,      \* the next row to come into being
    capacity,   \* Pane.scrollback_capacity
    top,        \* Pane.viewport_top_absolute
    epoch,      \* Pane.row_addressing_epoch
    hver,       \* Pane.history_version
    markers,    \* Pane.shell_markers, oldest first
    batch,      \* the batch being processed: RowAddressing and observer flags
    cached,     \* a view's HistoryCache: version and rows it fetched
    shifts,     \* how often rows moved on the screen without being counted
    left        \* inputs left

pane == <<capacity, top, epoch, hver, markers>>
term == <<grid, other, alt, cursor, region, fresh>>
vars == <<term, pane, batch, cached, shifts, left>>

Idle == [on |-> FALSE]

-----------------------------------------------------------------------------
(* The emulator, alacritty_terminal as patched in the workspace. *)

Last(s, n) == SubSeq(s, Len(s) - n + 1, Len(s))
Smaller(a, b) == IF a < b THEN a ELSE b

\* Grid::update_history: the oldest rows beyond the limit are gone.
Limited(g, limit) ==
    [g EXCEPT !.hist = Last(@, Smaller(Len(@), limit)), !.limit = limit]

\* Grid::scroll_up by n of the rows a..b, which get n new ones at their end.  From
\* the top of the screen the rows join the history, also when rows below b stay.
ScrolledUp(g, a, b, n) ==
    LET joined == g.hist \o SubSeq(g.view, 1, n)
    IN  [g EXCEPT !.view = [r \in 1..Rows |-> IF r \notin a..b THEN g.view[r]
                                             ELSE IF r + n <= b THEN g.view[r + n]
                                             ELSE fresh + r - 1],
                  !.hist = IF a = 1 THEN Last(joined, Smaller(Len(joined), g.limit))
                           ELSE @]

\* Grid::scroll_down by n of the rows a..b: the last ones are lost.
ScrolledDown(g, a, b, n) ==
    [g EXCEPT !.view = [r \in 1..Rows |-> IF r \notin a..b THEN g.view[r]
                                         ELSE IF r - n >= a THEN g.view[r - n]
                                         ELSE fresh + r - 1]]

\* scroll_up_relative, from row a to the end of the region.  Growth of the history
\* tells by how much rows moved if all of the screen did.
ScrollUp(a, b, n) ==
    /\ grid' = ScrolledUp(grid, a, b, n)
    /\ fresh' = fresh + Rows
    /\ shifts' = IF n = 0 \/ (a = 1 /\ b = Rows) THEN shifts ELSE shifts + 1

ScrollDown(a, b, n) ==
    /\ grid' = ScrolledDown(grid, a, b, n)
    /\ fresh' = fresh + Rows
    /\ shifts' = IF n = 0 THEN shifts ELSE shifts + 1

RegionSize == region.to - region.from + 1
WholeScreen == [from |-> 1, to |-> Rows]

\* Term::linefeed, and wrapline.
LineFeed ==
    /\ IF cursor = region.to
       THEN ScrollUp(region.from, region.to, Smaller(1, RegionSize)) /\ UNCHANGED cursor
       ELSE cursor' = Smaller(cursor + 1, Rows) /\ UNCHANGED <<grid, fresh, shifts>>
    /\ UNCHANGED <<other, alt, region>>

\* Cursor addressing, CUP.
MoveCursor ==
    /\ cursor' \in 1..Rows
    /\ UNCHANGED <<grid, other, alt, region, fresh, shifts>>

\* DECSTBM: a region that begins before it ends, cut off at the screen's end.
SetRegion ==
    /\ \E first \in 1..(Rows + 1), last \in 2..(Rows + 2) :
         first < last /\ region' = [from |-> first, to |-> Smaller(last, Rows)]
    /\ cursor' = 1
    /\ UNCHANGED <<grid, other, alt, fresh, shifts>>

\* SU and SD by up to a screen.
ScrollScreen ==
    /\ \E n \in 1..Rows : ScrollUp(region.from, region.to, Smaller(n, RegionSize))
    /\ UNCHANGED <<other, alt, cursor, region>>

ScrollBack ==
    /\ \E n \in 1..Rows : ScrollDown(region.from, region.to, Smaller(n, RegionSize))
    /\ UNCHANGED <<other, alt, cursor, region>>

\* Term::reverse_index: at the region's top its rows move down.
ReverseIndex ==
    /\ IF cursor = region.from
       THEN ScrollDown(region.from, region.to, Smaller(1, RegionSize)) /\ UNCHANGED cursor
       ELSE /\ cursor' = IF cursor = 1 THEN 1 ELSE cursor - 1
            /\ UNCHANGED <<grid, fresh, shifts>>
    /\ UNCHANGED <<other, alt, region>>

\* IL and DL: the rows from the cursor to the region's end move.  On the first row
\* deleted lines go into the history.
InsertLines ==
    /\ IF cursor \in region.from..region.to
       THEN \E n \in 1..(region.to - cursor + 1) : ScrollDown(cursor, region.to, n)
       ELSE UNCHANGED <<grid, fresh, shifts>>
    /\ UNCHANGED <<other, alt, cursor, region>>

DeleteLines ==
    /\ IF cursor \in region.from..region.to
       THEN \E n \in 1..Smaller(Rows - cursor + 1, RegionSize) :
              ScrollUp(cursor, region.to, n)
       ELSE UNCHANGED <<grid, fresh, shifts>>
    /\ UNCHANGED <<other, alt, cursor, region>>

\* CSI 2J: on the primary screen the rows in use scroll into the history, whatever
\* the region.
ClearAll ==
    /\ IF alt THEN UNCHANGED <<grid, fresh, shifts>>
       ELSE \E n \in 0..Rows : ScrollUp(1, Rows, n)
    /\ UNCHANGED <<other, alt, cursor, region>>

\* CSI 3J.
ClearSaved ==
    /\ grid' = [grid EXCEPT !.hist = <<>>]
    /\ UNCHANGED <<other, alt, cursor, region, fresh, shifts>>

\* RIS: the primary screen, without history.
ResetState ==
    /\ grid' = [(IF alt THEN other ELSE grid) EXCEPT !.hist = <<>>]
    /\ other' = [(IF alt THEN grid ELSE other) EXCEPT !.hist = <<>>]
    /\ alt' = FALSE
    /\ cursor' = 1
    /\ region' = WholeScreen
    /\ UNCHANGED <<fresh, shifts>>

\* DECCOLM, set or unset: the rows are blanked where they are.
ColumnMode ==
    /\ cursor' = 1
    /\ region' = WholeScreen
    /\ UNCHANGED <<grid, other, alt, fresh, shifts>>

\* CSI ? 1049 h: a fresh alternate grid without history.
EnterAlt ==
    /\ IF alt THEN UNCHANGED <<grid, other, fresh>>
       ELSE /\ other' = grid
            /\ grid' = [view |-> [i \in 1..Rows |-> fresh + i - 1],
                        hist |-> <<>>, limit |-> 0]
            /\ fresh' = fresh + Rows
    /\ alt' = TRUE
    /\ UNCHANGED <<cursor, region, shifts>>

\* CSI ? 1049 l: back to the primary grid, somewhere in it.
LeaveAlt ==
    /\ IF alt THEN grid' = other /\ other' = grid /\ cursor' \in 1..Rows
       ELSE UNCHANGED <<grid, other, cursor>>
    /\ alt' = FALSE
    /\ UNCHANGED <<region, fresh, shifts>>

-----------------------------------------------------------------------------
(* RowAddressing and the observer. *)

RaisedLimit == capacity + Headroom

\* process_pty_bytes takes the lock and notes what it will compare with.
BeginBatch ==
    /\ ~batch.on
    /\ left > 0
    /\ batch' = [on |-> TRUE, step |-> FALSE, room |-> 0,
                 top |-> top, size |-> Len(grid.hist), primary |-> ~alt,
                 granted |-> FALSE, saturated |-> FALSE,
                 rotate |-> FALSE, break |-> FALSE,
                 size0 |-> Len(grid.hist), cursor0 |-> cursor, alt0 |-> alt]
    /\ UNCHANGED <<term, pane, cached, shifts, left>>

\* advance_to: raise the primary grid's limit and cap the bytes of the step at
\* the rows the raised limit can still absorb.
BeginStep ==
    /\ batch.on /\ ~batch.step
    /\ left > 0
    /\ grid' = IF batch.primary /\ ~batch.granted
               THEN Limited(grid, RaisedLimit) ELSE grid
    /\ batch' = [batch EXCEPT
                   !.step = TRUE,
                   !.granted = @ \/ batch.primary,
                   !.room = IF ~batch.primary THEN left
                            ELSE IF RaisedLimit > batch.size
                            THEN RaisedLimit - batch.size ELSE 1]
    /\ UNCHANGED <<other, alt, cursor, region, fresh, pane, cached, shifts, left>>

\* HistoryMutationObserver: which inputs may rotate a full history, and which
\* break the numbering.  Input that wraps at the margin is input to it.
MayRotate == {"linefeed", "scroll", "back", "reverse", "insert", "delete",
              "clear", "saved", "reset"}
MayBreak  == {"saved", "reset", "columns", "enter"}

\* The emulator's reaction to one input.
Perform(i) ==
    \/ i \in {"linefeed", "wrap"} /\ LineFeed
    \/ i = "move" /\ MoveCursor
    \/ i = "region" /\ SetRegion
    \/ i = "scroll" /\ ScrollScreen
    \/ i = "back" /\ ScrollBack
    \/ i = "reverse" /\ ReverseIndex
    \/ i = "insert" /\ InsertLines
    \/ i = "delete" /\ DeleteLines
    \/ i = "clear" /\ ClearAll
    \/ i = "saved" /\ ClearSaved
    \/ i = "reset" /\ ResetState
    \/ i \in {"columns", "uncolumns"} /\ ColumnMode
    \/ i = "enter" /\ EnterAlt
    \/ i = "leave" /\ LeaveAlt

\* One input, of at least one byte, within a step.
Feed(i) ==
    /\ batch.on /\ batch.step /\ batch.room > 0
    /\ left > 0
    /\ Perform(i)
    /\ batch' = [batch EXCEPT !.room = @ - 1,
                              !.rotate = @ \/ i \in MayRotate,
                              !.break = @ \/ i \in MayBreak]
    /\ left' = left - 1
    /\ UNCHANGED <<pane, cached>>

\* The rest of advance_to's loop body: count the growth, evict down to the
\* capacity.  A step can end before its room is used up by inputs: text and
\* longer sequences take bytes too.
EndStep ==
    LET grown == Len(grid.hist)
        counted == IF grown > batch.size THEN grown - batch.size ELSE 0
        evict == grown > capacity
    IN  /\ batch.on /\ batch.step
        /\ IF alt
           THEN /\ batch' = [batch EXCEPT !.step = FALSE, !.primary = FALSE]
                /\ UNCHANGED grid
           ELSE /\ grid' = IF evict THEN Limited(grid, capacity) ELSE grid
                /\ batch' = [batch EXCEPT
                     !.step = FALSE,
                     !.primary = TRUE,
                     !.saturated = @ \/ (batch.primary /\ grown >= RaisedLimit),
                     !.top = IF batch.primary THEN @ + counted ELSE @,
                     !.granted = @ /\ ~evict,
                     !.size = IF evict THEN capacity ELSE grown]
        /\ UNCHANGED <<other, alt, cursor, region, fresh, pane, cached, shifts, left>>

\* record_shell_marker, at the byte offset of an OSC 133 sequence.  The oldest
\* of too many markers is forgotten.
MarkRow ==
    LET m == [row |-> batch.top + cursor - 1, epoch |-> epoch,
              id |-> grid.view[cursor], alt |-> alt, shifts |-> shifts]
        kept == IF Len(markers) = MaxMarkers THEN Tail(markers) ELSE markers
    IN  /\ batch.on /\ ~batch.step
        /\ "mark" \in Input
        /\ left > 0
        /\ markers' = Append(kept, m)
        /\ left' = left - 1
        /\ UNCHANGED <<term, capacity, top, epoch, hver, batch, cached, shifts>>

\* retire_row_addressing: number on past the current scrollback.
\* Mutant of Retire: the base stays where it is.
RetireInPlace(base, size) ==
    /\ top' = base
    /\ epoch' = epoch + 1

Retire(base, size) ==
    /\ top' = base + size
    /\ epoch' = epoch + 1

\* process_pty_bytes' three reasons to move the history version.
\* Mutant of HistoryChanged: the third one is missing.
HistoryChangedBySize(size) ==
    \/ batch.size0 # size
    \/ /\ capacity > 0 /\ size >= capacity
       /\ batch.cursor0 = cursor
       /\ batch.rotate

HistoryChanged(size) ==
    \/ batch.size0 # size
    \/ /\ capacity > 0 /\ size >= capacity
       /\ batch.cursor0 = cursor
       /\ batch.rotate
    \/ size # 0 /\ batch.break

\* commit_row_addressing: rows moved by an amount the growth does not tell.
\* Mutant of Uncounted: a saturated step is taken for a counted one.
UncountedUnlessSaturated(size) ==
    batch.alt0 # alt \/ batch.break \/ size < batch.size0

Uncounted(size) ==
    batch.alt0 # alt \/ batch.break \/ batch.saturated \/ size < batch.size0

\* RowAddressing::finish: the limit goes back whenever the primary grid is the
\* active one, also if an earlier batch raised it.
\* Mutant of Finished: only if this batch raised it.
FinishedIfGranted == IF batch.granted /\ batch.primary
                     THEN Limited(grid, capacity) ELSE grid

Finished == IF batch.primary THEN Limited(grid, capacity) ELSE grid

\* The end of a batch, before the lock is released.
EndBatch ==
    LET size == Len(grid'.hist)
    IN  /\ batch.on /\ ~batch.step
        /\ grid' = Finished
        /\ hver' = IF HistoryChanged(size) THEN hver + 1 ELSE hver
        /\ IF Uncounted(size)
           THEN Retire(batch.top, size)
           ELSE top' = batch.top /\ UNCHANGED epoch
        /\ batch' = Idle
        /\ UNCHANGED <<other, alt, cursor, region, fresh, capacity, markers, cached, shifts, left>>

-----------------------------------------------------------------------------
(* The other operations. *)

\* set_scrollback_capacity; the emulator applies it to the primary grid.
SetScrollbackCapacity ==
    \E c \in Capacities :
        /\ ~batch.on /\ left > 0
        /\ c # capacity
        /\ capacity' = c
        /\ IF alt THEN other' = Limited(other, c) /\ UNCHANGED grid
           ELSE grid' = Limited(grid, c) /\ UNCHANGED other
        /\ Retire(top, Len(grid'.hist))
        /\ hver' = hver + 1
        /\ left' = left - 1
        /\ UNCHANGED <<alt, cursor, region, fresh, markers, batch, cached, shifts>>

\* The rows of a grid after a reflow (Grid::resize): all new, n of them history.
Reflowed(g, first, n) ==
    [g EXCEPT !.view = [i \in 1..Rows |-> first + i - 1],
              !.hist = [i \in 1..n |-> first + Rows + i - 1]]

\* Pane::resize: both grids are reflowed.  Narrower rows are more rows.
Resize ==
    \E n \in 0..Smaller(capacity, Len(IF alt THEN other.hist ELSE grid.hist) + 1) :
        LET p == Reflowed(IF alt THEN other ELSE grid, fresh, n)
            q == Reflowed(IF alt THEN grid ELSE other, fresh + Rows + n, 0)
        IN  /\ ~batch.on /\ left > 0
            /\ grid' = IF alt THEN q ELSE p
            /\ other' = IF alt THEN p ELSE q
            /\ fresh' = fresh + 2 * Rows + n
            /\ region' = WholeScreen
            /\ Retire(top, Len(grid'.hist))
            /\ hver' = hver + 1
            /\ left' = left - 1
            /\ UNCHANGED <<alt, cursor, capacity, markers, batch, cached, shifts>>

\* A view fetches the history pages of a checkpoint (fetch_scrollback) and
\* keeps them under their version.
CacheHistory ==
    /\ ~batch.on
    /\ cached' = [hver |-> hver, rows |-> grid.hist]
    /\ cached' # cached
    /\ UNCHANGED <<term, pane, batch, shifts, left>>

-----------------------------------------------------------------------------
Init ==
    /\ capacity \in Capacities
    /\ grid = [view |-> [i \in 1..Rows |-> i], hist |-> <<>>, limit |-> capacity]
    /\ other = [view |-> [i \in 1..Rows |-> Rows + i], hist |-> <<>>, limit |-> 0]
    /\ alt = FALSE
    /\ cursor = 1
    /\ fresh = 2 * Rows + 1
    /\ top = 0 /\ epoch = 0 /\ hver = 0
    /\ markers = <<>>
    /\ batch = Idle
    /\ cached = [hver |-> 0, rows |-> <<>>]
    /\ region = WholeScreen
    /\ shifts = 0
    /\ left = MaxInput

Next == \/ BeginBatch \/ BeginStep \/ EndStep \/ MarkRow \/ EndBatch
        \/ \E i \in Input : Feed(i)
        \/ SetScrollbackCapacity \/ Resize \/ CacheHistory

Spec == Init /\ [][Next]_vars

-----------------------------------------------------------------------------
(* Properties. *)

\* resolve_shell_marker: a row of the history, of the viewport, or none.
Resolve(m) ==
    LET oldest == IF top >= Len(grid.hist) THEN top - Len(grid.hist) ELSE 0
        line == m.row - top
    IN  IF m.epoch # epoch \/ m.row < oldest THEN [at |-> "unavailable"]
        ELSE IF m.row < top THEN [at |-> "history", index |-> m.row - oldest]
        ELSE IF line >= Rows THEN [at |-> "unavailable"]
        ELSE [at |-> "viewport", index |-> line]

\* Types.
TypeOK ==
    /\ \A g \in {grid, other} : /\ g.view \in [1..Rows -> 1..(fresh - 1)]
                                /\ g.hist \in Seq(1..(fresh - 1))
                                /\ g.limit \in Nat
    /\ alt \in BOOLEAN /\ cursor \in 1..Rows
    /\ fresh \in Nat /\ capacity \in Capacities
    /\ top \in Nat /\ epoch \in Nat /\ hver \in Nat /\ shifts \in Nat
    /\ region \in [from: 1..(Rows + 1), to: 1..Rows]
    /\ Len(markers) <= MaxMarkers
    /\ left \in 0..MaxInput

\* Between batches the primary grid is back under the configured capacity:
\* "the raised limit never outlives one batch" unless it left the alternate
\* screen's other side raised, and then it is not the active one.
RaisedLimitIsTemporary ==
    ~batch.on /\ ~alt => grid.limit = capacity /\ Len(grid.hist) <= capacity

\* The number of the oldest row is never negative, so Resolve's saturating
\* subtraction never cuts anything off.
FloorIsReal == ~batch.on => top >= Len(grid.hist)

\* Marker m resolves to the row it was recorded on, or to none.
Right(m) ==
    LET p == Resolve(m)
    IN  CASE p.at = "history"  -> grid.hist[p.index + 1] = m.id
          [] p.at = "viewport" -> grid.view[p.index + 1] = m.id
          [] OTHER -> TRUE

\* A marker resolves to the row it was recorded on or to none, however the output
\* is cut into batches and steps and whatever evicts, clears, reflows or switches
\* screens.  Two kinds of markers are left out (MarkerNeverGuesses): those of the
\* alternate screen, and those after which rows moved by something that growth of
\* the history does not tell (SD, IL, DL, a reverse index, a scrolling region).
MarkerIsRight ==
    ~batch.on =>
        \A i \in 1..Len(markers) :
            ~markers[i].alt /\ markers[i].shifts = shifts => Right(markers[i])

\* "Never guess a row here: a wrong row is worse than no row"
\* (ShellMarkerPosition::Unavailable): the same, of every marker.
MarkerNeverGuesses == ~batch.on => \A i \in 1..Len(markers) : Right(markers[i])

\* A cached history whose version and length are still the current ones: what
\* matching_history_cache accepts.
CacheMatches == /\ cached.hver = hver
                /\ Len(cached.rows) = Len(grid.hist)

\* While the history is below its capacity a cache that is accepted is exact.
CacheBelowCapacityIsExact ==
    ~batch.on /\ CacheMatches /\ Len(grid.hist) < capacity
        => cached.rows = grid.hist

\* The same at any length: the version is there so that "a possible rotation at
\* the configured capacity" is noticed (process_pty_bytes).
CacheIsExact == ~batch.on /\ CacheMatches => cached.rows = grid.hist
=============================================================================
