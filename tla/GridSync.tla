------------------------------- MODULE GridSync -------------------------------
(***************************************************************************)
(* Grid replication between one pane of the mux server and one client view *)
(* of it.                                                                  *)
(*                                                                         *)
(* The server owns the only terminal emulator.  Every committed change of  *)
(* the emulator is published as one generation: an entry of a bounded diff *)
(* ring, written under the pane's commit lock (pane.rs, grid_sync.rs).     *)
(* A client remembers the generation it has rendered, is woken by lossy    *)
(* notifications, and pulls: the answer is "no change", the merged rows of *)
(* the generations it missed, or the whole grid (terminal_view/mux_pane.rs)*)
(*                                                                         *)
(* The server keeps no state about clients and a fetch changes nothing on  *)
(* the server, so one client stands for any number of them.                *)
(***************************************************************************)
EXTENDS Naturals, Sequences, FiniteSets

CONSTANTS
    Texts,          \* contents a row of cells can have
    Metas,          \* values of the render state a row diff cannot carry
                    \*   (cursor point and style, terminal modes)
    Sizes,          \* grid sizes, pairs <<rows, cols>>
    Blank, Home,    \* content and render state of a fresh grid
    PageRows,       \* history rows one fetch_scrollback asks for
    Capacity,       \* entries the diff ring keeps (64 in Pane::new)
    MaxGen,         \* bound: generations the model publishes
    MaxHver,        \* bound: history versions the model reaches
    MaxHistory,     \* bound: rows of scrollback history
    MaxFaults       \* bound: failing RPCs

ASSUME CapacityAssumption == Capacity \in Nat \ {0}
ASSUME SizesAssumption == Sizes \subseteq (Nat \ {0}) \X (Nat \ {0})
ASSUME FreshAssumption == Blank \in Texts /\ Home \in Metas
ASSUME PageAssumption == PageRows \in Nat \ {0}
ASSUME BoundsAssumption == /\ MaxGen \in Nat
                           /\ MaxHver \in Nat
                           /\ MaxHistory \in Nat
                           /\ MaxFaults \in Nat

VARIABLES
    term,       \* the emulator: size, cells, render state, history
    gen,        \* generation: the last published one
    ring,       \* entries of the GridDiffRing, oldest first
    inSync,     \* Dec2026Parser.in_sync: inside a synchronized update
    pSync,      \* ReadLoopState.pending_sync
    pRows,      \* ReadLoopState.pending_dirty_rows
    pFull,      \* ReadLoopState.pending_full_snapshot
    owes,       \* publishers that have committed and not yet broadcast
    wake,       \* where a PaneDirty for the view is: in its queue, in its latch
    cgen,       \* MuxPaneView.generation
    csnap,      \* MuxPaneView.snapshot
    chist,      \* MuxPaneView.history_cache: what its rows belong to
    phase,      \* where schedule_fetch's task is
    resp,       \* the response the task works on
    nextRow,    \* HistoryPageAccumulator.next_row: history rows accepted
    fpend,      \* MuxPaneView.fetch_pending
    faults      \* RPC failures left

server == <<term, gen, ring, inSync, pSync, pRows, pFull>>
client == <<cgen, csnap, chist, phase, resp, nextRow, fpend, faults>>
vars   == <<server, owes, wake, client>>

-----------------------------------------------------------------------------
(* Data. *)

\* FullGridSnapshot, and the part of the emulator it exports.  cells[r] is the
\* content of row r; a row has cols cells.  hver and hlen are the history
\* version and the number of history rows.
IsSnapshot(s) ==
    /\ s \in [rows: Nat, cols: Nat, cells: [1..s.rows -> Texts],
             meta: Metas, hver: Nat, hlen: Nat]
    /\ <<s.rows, s.cols>> \in Sizes

\* RowChange: a whole row, cols cells wide.
RowChange == [cols: Nat, text: Texts]

\* GridDiff: a partial function from row numbers to their new content.
IsDiff(d) == DOMAIN d \subseteq Nat /\ d \in [DOMAIN d -> RowChange]

\* DiffEntry of the ring.
IsEntry(e) == /\ e = [gen |-> e.gen, full |-> e.full, rows |-> e.rows]
              /\ e.gen \in Nat /\ e.full \in BOOLEAN /\ IsDiff(e.rows)

NoResp == [kind |-> "none"]

\* HistoryCache: which history the cached rows are.
HistoryOf(s) == [cols |-> s.cols, hver |-> s.hver, hlen |-> s.hlen]

InFlight == phase \in {"request", "response", "history", "confirm"}

-----------------------------------------------------------------------------
(* The diff ring. *)

\* diff_from_dirty: the current content of the dirty rows still on screen.
DiffFromDirty(t, dirty) ==
    [r \in dirty \cap (1..t.rows) |-> [cols |-> t.cols, text |-> t.cells[r]]]

\* push_entry: append, then drop the oldest entries beyond the capacity.
PushEntry(rg, e) ==
    LET all == Append(rg, e)
    IN  IF Len(all) > Capacity THEN Tail(all) ELSE all

\* The entries of ring rg a client at generation since has not seen.
Newer(rg, since) == {i \in 1..Len(rg) : rg[i].gen > since}

\* Mutant of NeedsFull: the roll-out test is off by one generation.
NeedsFullLate(rg, since, current) ==
    \/ since = 0
    \/ since > current
    \/ rg # <<>> /\ since + 2 < rg[1].gen
    \/ \E i \in Newer(rg, since) : rg[i].full

\* fetch_update's conditions for answering with the whole grid.
NeedsFull(rg, since, current) ==
    \/ since = 0
    \/ since > current
    \/ rg # <<>> /\ since + 1 < rg[1].gen
    \/ \E i \in Newer(rg, since) : rg[i].full

\* Mutant of LastWith: a merged row keeps the content it was first given.
FirstWith(rg, since, r) ==
    CHOOSE i \in Newer(rg, since) :
        /\ r \in DOMAIN rg[i].rows
        /\ \A j \in Newer(rg, since) : r \in DOMAIN rg[j].rows => i <= j

\* The last unseen entry that carries row r: later entries override earlier.
LastWith(rg, since, r) ==
    CHOOSE i \in Newer(rg, since) :
        /\ r \in DOMAIN rg[i].rows
        /\ \A j \in Newer(rg, since) : r \in DOMAIN rg[j].rows => j <= i

MergedRows(rg, since) ==
    [r \in UNION { DOMAIN rg[i].rows : i \in Newer(rg, since) } |->
        rg[LastWith(rg, since, r)].rows[r]]

\* GridDiffRing::fetch_update, with t the emulator a full snapshot copies.
FetchUpdate(rg, since, current, t) ==
    IF since # 0 /\ since = current
    THEN [kind |-> "nochange", to |-> current]
    ELSE IF NeedsFull(rg, since, current)
    THEN [kind |-> "full", to |-> current, snap |-> t]
    ELSE [kind |-> "diff", to |-> current, rows |-> MergedRows(rg, since)]

-----------------------------------------------------------------------------
(* Publishers on the server.  Each holds the commit lock from its change of *)
(* the emulator to publish_generation, and broadcasts after releasing it.   *)

\* Mutant of Publish: a generation without changed rows is not recorded.
PublishSkipsEmpty(t, dirty, full) ==
    /\ gen < MaxGen
    /\ ring' = IF dirty = {} THEN ring
               ELSE PushEntry(ring, [gen |-> gen + 1, full |-> full,
                                     rows |-> DiffFromDirty(t, dirty)])
    /\ gen' = gen + 1

\* publish_generation for the emulator state t.
Publish(t, dirty, full) ==
    /\ gen < MaxGen
    /\ ring' = PushEntry(ring, [gen |-> gen + 1, full |-> full,
                                rows |-> DiffFromDirty(t, dirty)])
    /\ gen' = gen + 1

\* What one batch of PTY bytes does to the emulator: any change of
\* cells, render state and history, with damage covering the changed rows.
\* History is its version and length here: what the version stands for, and
\* when process_pty_bytes moves it, is module RowHistory's subject.
Advance(t, dirty, meta, hist, hlen) ==
    \E cells \in [1..term.rows -> Texts] :
        /\ \A r \in 1..term.rows : cells[r] # term.cells[r] => r \in dirty
        /\ hlen # term.hlen => hist
        /\ t = [rows |-> term.rows, cols |-> term.cols, cells |-> cells,
                meta |-> meta, hlen |-> hlen,
                hver |-> IF hist THEN term.hver + 1 ELSE term.hver]

\* process_pty_bytes of one batch.  ended and sync are its DEC-2026 transitions:
\* whether a window closed in it, and whether one is open after it.
Batch(dirty, meta, hist, hlen, media, ended, sync) ==
    LET stateChanged == meta # term.meta \/ hist
        changed == dirty # {} \/ stateChanged \/ media
    IN  /\ "reader" \notin owes
        /\ ended \/ (inSync => sync)
        /\ hist => term.hver < MaxHver
        /\ Advance(term', dirty, meta, hist, hlen)
        /\ inSync' = sync
        /\ \/ /\ sync /\ ~ended
              /\ pSync' = (pSync \/ changed)
              /\ pRows' = (IF changed THEN pRows \cup dirty ELSE pRows)
              /\ pFull' = (pFull \/ stateChanged)
              /\ UNCHANGED <<gen, ring>>
           \/ /\ ended \/ ~sync
              /\ changed \/ pSync
              /\ Publish(term', pRows \cup dirty, pFull \/ stateChanged)
              /\ pSync' = FALSE /\ pRows' = {} /\ pFull' = FALSE
           \/ /\ ended \/ ~sync
              /\ ~changed /\ ~pSync
              /\ UNCHANGED <<gen, ring, pSync, pRows, pFull>>
        /\ owes' = owes \cup {"reader"}
        /\ UNCHANGED <<wake, client>>

ProcessPtyBytes ==
    \E dirty \in SUBSET (1..term.rows), meta \in Metas, hlen \in 0..MaxHistory,
       hist, media, ended, sync \in BOOLEAN :
        Batch(dirty, meta, hist, hlen, media, ended, sync)

\* check_timeout and force_flush_after_bsu_timeout.
BsuTimeout ==
    /\ inSync
    /\ "reader" \notin owes
    /\ inSync' = FALSE
    /\ IF pSync
       THEN /\ Publish(term, pRows, pFull)
            /\ pSync' = FALSE /\ pRows' = {} /\ pFull' = FALSE
            /\ owes' = owes \cup {"reader"}
       ELSE UNCHANGED <<gen, ring, pSync, pRows, pFull, owes>>
    /\ UNCHANGED <<term, wake, client>>

\* Mutant of Resize: the emulator's width is left behind.
ResizeKeepsWidth ==
    \E s \in Sizes, meta \in Metas, hlen \in 0..MaxHistory :
        \E cells \in [1..s[1] -> Texts] :
            /\ "rpc" \notin owes
            /\ s # <<term.rows, term.cols>>
            /\ term.hver < MaxHver
            /\ term' = [rows |-> s[1], cols |-> term.cols, cells |-> cells,
                        meta |-> meta, hver |-> term.hver + 1, hlen |-> hlen]
            /\ Publish(term', 1..s[1], TRUE)
            /\ owes' = owes \cup {"rpc"}
            /\ UNCHANGED <<inSync, pSync, pRows, pFull, wake, client>>

\* Mutant of Resize: the history version starts over.
ResizeRestartsHistory ==
    \E s \in Sizes, meta \in Metas, hlen \in 0..MaxHistory :
        \E cells \in [1..s[1] -> Texts] :
            /\ "rpc" \notin owes
            /\ s # <<term.rows, term.cols>>
            /\ term' = [rows |-> s[1], cols |-> s[2], cells |-> cells,
                        meta |-> meta, hver |-> 0, hlen |-> hlen]
            /\ Publish(term', 1..s[1], TRUE)
            /\ owes' = owes \cup {"rpc"}
            /\ UNCHANGED <<inSync, pSync, pRows, pFull, wake, client>>

\* Pane::resize.  Reflow leaves any content of the new size.
Resize ==
    \E s \in Sizes, meta \in Metas, hlen \in 0..MaxHistory :
        \E cells \in [1..s[1] -> Texts] :
            /\ "rpc" \notin owes
            /\ s # <<term.rows, term.cols>>
            /\ term.hver < MaxHver
            /\ term' = [rows |-> s[1], cols |-> s[2], cells |-> cells,
                        meta |-> meta, hver |-> term.hver + 1, hlen |-> hlen]
            /\ Publish(term', 1..s[1], TRUE)
            /\ owes' = owes \cup {"rpc"}
            /\ UNCHANGED <<inSync, pSync, pRows, pFull, wake, client>>

\* set_scrollback_capacity: a smaller limit evicts the oldest history rows.
SetScrollbackCapacity ==
    \E hlen \in 0..term.hlen :
        /\ "rpc" \notin owes
        /\ term.hver < MaxHver
        /\ term' = [term EXCEPT !.hver = @ + 1, !.hlen = hlen]
        /\ Publish(term', 1..term.rows, TRUE)
        /\ owes' = owes \cup {"rpc"}
        /\ UNCHANGED <<inSync, pSync, pRows, pFull, wake, client>>

\* set_title, from an RPC or from the reader's own title events: a generation
\* with every row, also in the middle of a synchronized update.
SetTitle ==
    \E who \in {"reader", "rpc"} :
        /\ who \notin owes
        /\ Publish(term, 1..term.rows, FALSE)
        /\ owes' = owes \cup {who}
        /\ UNCHANGED <<term, inSync, pSync, pRows, pFull, wake, client>>

\* broadcast_pane_output / broadcast_pane_dirty, after the lock is released.  The
\* signal ends up in the view's queue or, the queue being full, in its latch
\* (module DirtyLatch).
Broadcast ==
    \E who \in owes, where \in {"queue", "latch"} :
        /\ owes' = owes \ {who}
        /\ wake' = wake \cup {where}
        /\ UNCHANGED <<server, client>>

-----------------------------------------------------------------------------
(* The client view. *)

\* schedule_fetch on a dirty signal: one fetch at a time, later signals are
\* remembered.  Starting a fetch drops a waiting retry timer.  A listener that
\* was handed a queued signal looks at the latch next.
Notified ==
    /\ wake # {}
    /\ wake' = IF wake = {"queue", "latch"} THEN {"queue"} ELSE {}
    /\ IF InFlight
       THEN /\ fpend' = TRUE
            /\ UNCHANGED phase
       ELSE /\ phase' = "request"
            /\ fpend' = FALSE
    /\ UNCHANGED <<server, owes, cgen, csnap, chist, resp, nextRow, faults>>

\* The server answers the request under its commit lock.
ServeFetch ==
    /\ phase = "request"
    /\ phase' = "response"
    /\ resp' = FetchUpdate(ring, cgen, gen, term)
    /\ UNCHANGED <<server, owes, wake, cgen, csnap, chist, nextRow, fpend, faults>>

\* Mutant of Finish: a signal that came in during the fetch is forgotten.
FinishForgets(retry) ==
    /\ phase' = IF retry THEN "retry" ELSE "idle"
    /\ fpend' = retry
    /\ resp' = NoResp
    /\ nextRow' = 0

\* End of schedule_fetch's task: pull again at once if a signal came in
\* meanwhile, after 100ms if this attempt failed in a way worth repeating.
Finish(retry) ==
    /\ phase' = IF retry THEN "retry" ELSE IF fpend THEN "request" ELSE "idle"
    /\ fpend' = retry
    /\ resp' = NoResp
    /\ nextRow' = 0

\* Mutant of Apply: the history cache is not replaced with the snapshot.
ApplyKeepsCache(to, snap) ==
    /\ cgen' = to
    /\ csnap' = snap
    /\ UNCHANGED chist

\* apply_prepared_fetch_update of a snapshot.
Apply(to, snap) ==
    /\ cgen' = to
    /\ csnap' = snap
    /\ chist' = HistoryOf(snap)

\* apply_diff_to_snapshot's validation, and matching_history_cache's.
DiffFits(s, rows) ==
    \A r \in DOMAIN rows : r \in 1..s.rows /\ rows[r].cols = s.cols

WithRows(s, rows) ==
    [s EXCEPT !.cells = [r \in DOMAIN s.cells |->
        IF r \in DOMAIN rows THEN rows[r].text ELSE s.cells[r]]]

ReceiveNoChange ==
    /\ phase = "response" /\ resp.kind = "nochange"
    /\ Finish(FALSE)
    /\ UNCHANGED <<server, owes, wake, cgen, csnap, chist, faults>>

ReceiveDiff ==
    /\ phase = "response" /\ resp.kind = "diff"
    /\ IF DiffFits(csnap, resp.rows) /\ chist = HistoryOf(csnap)
       THEN Apply(resp.to, WithRows(csnap, resp.rows))
       ELSE UNCHANGED <<cgen, csnap, chist>>
    /\ Finish(FALSE)
    /\ UNCHANGED <<server, owes, wake, faults>>

\* A full snapshot whose history is cached, or empty, is applied at once;
\* otherwise its history pages are fetched first.
ReceiveFull ==
    /\ phase = "response" /\ resp.kind = "full"
    /\ IF chist = HistoryOf(resp.snap) \/ resp.snap.hlen = 0
       THEN /\ Apply(resp.to, resp.snap)
            /\ Finish(FALSE)
       ELSE /\ phase' = "history"
            /\ UNCHANGED <<cgen, csnap, chist, resp, nextRow, fpend>>
    /\ UNCHANGED <<server, owes, wake, faults>>

\* One page of fetch_history_checkpoint: the server answers from its current
\* history.  Too few rows is a hard error; another version or length means the
\* checkpoint moved and the whole fetch is retried.
FetchHistoryPage ==
    LET remaining == resp.snap.hlen - nextRow
        count == IF remaining < PageRows THEN remaining ELSE PageRows
    IN  /\ phase = "history"
        /\ IF term.hlen < nextRow + count
           THEN Finish(FALSE)
           ELSE IF HistoryOf(term) # HistoryOf(resp.snap)
           THEN Finish(TRUE)
           ELSE /\ nextRow' = nextRow + count
                /\ phase' = IF count = remaining THEN "confirm" ELSE "history"
                /\ UNCHANGED <<resp, fpend>>
        /\ UNCHANGED <<server, owes, wake, cgen, csnap, chist, faults>>

\* confirm_grid_checkpoint: the snapshot's generation must still be current.
ConfirmCheckpoint ==
    /\ phase = "confirm"
    /\ IF FetchUpdate(ring, resp.to, gen, term).kind = "nochange"
       THEN Apply(resp.to, resp.snap) /\ Finish(FALSE)
       ELSE UNCHANGED <<cgen, csnap, chist>> /\ Finish(TRUE)
    /\ UNCHANGED <<server, owes, wake, faults>>

\* The task ends on an error that is not worth repeating; only a signal that
\* came in meanwhile makes the view pull again.
GiveUp ==
    /\ phase' = IF fpend THEN "request" ELSE "gaveup"
    /\ fpend' = FALSE
    /\ resp' = NoResp
    /\ nextRow' = 0

\* A request fails.  classify_fetch_rpc_error retries a closed connection, a
\* timeout and a full queue, and no other error.
RpcFails ==
    /\ InFlight
    /\ faults > 0
    /\ faults' = faults - 1
    /\ Finish(TRUE) \/ GiveUp
    /\ UNCHANGED <<server, owes, wake, cgen, csnap, chist>>

\* schedule_fetch_retry's timer.
RetryFetch ==
    /\ phase = "retry"
    /\ phase' = "request"
    /\ fpend' = FALSE
    /\ UNCHANGED <<server, owes, wake, cgen, csnap, chist, resp, nextRow, faults>>

-----------------------------------------------------------------------------
\* A grid nothing was written to.
Fresh(s) == [rows |-> s[1], cols |-> s[2], cells |-> [r \in 1..s[1] |-> Blank],
             meta |-> Home, hver |-> 0, hlen |-> 0]

\* Pane::new, and MuxPaneView::new, which guesses a size and starts a fetch.
Init ==
    /\ \E s \in Sizes : term = Fresh(s)
    /\ gen = 0 /\ ring = <<>>
    /\ inSync = FALSE /\ pSync = FALSE /\ pRows = {} /\ pFull = FALSE
    /\ owes = {} /\ wake = {}
    /\ cgen = 0
    /\ \E s \in Sizes : csnap = Fresh(s)
    /\ chist = HistoryOf(csnap)
    /\ phase = "request" /\ resp = NoResp /\ nextRow = 0
    /\ fpend = FALSE /\ faults = MaxFaults

ServerNext == ProcessPtyBytes \/ BsuTimeout \/ Resize
              \/ SetScrollbackCapacity \/ SetTitle

ClientNext == ServeFetch \/ ReceiveNoChange \/ ReceiveDiff \/ ReceiveFull
              \/ FetchHistoryPage \/ ConfirmCheckpoint \/ RetryFetch

Next == ServerNext \/ Broadcast \/ Notified \/ ClientNext \/ RpcFails

Spec == Init /\ [][Next]_vars

\* The threads and tasks that serve a view keep running: the publisher that
\* committed goes on to its broadcast, the view's listener takes a queued
\* signal, requests are answered and timers fire.  A signal in the latch alone
\* may wait for good (LatchIsDelivered of DirtyLatch fails).  Nothing obliges the
\* program in the pane to write, nor a window to be closed, and RPCs fail
\* finitely often.
Fairness ==
    /\ WF_vars(Broadcast)
    /\ WF_vars("queue" \in wake /\ Notified)
    /\ WF_vars(ClientNext)

FairSpec == Spec /\ Fairness

-----------------------------------------------------------------------------
(* Properties. *)

\* FetchGridUpdateResponse.
IsResponse(x) ==
    \/ x = NoResp
    \/ x \in [kind: {"nochange"}, to: Nat]
    \/ /\ x.kind = "full"
       /\ x = [kind |-> "full", to |-> x.to, snap |-> x.snap]
       /\ x.to \in Nat /\ IsSnapshot(x.snap)
    \/ /\ x.kind = "diff"
       /\ x = [kind |-> "diff", to |-> x.to, rows |-> x.rows]
       /\ x.to \in Nat /\ IsDiff(x.rows)

\* Types, with the shape of a response by phase.
TypeOK ==
    /\ IsSnapshot(term) /\ IsSnapshot(csnap)
    /\ gen \in Nat /\ cgen \in Nat
    /\ ring \in Seq({ring[i] : i \in DOMAIN ring}) /\ \A i \in 1..Len(ring) : IsEntry(ring[i])
    /\ inSync \in BOOLEAN /\ pSync \in BOOLEAN /\ pFull \in BOOLEAN
    /\ pRows \subseteq Nat
    /\ owes \subseteq {"reader", "rpc"} /\ wake \subseteq {"queue", "latch"}
    /\ chist \in [cols: Nat, hver: Nat, hlen: Nat]
    /\ phase \in {"idle", "request", "response", "history", "confirm", "retry",
                 "gaveup"}
    /\ IsResponse(resp)
    /\ nextRow \in Nat /\ fpend \in BOOLEAN /\ faults \in Nat

\* The ring holds the last generations without a gap, ending at the published
\* one: pane.rs inserts the entry before it exposes the generation, and
\* fetch_update's roll-out test looks at the oldest entry only.
RingContiguous ==
    /\ Len(ring) <= Capacity
    /\ gen > 0 => Len(ring) > 0
    /\ \A i \in 1..Len(ring) : ring[i].gen = gen - (Len(ring) - i)

\* What a view at generation g that shows snapshot s still gets to hear of,
\* when the emulator is t: every difference is in an unseen ring entry, forces
\* a full snapshot, or waits in the open synchronized-update window.
CoversIn(g, s, t, current, rg, rows, full) ==
    \/ NeedsFull(rg, g, current)
    \/ /\ s.rows = t.rows /\ s.cols = t.cols
       /\ full \/ (HistoryOf(s) = HistoryOf(t) /\ s.meta = t.meta)
       /\ \A r \in 1..t.rows :
            \/ s.cells[r] = t.cells[r]
            \/ r \in rows
            \/ \E i \in Newer(rg, g) : r \in DOMAIN rg[i].rows

Covers(g, s) == CoversIn(g, s, term, gen, ring, pRows, pFull)

\* No lost update: neither the view as it is, nor the view a response in
\* flight will make of it, has missed a change that no later fetch repairs.
NoLostUpdate ==
    /\ Covers(cgen, csnap)
    /\ resp.kind = "full" => Covers(resp.to, resp.snap)
    /\ resp.kind = "diff" => Covers(resp.to, WithRows(csnap, resp.rows))

\* A view that is up to date outside a synchronized update shows the emulator.
CurrentViewIsExact ==
    cgen # 0 /\ cgen = gen /\ ~pSync => csnap = term

\* A diff the server answers with always fits the snapshot it was asked for:
\* apply_diff_to_snapshot and the history check never reject it.  (A rejection
\* is not retried: the view would keep the old frame.)
DiffAlwaysFits ==
    resp.kind = "diff" =>
        DiffFits(csnap, resp.rows) /\ chist = HistoryOf(csnap)

\* A view never goes back: not by a late response, a retry or a resize.
ViewNeverRegresses == [][cgen' >= cgen /\ csnap'.hver >= csnap.hver]_vars

\* Once the pane stops publishing outside a synchronized update, every view
\* ends up showing the emulator, whatever was lost, retried or moved before.
\* There are two exceptions: the last fetch ended on an error the view does not
\* repeat, or the last signal was left in the latch.
Converges ==
    <>[](~pSync) => <>[](csnap = term \/ phase = "gaveup" \/ wake = {"latch"})
=============================================================================
