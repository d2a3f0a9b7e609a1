---------------------------- MODULE ReadLoopProofs ----------------------------
(* Proofs of ReadLoop's safety invariants, with or without a descriptor to poll. *)
EXTENDS ReadLoop, TLAPS

\* Every step of the reader thread, of the program and of time keeps the types.
LEMMA TypeStep == ASSUME TypeOK, [Next]_vars PROVE TypeOK'
<1> USE DEF TypeOK, Batches, loop
<1>1. CASE Write   BY <1>1 DEF Write
<1>2. CASE Exit   BY <1>2 DEF Exit
<1>3. CASE WindowPasses   BY <1>3 DEF WindowPasses
<1>4. CASE SyncExpires   BY <1>4 DEF SyncExpires
<1>5. CASE PollReadable   BY <1>5 DEF PollReadable
<1>6. CASE ReadBytes
    BY <1>6, Zenon DEF ReadBytes, Process, Emit, FlushPendingNotify, Admits, Nothing
<1>7. CASE ReadEof   BY <1>7 DEF ReadEof
<1>8. CASE PollTimeout
    BY <1>8, Zenon DEF PollTimeout, ForceFlush, Emit, FlushPendingNotify, Admits
<1>9. CASE UNCHANGED vars   BY <1>9 DEF vars
<1>. QED
    BY <1>1, <1>2, <1>3, <1>4, <1>5, <1>6, <1>7, <1>8, <1>9 DEF Next, Thread

\* Nothing is held back outside a synchronized update: the read that ends one
\* publishes, and so does the timeout (process_pty_bytes,
\* force_flush_after_bsu_timeout).
LEMMA HeldBackStep ==
    ASSUME TypeOK, HeldBackOnlyInSync, [Next]_vars PROVE HeldBackOnlyInSync'
<1> USE DEF HeldBackOnlyInSync, loop
<1>1. CASE ReadBytes
    BY <1>1 DEF ReadBytes, Process, TypeOK, Batches
<1>2. CASE PollTimeout
    BY <1>2 DEF PollTimeout, ForceFlush
<1>3. CASE Write \/ Exit \/ WindowPasses \/ SyncExpires \/ PollReadable \/ ReadEof
    BY <1>3 DEF Write, Exit, WindowPasses, SyncExpires, PollReadable, ReadEof
<1>4. CASE UNCHANGED vars   BY <1>4 DEF vars
<1>. QED   BY <1>1, <1>2, <1>3, <1>4 DEF Next, Thread

\* emit_generation remembers the PaneDirty it does not send, and only sending
\* one forgets it.
LEMMA PutOffStep ==
    ASSUME TypeOK, PutOffIsRemembered, [Next]_vars PROVE PutOffIsRemembered'
<1> USE DEF PutOffIsRemembered, loop
<1>1. CASE ReadBytes
    BY <1>1, Zenon DEF ReadBytes, Process, Emit, FlushPendingNotify
<1>2. CASE PollTimeout
    BY <1>2, Zenon DEF PollTimeout, ForceFlush, Emit, FlushPendingNotify
<1>3. CASE Write \/ Exit \/ WindowPasses \/ SyncExpires \/ PollReadable \/ ReadEof
    BY <1>3 DEF Write, Exit, WindowPasses, SyncExpires, PollReadable, ReadEof
<1>4. CASE UNCHANGED vars   BY <1>4 DEF vars
<1>. QED   BY <1>1, <1>2, <1>3, <1>4 DEF Next, Thread

\* The reader thread's state stays well typed.
THEOREM TypeSafe == Spec => []TypeOK
<1>1. Init => TypeOK   BY DEF Init, TypeOK
<1>2. TypeOK /\ [Next]_vars => TypeOK'   BY TypeStep
<1>. QED   BY <1>1, <1>2, PTL DEF Spec

\* What a synchronized update holds back is published by whatever closes it.
THEOREM HeldBackSafe == Spec => []HeldBackOnlyInSync
<1>1. Init => HeldBackOnlyInSync   BY DEF Init, HeldBackOnlyInSync
<1>2. TypeOK /\ HeldBackOnlyInSync /\ [Next]_vars => HeldBackOnlyInSync'
    BY HeldBackStep
<1>. QED   BY <1>1, <1>2, TypeSafe, PTL DEF Spec

\* A PaneDirty that was put off is never forgotten.
THEOREM PutOffSafe == Spec => []PutOffIsRemembered
<1>1. Init => PutOffIsRemembered   BY DEF Init, PutOffIsRemembered
<1>2. TypeOK /\ PutOffIsRemembered /\ [Next]_vars => PutOffIsRemembered'
    BY PutOffStep
<1>. QED   BY <1>1, <1>2, TypeSafe, PTL DEF Spec
=============================================================================
