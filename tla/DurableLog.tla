------------------------------ MODULE DurableLog ------------------------------
(***************************************************************************)
(* What the write-ahead log promises: a set of numbered entries that only   *)
(* grows, by entries newer than all the others, until it is emptied as a    *)
(* whole, and only when each of them has a version node.  Crashes and       *)
(* restarts do not show.                                                    *)
(***************************************************************************)
EXTENDS Naturals

CONSTANT MaxSeq

VARIABLES
    log,        \* the entries a restart would replay
    persisted   \* the entries that have a version node

Commit ==
    /\ \E S \in (SUBSET (1..MaxSeq)) \ {{}} :
        /\ \A s \in S, t \in log : s > t
        /\ log' = log \cup S
    /\ UNCHANGED persisted

Persist ==
    /\ \E s \in log : persisted' = persisted \cup {s}
    /\ UNCHANGED log

Truncate ==
    /\ log \subseteq persisted
    /\ log' = {}
    /\ UNCHANGED persisted

Init == log = {} /\ persisted = {}

Next == Commit \/ Persist \/ Truncate

Spec == Init /\ [][Next]_<<log, persisted>>
=============================================================================
