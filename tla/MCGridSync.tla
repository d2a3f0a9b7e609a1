----------------------------- MODULE MCGridSync -----------------------------
(* Finite instances of GridSync. *)
EXTENDS GridSync

CONSTANTS t1, t2, m1

\* A resize between these changes both the number of rows and the width.
MCTwoSizes == {<<1, 2>>, <<2, 1>>}
MCOneRow == {<<1, 1>>}
MCOneText == {t1}
MCTexts == {t1, t2}
MCOneMeta == {m1}
=============================================================================
