---------------------------- MODULE MCDirtyLatch ----------------------------
(* Finite instances of DirtyLatch. *)
EXTENDS DirtyLatch

CONSTANTS s1, s2, io, reconnect, p1, p2

MCSubs == {s1, s2}
MCOneSub == {s1}
MCPanes == {p1, p2}
MCOnePane == {p1}
MCRouters == {io, reconnect}
MCOneRouter == {io}
=============================================================================
