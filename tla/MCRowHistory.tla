---------------------------- MODULE MCRowHistory ----------------------------
(* Finite instances of RowHistory. *)
EXTENDS RowHistory

MCInput == {"linefeed", "wrap", "move", "region", "scroll", "back", "reverse",
            "insert", "delete", "clear", "saved", "reset", "columns", "uncolumns",
            "enter", "leave", "mark"}
MCPlain == {"linefeed", "clear"}
MCShell == {"linefeed", "insert", "mark"}
MCCapacities == {0, 1, 2}
MCOneCapacity == {1}
=============================================================================
