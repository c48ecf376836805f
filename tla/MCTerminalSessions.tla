------------------------- MODULE MCTerminalSessions -------------------------
(***************************************************************************)
(* Small instances of the terminal routes for TLC.                         *)
(***************************************************************************)
EXTENDS TerminalSessions

CONSTANTS i1, i2, alice

MCOwnerOf == [i \in Id |-> alice]
MCEvent == [of : Request, part : Part] \cup {Banner}

=============================================================================
