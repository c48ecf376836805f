--------------------------- MODULE MCChatSessions ---------------------------
(***************************************************************************)
(* Small instances of the chat routes for TLC.  Two instances share an     *)
(* owner, so that a session can be the caller's and of another instance.   *)
(***************************************************************************)
EXTENDS ChatPromises

CONSTANTS i1, i2, alice

MCOwnerOf == [i \in Id |-> alice]
MCEvent == [type : {"reply", "idle"}, of : Request \cup {NoRequest}]

=============================================================================
