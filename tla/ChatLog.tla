------------------------------ MODULE ChatLog ------------------------------
(***************************************************************************)
(* What a chat session is to its owner: a log of answered messages that    *)
(* only grows until the session is closed, for good.  A message is         *)
(* answered at most once, in one session.                                  *)
(***************************************************************************)
EXTENDS Sequences

CONSTANTS
    Session, Request,
    NotYet, Gone        \* the session does not exist yet, or no longer

VARIABLE log

Entries(s) ==
    IF log[s] \in {NotYet, Gone} THEN {} ELSE {log[s][n] : n \in DOMAIN log[s]}

Init == log = [s \in Session |-> NotYet]

OpenLog(s) ==
    /\ log[s] = NotYet
    /\ log' = [log EXCEPT ![s] = <<>>]

Answer(s, r) ==
    /\ log[s] \notin {NotYet, Gone}
    /\ \A other \in Session : r \notin Entries(other)
    /\ log' = [log EXCEPT ![s] = Append(@, r)]

\* One session is deleted, or the node stops and all of them are lost.
CloseLog(closed) ==
    /\ \A s \in closed : log[s] # NotYet
    /\ log' = [s \in Session |-> IF s \in closed THEN Gone ELSE log[s]]

Next ==
    \/ \E s \in Session : OpenLog(s) \/ \E r \in Request : Answer(s, r)
    \/ \E closed \in SUBSET Session : CloseLog(closed)

Spec == Init /\ [][Next]_log

=============================================================================
