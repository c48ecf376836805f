------------------------- MODULE LifecycleContract -------------------------
(***************************************************************************)
(* What the job table of docs/ARCHITECTURE.md promises about the lifecycle *)
(* state of an instance, whatever the handlers do to get there:            *)
(*                                                                         *)
(*    create   -               -> Stopped                                  *)
(*    start    Stopped         -> Running                                  *)
(*    stop     Running         -> Stopped                                  *)
(*    delete   Stopped/Running -> Deleted                                  *)
(*                                                                         *)
(* Every step is one row for one instance; Deleted is final.               *)
(***************************************************************************)

CONSTANT Id

VARIABLE status    \* status[i]: the lifecycle state recorded for instance i

Status == {"none", "stopped", "running", "deleted"}

TypeOK == status \in [Id -> Status]

Init == status = [i \in Id |-> "none"]

Move(i, from, to) ==
    /\ status[i] \in from
    /\ status' = [status EXCEPT ![i] = to]

Next ==
    \E i \in Id :
        \/ Move(i, {"none"}, "stopped")                 \* create
        \/ Move(i, {"stopped"}, "running")              \* start
        \/ Move(i, {"running"}, "stopped")              \* stop
        \/ Move(i, {"stopped", "running"}, "deleted")   \* delete

Spec == Init /\ [][Next]_status

=============================================================================
