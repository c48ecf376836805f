---------------------------- MODULE ClawPromises ----------------------------
(***************************************************************************)
(* What the repository's documents and comments say of the node as a       *)
(* whole, stated over ClawLifecycle: the job table, and how records and    *)
(* containers come to agree.  Some of it does not hold of the code.        *)
(***************************************************************************)
EXTENDS ClawLifecycle

StatusOf(r) == IF r = NoRecord THEN "none" ELSE r.state

Contract == INSTANCE LifecycleContract
    WITH status <- [i \in Id |-> StatusOf(store[i])]

\* The job table of ARCHITECTURE.md: while handlers do not overlap, every
\* change of the map that is served is one row of it, however many docker
\* commands, failures, restarts of the process and outside changes it took.  (A
\* power loss can bring back an older file, and is bounded to 0 for it: after a
\* failed save and a restart, the map that is served was never synced.)
KeepsContract == Contract!Spec

\* "The record is kept for audit purposes but marked as deleted" (lifecycle.rs):
\* once a record says deleted, no later write says anything else.
DeletedIsFinal ==
    [][\A i \in Id : IsDeleted(store[i]) => IsDeleted(store'[i])]_vars

-----------------------------------------------------------------------------
(* Convergence *)

\* Handlers run to their end.  Nobody has to ask for an instance.
Fairness == \A t \in Task : WF_vars(Progress(t))

FairSpec == Spec /\ Fairness

\* The record says running exactly when the container runs.
Agreement ==
    \A i \in Id : store[i] # NoRecord =>
        (Running(i) <=> store[i].state = "running")

\* Somebody asks for each instance again and again: the only thing that makes
\* the node look at a container again.
KeepsAsking == \A i \in Id : []<><<\E t \in Task : Query(t, i)>>_vars

\* If somebody goes on asking once jobs, faults and outside changes have ended,
\* records and containers agree for good, even if handlers overlapped and wrote
\* stale copies back, and whatever failed before (refresh_instance).
Converges == KeepsAsking => <>[]Agreement

=============================================================================
