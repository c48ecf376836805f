-------------------------- MODULE MCClawLifecycle --------------------------
(* Small instances of ClawLifecycle for TLC. *)
EXTENDS ClawPromises, TLC

CONSTANTS a, b, alice, bob, p1, p2, t1, t2

One == {a}
Two == {a, b}
OneOwner == {alice}
TwoOwners == {alice, bob}
OnePort == {p1}
Ports == {p1, p2}
OneTask == {t1}
TwoTasks == {t1, t2}

\* Tasks are interchangeable, and so are owners.
Symmetry == Permutations(TwoTasks) \cup Permutations(TwoOwners)

\* -1: as many as they like.
Limits(job, setup, query, docker, st, crash, power, outside) ==
    "job" :> job @@ "setup" :> setup @@ "query" :> query @@ "docker" :> docker
        @@ "store" :> st @@ "crash" :> crash @@ "power" :> power
        @@ "outside" :> outside

Overlap == Limits(4, 1, 1, 1, 1, 0, 1, 1)
Serial == Limits(3, 1, 2, 1, 1, 1, 0, 1)
Settling == Limits(2, 0, -1, 1, 1, 0, 0, 1)
NoFaults == Limits(-1, 0, -1, 0, 0, 0, 0, 0)
OneFault == Limits(-1, 0, -1, 1, 0, 0, 0, 0)
OneDelete == Limits(2, 0, -1, 0, 0, 0, 0, 0)
=============================================================================
