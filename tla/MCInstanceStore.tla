-------------------------- MODULE MCInstanceStore --------------------------
(* Small instances of InstanceStore for TLC. *)
EXTENDS InstanceStore

CONSTANTS i1, i2, r1, r2, t1, t2

Keys == {i1, i2}
Vals == {r1, r2}
Threads == {t1, t2}
=============================================================================
