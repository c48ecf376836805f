--------------------------- MODULE MCOwnerConsole ---------------------------
EXTENDS OwnerConsole, TLC

CONSTANTS i1, i2, alice, bob, demo, narrow, t1, t2

\* Each wallet owns one instance, or one owns both.
MCOwnerOf == i1 :> alice @@ i2 :> bob
MCOneOwner == i1 :> alice @@ i2 :> alice

\* The operator's token sees all, a scoped one its own instance.
MCSees == demo :> {i1, i2} @@ narrow :> {i2}

\* Handlers are interchangeable.
Handlers == Permutations(Task)

=============================================================================
