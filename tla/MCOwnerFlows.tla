---------------------------- MODULE MCOwnerFlows ----------------------------
(***************************************************************************)
(* The wallet's flows and the deletions of chat sessions.  They share no   *)
(* state, so a behaviour in which both move is one of each, side by side,  *)
(* and it is enough to look at the behaviours in which one of them moves.  *)
(***************************************************************************)
EXTENDS WalletChain, SessionDeletion

MCBuilds == [strict : BOOLEAN, contract : BOOLEAN, injected : BOOLEAN]

VARIABLE moving    \* which of them moves

MCInit ==
    /\ Init /\ DeletionInit
    /\ moving \in {"wallet", "deletions"}
    /\ moving = "deletions" =>
          /\ build = [strict |-> FALSE, contract |-> FALSE, injected |-> FALSE]
          /\ chain = Target /\ rpc = "app"

MCNext ==
    /\ \/ moving = "wallet" /\ Next /\ UNCHANGED deletionVars
       \/ moving = "deletions" /\ DeletionNext /\ UNCHANGED vars
    /\ UNCHANGED moving

MCSpec ==
    /\ MCInit /\ [][MCNext]_<<vars, deletionVars, moving>>
    /\ Fairness /\ DeletionFairness

=============================================================================
