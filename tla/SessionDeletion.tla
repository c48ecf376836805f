--------------------------- MODULE SessionDeletion ---------------------------
(***************************************************************************)
(* Deleting a chat session in the owner UI (ui/src/App.tsx): the deletion  *)
(* is announced in a notice with an Undo button, a timer sends it later,   *)
(* and the callbacks of the request tidy up.  There is one timer ref and   *)
(* one pending deletion, but requests may be slow, so that several         *)
(* deletions can be at different stages.                                   *)
(*                                                                         *)
(* The mutation hook (TanStack Query) is external: it runs the callbacks   *)
(* of the request that was sent last, and no others.                       *)
(*                                                                         *)
(* The names of the specification are its own, so that one module can      *)
(* extend this one and WalletChain.                                        *)
(***************************************************************************)
EXTENDS Naturals

CONSTANTS
    Session,     \* chat sessions of the selected instance
    Slot,        \* deletions at some stage, at the same time
    Nothing      \* no session, no deletion: null

ASSUME DeletionAssumption == Nothing \notin Session /\ Nothing \notin Slot

VARIABLES
    live,      \* sessions the node has
    slot,      \* each deletion: its session, and how far it is
    latest,    \* the deletion whose request was sent last
    timer,     \* sessionDeleteTimerRef
    pending,   \* pendingSessionDelete
    toast      \* the session that the Undo button on the screen is about

deletionVars == <<live, slot, latest, timer, pending, toast>>

Free == [at |-> "free", of |-> Nothing]

DeletionStage == {"free", "armed", "sent", "deleted", "failed"}

DeletionTypeOK ==
    /\ live \in SUBSET Session
    /\ slot \in [Slot -> [at : DeletionStage, of : Session \cup {Nothing}]]
    /\ latest \in Slot \cup {Nothing} /\ timer \in Slot \cup {Nothing}
    /\ pending \in Session \cup {Nothing} /\ toast \in Session \cup {Nothing}

DeletionInit ==
    /\ live = Session
    /\ slot = [d \in Slot |-> Free]
    /\ latest = Nothing /\ timer = Nothing /\ pending = Nothing /\ toast = Nothing

\* Mutant: the deletion is overwritten with null.
ClearedToNone(d) ==
    IF d # Nothing /\ slot[d].at = "armed" THEN [slot EXCEPT ![d] = Nothing] ELSE slot

\* clearTimeout does nothing to a timer that has fired.
Cleared(d) ==
    IF d # Nothing /\ slot[d].at = "armed" THEN [slot EXCEPT ![d] = Free] ELSE slot

\* Mutant: the timer is not remembered.
QueueWithoutRef(s, d) ==
    /\ pending # s
    /\ slot[d].at = "free"
    /\ slot' = [Cleared(timer) EXCEPT ![d] = [at |-> "armed", of |-> s]]
    /\ timer' = Nothing
    /\ pending' = s /\ toast' = s
    /\ UNCHANGED <<live, latest>>

\* queueSessionDelete.  The button of the pending session is disabled; the
\* list on the screen may still show sessions that are gone.
QueueSessionDelete(s, d) ==
    /\ pending # s
    /\ slot[d].at = "free"
    /\ slot' = [Cleared(timer) EXCEPT ![d] = [at |-> "armed", of |-> s]]
    /\ timer' = d
    /\ pending' = s /\ toast' = s
    /\ UNCHANGED <<live, latest>>

\* The timer fires and the mutation is sent.
Fire(d) ==
    /\ slot[d].at = "armed"
    /\ slot' = [slot EXCEPT ![d].at = "sent"]
    /\ latest' = d
    /\ UNCHANGED <<live, timer, pending, toast>>

\* The node deletes the session; the request may fail before or after that.
Handle(d) ==
    /\ slot[d].at = "sent"
    /\ \/ /\ slot[d].of \in live
          /\ live' = live \ {slot[d].of}
          /\ \E at \in {"deleted", "failed"} : slot' = [slot EXCEPT ![d].at = at]
       \/ /\ slot' = [slot EXCEPT ![d].at = "failed"]
          /\ UNCHANGED live
    /\ UNCHANGED <<latest, timer, pending, toast>>

\* Mutant: onError leaves the pending deletion.
SettleKeepsPending(d) ==
    /\ slot[d].at \in {"deleted", "failed"}
    /\ slot' = [slot EXCEPT ![d] = Free]
    /\ IF d = latest
       THEN /\ timer' = Nothing
            /\ pending' = IF slot[d].at = "deleted" THEN Nothing ELSE pending
       ELSE UNCHANGED <<timer, pending>>
    /\ UNCHANGED <<live, latest, toast>>

\* The answer arrives.  onSuccess and onError reset ref and pending deletion,
\* whichever deletion these belong to by now.
Settle(d) ==
    /\ slot[d].at \in {"deleted", "failed"}
    /\ slot' = [slot EXCEPT ![d] = Free]
    /\ IF d = latest
       THEN /\ timer' = Nothing
            /\ pending' = Nothing
       ELSE UNCHANGED <<timer, pending>>
    /\ UNCHANGED <<live, latest, toast>>

\* undoPendingSessionDelete, as the notice on the screen has captured it: it
\* names its own session, and clears the timer in the ref.
Undo ==
    /\ toast # Nothing
    /\ slot' = Cleared(timer)
    /\ timer' = Nothing /\ pending' = Nothing /\ toast' = Nothing
    /\ UNCHANGED <<live, latest>>

\* Another instance is selected: the effect undoes what is pending.
SwitchInstance ==
    /\ pending # Nothing
    /\ slot' = Cleared(timer)
    /\ timer' = Nothing /\ pending' = Nothing
    /\ UNCHANGED <<live, latest, toast>>

\* The notice is closed, or its 8.5 seconds are over.
ToastGone ==
    /\ toast # Nothing
    /\ toast' = Nothing
    /\ UNCHANGED <<live, slot, latest, timer, pending>>

DeletionNext ==
    \/ \E d \in Slot :
        \/ \E s \in Session : QueueSessionDelete(s, d)
        \/ Fire(d) \/ Handle(d) \/ Settle(d)
    \/ Undo \/ SwitchInstance \/ ToastGone

DeletionSpec == DeletionInit /\ [][DeletionNext]_deletionVars

\* The browser fires timers, and every request is answered or fails.
DeletionFairness ==
    \A d \in Slot : WF_deletionVars(Fire(d)) /\ WF_deletionVars(Handle(d)) /\ WF_deletionVars(Settle(d))

-----------------------------------------------------------------------------

\* While a deletion is pending, the ref holds that deletion's own timer, unless
\* all is over with it: undoing it or queueing another one clears the right
\* timer, whatever slow requests settle meanwhile (the callbacks reset ref and
\* pending deletion together).
UndoReachesTheTimer ==
    pending # Nothing =>
        /\ timer # Nothing
        /\ slot[timer].of = pending \/ slot[timer] = Free

\* A pending deletion is settled, undone or replaced some day, also when its
\* own callbacks are dropped because another request was sent after it; its
\* button does not say "Pending" for ever.
PendingResolves == \A s \in Session : pending = s ~> pending # s

\* What the notice of App.tsx:1053 offers: Undo pressed while the timer of the
\* session it names still runs stops the deletion.
UndoInTimeCancels ==
    [][Undo => \A d \in Slot : slot[d].of = toast => slot'[d].at # "armed"]_deletionVars

=============================================================================
