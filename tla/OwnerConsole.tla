---------------------------- MODULE OwnerConsole ----------------------------
(***************************************************************************)
(* The owner UI's panel (ui/src/App.tsx, InstanceRuntimePanel): the list   *)
(* of instances and the selection, the bearer token, the sessions scoped   *)
(* to one instance, and the handlers behind the buttons.  A handler is an  *)
(* async function that keeps the selection, wallet and token of the render *)
(* it was clicked in; its answers come later, in any order, when all of    *)
(* these may have changed.                                                 *)
(*                                                                         *)
(* External: the node (its list only grows, and what it shows of it is up  *)
(* to the token), the wallet, submitJob, which signs with the account that *)
(* is connected when it is called, and ensureTargetChain, which module     *)
(* WalletChain models.                                                     *)
(***************************************************************************)
EXTENDS Naturals, FiniteSets

CONSTANTS
    Id,          \* instances
    Wallet,      \* accounts that may be connected
    OwnerOf,     \* the owner of each instance
    ByToken,     \* instances whose authMode is access_token
    Bearer,      \* bearer tokens
    DemoToken,   \* DEMO_TOKEN
    Sees,        \* the instances a token may list: all, or its own
    Refused,     \* tokens that the node may refuse: unknown to it, or expired
    DevToken,    \* is DEV_INSTANCE_ACCESS_TOKEN set?
    DemoMode,    \* the values of DEMO_MODE considered; a build has one
    Task,        \* handlers under way at the same time
    None,
    MaxMoves     \* bound on what user and wallet do

ASSUME ConsoleAssumption ==
    /\ OwnerOf \in [Id -> Wallet] /\ ByToken \subseteq Id
    /\ DemoToken \in Bearer /\ Refused \subseteq Bearer
    /\ Sees \in [Bearer -> SUBSET Id]
    /\ DevToken \in BOOLEAN /\ DemoMode \in SUBSET BOOLEAN /\ MaxMoves \in Nat
    /\ None \notin Id \cup Wallet \cup Bearer

VARIABLES
    node,        \* instances the node has
    bearer,      \* token
    wallet,      \* connectedWallet
    listed,      \* instances
    selected,    \* selectedId
    scoped,      \* scopedSessions
    shown,       \* instanceAccess, terminalOutput, teeOutput
    confirm,     \* pendingLifecycleConfirm: the instance it names
    busy,        \* isRefreshing, isCreatingScopedSession, isSetupStarting, isProvisioning
    due,         \* the effect on [token, refresh] has yet to run
    task,
    moves

vars == <<node, bearer, wallet, listed, selected, scoped, shown, confirm,
          busy, due, task, moves>>

Panel == {"access", "terminal", "tee"}
Kind == Panel \cup {"session", "setup", "chat", "ssh"}
Flag == {"refresh", "session", "setup", "provision"}

Authorizing == {"challenge", "sign", "verify", "token"}
Stage == Authorizing \cup
    {"idle", "timer", "list", "retry", "show", "call", "chain", "submit", "provision", "provisioned"}

TaskState == [at : Stage, kind : Kind \cup Flag \cup {"job"}, of : Id \cup {None},
              by : Wallet \cup {None}, with : Bearer \cup {None}, named : Id \cup {None},
              got : SUBSET Id]

Idle == [at |-> "idle", kind |-> "job", of |-> None, by |-> None, with |-> None,
         named |-> None, got |-> {}]

Session == [of : Id, by : Wallet \cup {None}, fresh : BOOLEAN]

TypeOK ==
    /\ node \in SUBSET Id /\ listed \in SUBSET Id
    /\ bearer \in Bearer \cup {None} /\ wallet \in Wallet \cup {None}
    /\ selected \in Id \cup {None}
    /\ scoped \in [Id -> Session \cup {None}]
    /\ shown \in [Panel -> [of : Id, late : BOOLEAN] \cup {None}]
    /\ confirm \in Id \cup {None}
    /\ busy \in SUBSET Flag /\ due \in BOOLEAN
    /\ task \in [Task -> TaskState]
    /\ moves \in 0..MaxMoves

\* The first render: a saved token or the demo token; the URL may name an
\* instance.
Init ==
    /\ node \in SUBSET Id
    /\ bearer \in Bearer /\ wallet = None
    /\ listed = {} /\ selected \in Id \cup {None}
    /\ scoped = [i \in Id |-> None]
    /\ shown = [p \in Panel |-> None]
    /\ confirm = None
    /\ busy = {} /\ due = TRUE
    /\ task = [t \in Task |-> Idle]
    /\ moves = 0

-----------------------------------------------------------------------------
(* What user, wallet and node do *)

Move == moves < MaxMoves /\ moves' = moves + 1

\* selectedInstance
HasSelection == selected \in listed

\* Mutant: the effect forgets one of the panels.
SelectKeepsTee(i) ==
    /\ selected' = i
    /\ shown' = IF i = selected THEN shown
                ELSE [p \in Panel |-> IF p = "tee" THEN shown[p] ELSE None]

\* setSelectedId, and the effect that clears what belongs to the instance left.
Select(i) ==
    /\ selected' = i
    /\ shown' = IF i = selected THEN shown ELSE [p \in Panel |-> None]

NodeCreates(i) ==
    /\ i \notin node
    /\ node' = node \cup {i}
    /\ UNCHANGED <<bearer, wallet, listed, selected, scoped, shown, confirm,
                   busy, due, task, moves>>

SwitchWallet(w) ==
    /\ Move
    /\ w # wallet
    /\ wallet' = w
    /\ due' = TRUE
    /\ UNCHANGED <<node, bearer, listed, selected, scoped, shown, confirm, busy, task>>

\* onSaveToken and onUseDemoToken; b is None when the field is empty.
SaveToken(b) ==
    /\ Move
    /\ b # bearer /\ confirm = None
    /\ bearer' = b
    /\ due' = TRUE
    /\ UNCHANGED <<node, wallet, listed, selected, scoped, shown, confirm, busy, task>>

ClickInstance(i) ==
    /\ Move
    /\ i \in listed /\ confirm = None
    /\ Select(i)
    /\ UNCHANGED <<node, bearer, wallet, listed, scoped, confirm, busy, due, task>>

\* expiresAt is 30 seconds away.
Expire(i) ==
    /\ scoped[i] # None /\ scoped[i].fresh
    /\ scoped' = [scoped EXCEPT ![i].fresh = FALSE]
    /\ UNCHANGED <<node, bearer, wallet, listed, selected, shown, confirm,
                   busy, due, task, moves>>

-----------------------------------------------------------------------------
(* refresh *)

\* Mutant: the current selection is looked for in the list on the screen.
ReselectOnScreen(list, w) ==
    LET mine == {i \in list : OwnerOf[i] = w}
    IN  IF selected \in listed /\ (w = None \/ OwnerOf[selected] = w \/ mine = {}) THEN {selected}
        ELSE IF mine # {} THEN mine
        ELSE IF list # {} THEN list ELSE {None}

\* What the update function of setSelectedId makes of the current selection;
\* the first of several is up to the order of the list.
Reselect(list, w) ==
    LET mine == {i \in list : OwnerOf[i] = w}
    IN  IF selected \in list /\ (w = None \/ selected \in mine \/ mine = {}) THEN {selected}
        ELSE IF mine # {} THEN mine
        ELSE IF list # {} THEN list ELSE {None}

\* The body of refresh up to its first await, with the token and wallet b and
\* w of the render that made it.
Refresh(t, b, w) ==
    IF b = None
    THEN /\ Select(selected)
         /\ listed' = {}
         /\ task' = [task EXCEPT ![t] = Idle]
         /\ UNCHANGED busy
    ELSE /\ task' = [task EXCEPT ![t] = [Idle EXCEPT !.at = "list", !.kind = "refresh",
                                                      !.by = w, !.with = b]]
         /\ busy' = busy \cup {"refresh"}
         /\ UNCHANGED <<listed, selected, shown>>

\* The effect; it does nothing without a token.
RunEffect(t) ==
    /\ due /\ task[t].at = "idle"
    /\ due' = FALSE
    /\ IF bearer = None
       THEN UNCHANGED <<listed, selected, shown, task, busy>>
       ELSE Refresh(t, bearer, wallet)
    /\ UNCHANGED <<node, bearer, wallet, scoped, confirm, moves>>

ClickRefresh(t) ==
    /\ Move
    /\ task[t].at = "idle" /\ confirm = None
    /\ "refresh" \notin busy /\ bearer # None
    /\ Refresh(t, bearer, wallet)
    /\ UNCHANGED <<node, bearer, wallet, scoped, confirm, due>>

\* setTimeout(() => void refresh(), 2500), with the refresh of that render.
TimerFires(t) ==
    /\ task[t].at = "timer"
    /\ Refresh(t, task[t].with, task[t].by)
    /\ UNCHANGED <<node, bearer, wallet, scoped, confirm, due, moves>>

\* The node lists what it has now and the token may see.  The answer takes its
\* time to the browser.
NodeLists(t) ==
    /\ task[t].at \in {"list", "retry"}
    /\ task' = [task EXCEPT ![t].at = "show", ![t].got = node \cap Sees[task[t].with]]
    /\ UNCHANGED <<node, bearer, wallet, listed, selected, scoped, shown, confirm,
                   busy, due, moves>>

\* Templates and instances have arrived, the node may have more by now;
\* setIsRefreshing(false).
ShowList(t) ==
    /\ task[t].at = "show"
    /\ listed' = task[t].got
    /\ \E i \in Reselect(task[t].got, task[t].by) : Select(i)
    /\ task' = [task EXCEPT ![t] = Idle]
    /\ busy' = busy \ {"refresh"}
    /\ UNCHANGED <<node, bearer, wallet, scoped, confirm, due, moves>>

\* Unauthorized: the demo token replaces whatever token there is by now, and
\* the lists are asked for once more.
FallBack(t) ==
    /\ task[t].at = "list" /\ task[t].with \in Refused /\ task[t].with # DemoToken
    /\ task' = [task EXCEPT ![t].at = "retry", ![t].with = DemoToken]
    /\ bearer' = DemoToken
    /\ due' = (due \/ bearer # DemoToken)
    /\ UNCHANGED <<node, wallet, listed, selected, scoped, shown, confirm, busy, moves>>

\* Mutant: the spinner stops only if the first request fails.
RefreshFailsSpinning(t) ==
    /\ task[t].at \in {"list", "retry"}
    /\ task' = [task EXCEPT ![t] = Idle]
    /\ busy' = IF task[t].at = "retry" THEN busy ELSE busy \ {"refresh"}
    /\ UNCHANGED <<node, bearer, wallet, listed, selected, scoped, shown, confirm, due, moves>>

\* Any other failure, or that of the second attempt.
RefreshFails(t) ==
    /\ task[t].at \in {"list", "retry"}
    /\ task' = [task EXCEPT ![t] = Idle]
    /\ busy' = busy \ {"refresh"}
    /\ UNCHANGED <<node, bearer, wallet, listed, selected, scoped, shown, confirm, due, moves>>

-----------------------------------------------------------------------------
(* ensureScopedSession, and the handlers that need it *)

Own(k) == IF k = "setup" THEN {"setup"} ELSE {}

\* Where ensureScopedSession goes first; "idle" when it throws at once.  The
\* access token of the instance may not have been entered.
FirstStage(i) ==
    IF i \in ByToken THEN {"token", "idle"}
    ELSE IF wallet = OwnerOf[i] THEN {"challenge"} ELSE {"idle"}

\* A click on a button of the selected instance.  finally resets
\* isCreatingScopedSession even if another handler is creating a session.
Begin(t, k) ==
    /\ Move
    /\ task[t].at = "idle" /\ HasSelection /\ confirm = None
    /\ IF scoped[selected] # None /\ scoped[selected].fresh
       THEN IF k = "session" THEN UNCHANGED <<task, busy>>
            ELSE /\ task' = [task EXCEPT ![t] = [Idle EXCEPT !.at = "call", !.kind = k, !.of = selected]]
                 /\ busy' = busy \cup Own(k)
       ELSE \E s \in FirstStage(selected) :
              IF s = "idle" THEN task' = task /\ busy' = busy \ {"session"}
              ELSE /\ task' = [task EXCEPT ![t] =
                          [Idle EXCEPT !.at = s, !.kind = k, !.of = selected,
                                       !.by = IF s = "challenge" THEN wallet ELSE None]]
                   /\ busy' = busy \cup Own(k) \cup {"session"}
    /\ UNCHANGED <<node, bearer, wallet, listed, selected, scoped, shown, confirm, due>>

CreateScopedSession(t) == "session" \notin busy /\ Begin(t, "session")
OneClickSetup(t) == "setup" \notin busy /\ Begin(t, "setup")
FetchInstanceAccess(t) == Begin(t, "access")
RunTerminalCommand(t) == Begin(t, "terminal")
QuickChat(t) == Begin(t, "chat")
SshUpsert(t) == Begin(t, "ssh")
TeeRequest(t) == Begin(t, "tee")

Goes(t, s) ==
    /\ task' = [task EXCEPT ![t].at = s]
    /\ UNCHANGED <<scoped, busy>>

\* Mutant: what a failed call returned is kept as if it were a session.
ThrowsCached(t) ==
    /\ task' = [task EXCEPT ![t] = Idle]
    /\ busy' = busy \ ({"session"} \cup Own(task[t].kind))
    /\ scoped' = [scoped EXCEPT ![task[t].of] = [of |-> @, by |-> None, fresh |-> None]]

\* The exception leaves the handler.
Throws(t) ==
    /\ task' = [task EXCEPT ![t] = Idle]
    /\ busy' = busy \ ({"session"} \cup Own(task[t].kind))
    /\ UNCHANGED scoped

\* The access token of the build replaces a challenge or signature that failed.
DevFallback(t) ==
    IF DevToken
    THEN /\ task' = [task EXCEPT ![t].at = "token", ![t].by = None]
         /\ UNCHANGED <<scoped, busy>>
    ELSE Throws(t)

\* Mutant: the session is filed under the instance that is selected by now.
StoreUnderSelection(t) ==
    /\ scoped' = IF selected = None THEN scoped ELSE
                 [scoped EXCEPT ![selected] = [of |-> task[t].of, by |-> task[t].by, fresh |-> TRUE]]
    /\ task' = [task EXCEPT ![t] = IF @.kind = "session" THEN Idle
                                   ELSE [@ EXCEPT !.at = "call", !.by = None]]
    /\ busy' = busy \ {"session"}

\* setScopedSessions; the handler goes on with its own request.
Store(t) ==
    /\ scoped' = [scoped EXCEPT ![task[t].of] =
                      [of |-> task[t].of, by |-> task[t].by, fresh |-> TRUE]]
    /\ task' = [task EXCEPT ![t] = IF @.kind = "session" THEN Idle
                                   ELSE [@ EXCEPT !.at = "call", !.by = None]]
    /\ busy' = busy \ {"session"}

Authorize(t) ==
    /\ \/ task[t].at = "challenge" /\ (Goes(t, "sign") \/ DevFallback(t))
       \/ task[t].at = "sign" /\ (Goes(t, "verify") \/ DevFallback(t))
       \* The promise is returned and not awaited: no fallback for it.
       \/ task[t].at \in {"verify", "token"} /\ (Store(t) \/ Throws(t))
    /\ UNCHANGED <<node, bearer, wallet, listed, selected, shown, confirm, due, moves>>

\* The answer to the handler's own request is shown, whatever is selected now.
CallAnswer(t) ==
    /\ task[t].at = "call"
    /\ task' = [task EXCEPT ![t] = Idle]
    /\ busy' = busy \ Own(task[t].kind)
    /\ \/ /\ task[t].kind \in Panel
          /\ shown' = [shown EXCEPT ![task[t].kind] =
                          [of |-> task[t].of, late |-> task[t].of # selected]]
       \/ UNCHANGED shown
    /\ UNCHANGED <<node, bearer, wallet, listed, selected, scoped, confirm, due, moves>>

-----------------------------------------------------------------------------
(* Jobs.  The buttons are also off while a transaction is being signed or is *)
(* pending for less than 90 seconds (lifecycleTxBusy); that is left out, so   *)
(* jobs overlap here more than they can.                                      *)

\* requestLifecycleConfirm: the dialog keeps the name of the instance.
RequestConfirm ==
    /\ Move
    /\ HasSelection /\ confirm = None
    /\ wallet = OwnerOf[selected]
    /\ confirm' = selected
    /\ UNCHANGED <<node, bearer, wallet, listed, selected, scoped, shown, busy, due, task>>

Cancel ==
    /\ confirm # None
    /\ confirm' = None
    /\ UNCHANGED <<node, bearer, wallet, listed, selected, scoped, shown, busy, due, task, moves>>

\* onSubmitLifecycleJob, for the instance that is selected now; n is the one
\* the dialog names.
SubmitLifecycleJob(t, n) ==
    IF HasSelection /\ wallet = OwnerOf[selected]
    THEN task' = [task EXCEPT ![t] =
             [Idle EXCEPT !.at = "chain", !.of = selected, !.by = wallet, !.with = bearer,
                          !.named = n]]
    ELSE UNCHANGED task

\* executeLifecycleConfirm
ExecuteConfirm(t) ==
    /\ confirm # None /\ task[t].at = "idle"
    /\ confirm' = None
    /\ SubmitLifecycleJob(t, confirm)
    /\ UNCHANGED <<node, bearer, wallet, listed, selected, scoped, shown, busy, due, moves>>

\* Start needs no confirmation.
ClickStart(t) ==
    /\ Move
    /\ task[t].at = "idle" /\ confirm = None
    /\ SubmitLifecycleJob(t, None)
    /\ UNCHANGED <<node, bearer, wallet, listed, selected, scoped, shown, confirm, busy, due>>

\* ensureTargetChain and resolveServiceId succeed or not.
ChainAnswer(t) ==
    /\ task[t].at = "chain"
    /\ \/ task' = [task EXCEPT ![t].at = "submit"] /\ UNCHANGED busy
       \/ /\ task' = [task EXCEPT ![t] = Idle]
          /\ busy' = IF task[t].kind = "provision" THEN busy \ {"provision"} ELSE busy
    /\ UNCHANGED <<node, bearer, wallet, listed, selected, scoped, shown, confirm, due, moves>>

\* submitJob has the wallet that is connected by now sign, whichever the click
\* was checked with.  It returns a hash, and refresh is called 2.5 seconds
\* later; or it returns none.
SubmitAnswer(t) ==
    /\ task[t].at = "submit"
    /\ \/ /\ wallet # None
          /\ task' = [task EXCEPT ![t] = [Idle EXCEPT !.at = "timer", !.kind = "refresh",
                                                     !.by = task[t].by, !.with = task[t].with]]
       \/ task' = [task EXCEPT ![t] = Idle]
    /\ busy' = IF task[t].kind = "provision" THEN busy \ {"provision"} ELSE busy
    /\ UNCHANGED <<node, bearer, wallet, listed, selected, scoped, shown, confirm, due, moves>>

\* onProvisionInstance: by the API of the demo server, or as a job.
ProvisionInstance(t) ==
    /\ Move
    /\ task[t].at = "idle" /\ confirm = None
    /\ "provision" \notin busy
    /\ \E demo \in DemoMode :
          /\ IF demo THEN bearer # None ELSE wallet # None
          /\ task' = [task EXCEPT ![t] =
                 [Idle EXCEPT !.kind = "provision", !.by = wallet, !.with = bearer,
                              !.at = IF demo THEN "provision" ELSE "chain"]]
    /\ busy' = busy \cup {"provision"}
    /\ UNCHANGED <<node, bearer, wallet, listed, selected, scoped, shown, confirm, due>>

\* The server creates the instance, or refuses.
Provisioned(t) ==
    /\ task[t].at = "provision"
    /\ \/ \E i \in Id \ node :
            /\ node' = node \cup {i}
            /\ task' = [task EXCEPT ![t].at = "provisioned", ![t].of = i]
            /\ UNCHANGED busy
       \/ /\ task' = [task EXCEPT ![t] = Idle]
          /\ busy' = busy \ {"provision"}
          /\ UNCHANGED node
    /\ UNCHANGED <<bearer, wallet, listed, selected, scoped, shown, confirm, due, moves>>

\* The answer: the instance is listed and selected.
ShowProvisioned(t) ==
    /\ task[t].at = "provisioned"
    /\ listed' = listed \cup {task[t].of}
    /\ Select(task[t].of)
    /\ task' = [task EXCEPT ![t] = Idle]
    /\ busy' = busy \ {"provision"}
    /\ UNCHANGED <<node, bearer, wallet, scoped, confirm, due, moves>>

-----------------------------------------------------------------------------

Answer(t) ==
    \/ TimerFires(t) \/ NodeLists(t) \/ ShowList(t) \/ FallBack(t) \/ RefreshFails(t)
    \/ Authorize(t) \/ CallAnswer(t)
    \/ ChainAnswer(t) \/ SubmitAnswer(t) \/ Provisioned(t) \/ ShowProvisioned(t)

Click(t) ==
    \/ ClickRefresh(t) \/ CreateScopedSession(t) \/ OneClickSetup(t)
    \/ FetchInstanceAccess(t) \/ RunTerminalCommand(t) \/ QuickChat(t)
    \/ SshUpsert(t) \/ TeeRequest(t)
    \/ ExecuteConfirm(t) \/ ClickStart(t) \/ ProvisionInstance(t)

Next ==
    \/ \E i \in Id : NodeCreates(i) \/ ClickInstance(i) \/ Expire(i)
    \/ \E w \in Wallet \cup {None} : SwitchWallet(w)
    \/ \E b \in Bearer \cup {None} : SaveToken(b)
    \/ RequestConfirm \/ Cancel
    \/ \E t \in Task : RunEffect(t) \/ Click(t) \/ Answer(t)

Spec == Init /\ [][Next]_vars

-----------------------------------------------------------------------------

\* The selection is never left dangling: as soon as a list is shown, the
\* selected instance is one of it, although an answer may be older than an
\* instance provisioned or selected meanwhile, asked for with a token that sees
\* less of the node, or by a render of another wallet (refresh, App.tsx:1107).
SelectionIsListed == listed # {} => selected \in listed

\* A session is filed under the instance it was asked for, whatever is
\* selected when it arrives, and one signed by a wallet was signed by the owner
\* (ensureScopedSession).
SessionsOfTheOwner ==
    \A i \in Id : scoped[i] # None =>
        scoped[i].of = i /\ scoped[i].by \in {None, OwnerOf[i]}

\* What a panel shows belongs to the selected instance, unless its answer came
\* after the selection had moved on (the handlers do not look).
PanelsFollowSelection ==
    \A p \in Panel : shown[p] # None => shown[p].of = selected \/ shown[p].late

\* A lifecycle job is signed and submitted in this step.
Submits(t) == task[t].at = "submit" /\ task[t].kind = "job" /\ task'[t].at = "timer"

\* "This will permanently delete ..." (App.tsx:3006): a confirmed job is for the
\* instance that the dialog named.  It does not hold of the code.
JobIsForTheNamed ==
    [][\A t \in Task : Submits(t) /\ task[t].named # None =>
           task[t].of = task[t].named]_vars

Working(f) ==
    CASE f = "refresh"   -> {t \in Task : task[t].at \in {"list", "retry", "show"}}
      [] f = "session"   -> {t \in Task : task[t].at \in Authorizing}
      [] f = "setup"     -> {t \in Task : task[t].kind = "setup"}
      [] f = "provision" -> {t \in Task : task[t].kind = "provision"}

\* A spinner is never left on without work, however handlers of the same kind
\* overlap; and setup and provisioning have theirs on all the time, so that
\* their buttons start one at a time.
BusyMeansWork ==
    /\ \A f \in busy : Working(f) # {}
    /\ \A f \in {"setup", "provision"} :
          /\ Working(f) # {} => f \in busy
          /\ \A t, u \in Working(f) : t = u

=============================================================================
