------------------------- MODULE OwnerConsoleProofs -------------------------
(***************************************************************************)
(* OwnerConsole, for any instances, wallets, tokens and number of handlers *)
(* at a time: its types and every safety invariant its run checks.         *)
(*                                                                         *)
(* The argument: what a handler acts on, it put into its own record when   *)
(* it was clicked, or the node put it there (the list, which may be old    *)
(* when it is shown).  Fit says what such a record can be at each stage.   *)
(* Nothing another handler, the wallet or the user does changes the        *)
(* record, so the invariants about what handlers leave behind follow from  *)
(* Fit.  That the selection is listed does not: it holds because list and  *)
(* selection are taken from the same answer, however old that is.          *)
(***************************************************************************)
EXTENDS OwnerConsole, TLAPS

(* The records of handlers. *)

Fit == {r \in TaskState :
        /\ r.at \in {"timer", "list", "retry", "show"} => r.kind = "refresh"
        /\ r.at \in Authorizing \cup {"call"} =>
             r.kind \in Kind /\ r.of \in Id /\ r.by \in {None, OwnerOf[r.of]}
        /\ r.at \in {"chain", "submit"} =>
             \/ r.kind = "provision"
             \/ r.kind = "job" /\ r.of \in Id
        /\ r.at \in {"provision", "provisioned"} => r.kind = "provision"
        /\ r.at = "provisioned" => r.of \in Id
        /\ r.at = "idle" => r.kind = "job"}

LEMMA IdleFit == Idle \in Fit
  BY DEF Idle, Fit, TaskState, Stage, Authorizing, Kind, Panel, Flag

LEMMA RefreshFit ==
  ASSUME NEW s \in {"timer", "list"}, NEW w \in Wallet \cup {None}, NEW b \in Bearer \cup {None}
  PROVE  [Idle EXCEPT !.at = s, !.kind = "refresh", !.by = w, !.with = b] \in Fit
  BY DEF Idle, Fit, TaskState, Stage, Authorizing, Kind, Panel, Flag

LEMMA CallFit ==
  ASSUME NEW k \in Kind, NEW i \in Id
  PROVE  [Idle EXCEPT !.at = "call", !.kind = k, !.of = i] \in Fit
  BY DEF Idle, Fit, TaskState, Stage, Authorizing, Kind, Panel, Flag

LEMMA BeginFit ==
  ASSUME NEW k \in Kind, NEW i \in Id, NEW s \in {"token", "challenge"}, NEW w \in {None, OwnerOf[i]}
  PROVE  [Idle EXCEPT !.at = s, !.kind = k, !.of = i, !.by = w] \in Fit
  BY ConsoleAssumption DEF Idle, Fit, TaskState, Stage, Authorizing, Kind, Panel, Flag

LEMMA JobFit ==
  ASSUME NEW i \in Id, NEW b \in Bearer \cup {None}, NEW n \in Id \cup {None}
  PROVE  [Idle EXCEPT !.at = "chain", !.of = i, !.by = OwnerOf[i], !.with = b,
                          !.named = n] \in Fit
  BY ConsoleAssumption DEF Idle, Fit, TaskState, Stage, Authorizing, Kind, Panel, Flag

LEMMA ProvisionFit ==
  ASSUME NEW s \in {"chain", "provision"}, NEW w \in Wallet \cup {None}, NEW b \in Bearer \cup {None}
  PROVE  [Idle EXCEPT !.kind = "provision", !.by = w, !.with = b, !.at = s] \in Fit
  BY ConsoleAssumption DEF Idle, Fit, TaskState, Stage, Authorizing, Kind, Panel, Flag

Tasks == task \in [Task -> Fit]

\* Every step gives one task a new state, or none.
LEMMA UpdateTasks ==
  ASSUME Tasks, NEW t \in Task, NEW r \in Fit, task' = [task EXCEPT ![t] = r]
  PROVE  Tasks'
  BY DEF Tasks

LEMMA RefreshTasks ==
  ASSUME Tasks, NEW t \in Task, NEW b \in Bearer \cup {None}, NEW w \in Wallet \cup {None},
         Refresh(t, b, w)
  PROVE  Tasks'
<1>1. CASE b = None
  BY <1>1, IdleFit, UpdateTasks DEF Refresh
<1>2. CASE b # None
  <2> DEFINE r == [Idle EXCEPT !.at = "list", !.kind = "refresh", !.by = w, !.with = b]
  <2>1. r \in Fit
    BY RefreshFit
  <2>2. task' = [task EXCEPT ![t] = r]
    BY <1>2 DEF Refresh
  <2> QED BY <2>1, <2>2, UpdateTasks
<1> QED BY <1>1, <1>2

LEMMA BeginTasks ==
  ASSUME TypeOK, Tasks, NEW t \in Task, NEW k \in Kind, Begin(t, k)
  PROVE  Tasks'
<1>1. selected \in Id
  BY DEF Begin, HasSelection, TypeOK
<1>2. CASE scoped[selected] # None /\ scoped[selected].fresh
  <2>1. CASE k = "session"
    BY <1>2, <2>1 DEF Begin, Tasks
  <2>2. CASE k # "session"
    <3>1. task' = [task EXCEPT ![t] = [Idle EXCEPT !.at = "call", !.kind = k, !.of = selected]]
      BY <1>2, <2>2 DEF Begin
    <3> QED BY <3>1, <1>1, CallFit, UpdateTasks
  <2> QED BY <2>1, <2>2
<1>3. CASE ~(scoped[selected] # None /\ scoped[selected].fresh)
  <2>1. PICK s \in FirstStage(selected) :
           IF s = "idle" THEN task' = task
           ELSE task' = [task EXCEPT ![t] =
                    [Idle EXCEPT !.at = s, !.kind = k, !.of = selected,
                                 !.by = IF s = "challenge" THEN wallet ELSE None]]
    BY <1>3 DEF Begin
  <2>2. CASE s = "idle"
    BY <2>1, <2>2 DEF Tasks
  <2>3. CASE s # "idle"
    <3> DEFINE w == IF s = "challenge" THEN wallet ELSE None
    <3>1. s \in {"token", "challenge"} /\ w \in {None, OwnerOf[selected]}
      BY <2>3 DEF FirstStage
    <3>2. task' = [task EXCEPT ![t] = [Idle EXCEPT !.at = s, !.kind = k, !.of = selected, !.by = w]]
      BY <2>1, <2>3
    <3>3. [Idle EXCEPT !.at = s, !.kind = k, !.of = selected, !.by = w] \in Fit
      BY <1>1, <3>1, BeginFit
    <3> QED BY <3>2, <3>3, UpdateTasks
  <2> QED BY <2>2, <2>3
<1> QED BY <1>2, <1>3

LEMMA SubmitTasks ==
  ASSUME TypeOK, Tasks, NEW t \in Task, NEW n \in Id \cup {None},
         SubmitLifecycleJob(t, n)
  PROVE  Tasks'
<1>1. CASE HasSelection /\ wallet = OwnerOf[selected]
  <2> DEFINE r == [Idle EXCEPT !.at = "chain", !.of = selected, !.by = OwnerOf[selected],
                               !.with = bearer, !.named = n]
  <2>1. selected \in Id /\ bearer \in Bearer \cup {None}
    BY <1>1 DEF HasSelection, TypeOK
  <2>2. r \in Fit
    BY <2>1, JobFit
  <2>3. task' = [task EXCEPT ![t] = r]
    BY <1>1 DEF SubmitLifecycleJob
  <2> QED BY <2>2, <2>3, UpdateTasks
<1>2. CASE ~(HasSelection /\ wallet = OwnerOf[selected])
  BY <1>2 DEF SubmitLifecycleJob, Tasks
<1> QED BY <1>1, <1>2

LEMMA MoveOn ==
  ASSUME NEW r \in Fit
  PROVE  /\ r.at = "list" => [r EXCEPT !.at = "retry", !.with = DemoToken] \in Fit
         /\ r.at \in {"list", "retry"} =>
              \A list \in SUBSET Id : [r EXCEPT !.at = "show", !.got = list] \in Fit
         /\ r.at = "chain" => [r EXCEPT !.at = "submit"] \in Fit
         /\ r.at = "provision" => \A i \in Id : [r EXCEPT !.at = "provisioned", !.of = i] \in Fit
         /\ r.at \in Authorizing => [r EXCEPT !.at = "call", !.by = None] \in Fit
         /\ r.at \in Authorizing => [r EXCEPT !.at = "token", !.by = None] \in Fit
         /\ r.at \in Authorizing => \A s \in Authorizing : [r EXCEPT !.at = s] \in Fit
<1>1. r.at = "list" => [r EXCEPT !.at = "retry", !.with = DemoToken] \in Fit
  BY ConsoleAssumption DEF Fit, TaskState, Stage, Authorizing
<1>2. ASSUME r.at \in {"list", "retry"}, NEW list \in SUBSET Id
      PROVE  [r EXCEPT !.at = "show", !.got = list] \in Fit
  BY <1>2 DEF Fit, TaskState, Stage, Authorizing
<1>3. /\ r.at = "chain" => [r EXCEPT !.at = "submit"] \in Fit
      /\ r.at = "provision" => \A i \in Id : [r EXCEPT !.at = "provisioned", !.of = i] \in Fit
  BY ConsoleAssumption DEF Fit, TaskState, Stage, Authorizing, Kind, Panel, Flag
<1>4. r.at \in Authorizing =>
        /\ [r EXCEPT !.at = "call", !.by = None] \in Fit
        /\ [r EXCEPT !.at = "token", !.by = None] \in Fit
        /\ \A s \in Authorizing : [r EXCEPT !.at = s] \in Fit
  BY ConsoleAssumption DEF Fit, TaskState, Stage, Authorizing, Kind, Panel, Flag
<1> QED BY <1>1, <1>2, <1>3, <1>4

LEMMA AuthorizeTasks ==
  ASSUME Tasks, NEW t \in Task, Authorize(t)
  PROVE  Tasks'
<1>1. task[t] \in Fit /\ task[t].at \in Authorizing
  BY DEF Tasks, Authorize, Authorizing
<1>2. ASSUME NEW s \in {"sign", "verify"}, Goes(t, s) PROVE Tasks'
  <2>1. [task[t] EXCEPT !.at = s] \in Fit
    BY <1>1, MoveOn DEF Authorizing
  <2>2. task' = [task EXCEPT ![t] = [task[t] EXCEPT !.at = s]]
    BY <1>2 DEF Goes, Tasks
  <2> QED BY <2>1, <2>2, UpdateTasks
<1>3. CASE Throws(t)
  BY <1>3, IdleFit, UpdateTasks DEF Throws
<1>4. CASE DevFallback(t)
  <2>1. CASE DevToken
    <3>1. task' = [task EXCEPT ![t] = [task[t] EXCEPT !.at = "token", !.by = None]]
      BY <1>4, <2>1 DEF DevFallback, Tasks
    <3> QED BY <3>1, <1>1, MoveOn, UpdateTasks
  <2> QED BY <2>1, <1>3, <1>4 DEF DevFallback
<1>5. CASE Store(t)
  <2>1. CASE task[t].kind = "session"
    <3>1. task' = [task EXCEPT ![t] = Idle]
      BY <1>5, <2>1 DEF Store, Tasks
    <3> QED BY <3>1, IdleFit, UpdateTasks
  <2>2. CASE task[t].kind # "session"
    <3>1. task' = [task EXCEPT ![t] = [task[t] EXCEPT !.at = "call", !.by = None]]
      BY <1>5, <2>2 DEF Store, Tasks
    <3> QED BY <3>1, <1>1, MoveOn, UpdateTasks
  <2> QED BY <2>1, <2>2
<1> QED BY <1>2, <1>3, <1>4, <1>5 DEF Authorize

LEMMA AnswerTasks ==
  ASSUME TypeOK, Tasks, NEW t \in Task, Answer(t)
  PROVE  Tasks'
<1>0. task[t] \in Fit /\ task[t] \in TaskState
  BY DEF Tasks, Fit
<1>1. CASE TimerFires(t)
  <2>1. task[t].with \in Bearer \cup {None} /\ task[t].by \in Wallet \cup {None}
    BY <1>0 DEF TaskState
  <2> QED BY <1>1, <2>1, RefreshTasks DEF TimerFires
<1>2. CASE ShowList(t) \/ RefreshFails(t)
  BY <1>2, IdleFit, UpdateTasks DEF ShowList, RefreshFails
<1>8. CASE FallBack(t)
  <2>1. task' = [task EXCEPT ![t] = [task[t] EXCEPT !.at = "retry", !.with = DemoToken]]
    BY <1>8 DEF FallBack, Tasks
  <2> QED BY <1>8, <2>1, <1>0, MoveOn, UpdateTasks DEF FallBack
<1>9. CASE NodeLists(t)
  <2> DEFINE list == node \cap Sees[task[t].with]
  <2>1. list \in SUBSET Id
    BY DEF TypeOK
  <2>2. task' = [task EXCEPT ![t] = [task[t] EXCEPT !.at = "show", !.got = list]]
    BY <1>9 DEF NodeLists, Tasks
  <2> HIDE DEF list
  <2> QED BY <1>9, <2>1, <2>2, <1>0, MoveOn, UpdateTasks DEF NodeLists
<1>3. CASE Authorize(t)
  BY <1>3, AuthorizeTasks
<1>4. CASE CallAnswer(t) \/ ShowProvisioned(t)
  BY <1>4, IdleFit, UpdateTasks DEF CallAnswer, ShowProvisioned
<1>5. CASE ChainAnswer(t)
  <2>1. CASE task' = [task EXCEPT ![t].at = "submit"]
    <3>1. task' = [task EXCEPT ![t] = [task[t] EXCEPT !.at = "submit"]]
      BY <2>1 DEF Tasks
    <3> QED BY <1>5, <3>1, <1>0, MoveOn, UpdateTasks DEF ChainAnswer
  <2> QED BY <1>5, <2>1, IdleFit, UpdateTasks DEF ChainAnswer
<1>6. CASE SubmitAnswer(t)
  <2> DEFINE r == [Idle EXCEPT !.at = "timer", !.kind = "refresh",
                               !.by = task[t].by, !.with = task[t].with]
  <2>1. r \in Fit
    BY <1>0, RefreshFit DEF TaskState
  <2>2. task' = [task EXCEPT ![t] = r] \/ task' = [task EXCEPT ![t] = Idle]
    BY <1>6 DEF SubmitAnswer
  <2> QED BY <2>1, <2>2, IdleFit, UpdateTasks
<1>7. CASE Provisioned(t)
  <2>1. ASSUME NEW i \in Id, task' = [task EXCEPT ![t].at = "provisioned", ![t].of = i]
        PROVE  Tasks'
    <3>1. task' = [task EXCEPT ![t] = [task[t] EXCEPT !.at = "provisioned", !.of = i]]
      BY <2>1 DEF Tasks
    <3> QED BY <1>7, <3>1, <1>0, MoveOn, UpdateTasks DEF Provisioned
  <2> QED BY <1>7, <2>1, IdleFit, UpdateTasks DEF Provisioned
<1> QED BY <1>1, <1>2, <1>3, <1>4, <1>5, <1>6, <1>7, <1>8, <1>9 DEF Answer

LEMMA ClickTasks ==
  ASSUME TypeOK, Tasks, NEW t \in Task, Click(t) \/ RunEffect(t)
  PROVE  Tasks'
<1>0. bearer \in Bearer \cup {None} /\ wallet \in Wallet \cup {None}
  BY DEF TypeOK
<1>1. CASE ClickRefresh(t) \/ RunEffect(t)
  BY <1>0, <1>1, RefreshTasks DEF ClickRefresh, RunEffect, Tasks
<1>2. ASSUME NEW k \in Kind, Begin(t, k) PROVE Tasks'
  BY <1>2, BeginTasks
<1>3. CASE ExecuteConfirm(t)
  <2>1. confirm \in Id
    BY <1>3 DEF ExecuteConfirm, TypeOK
  <2> QED BY <1>3, <2>1, SubmitTasks DEF ExecuteConfirm
<1>4. CASE ClickStart(t)
  BY <1>4, SubmitTasks DEF ClickStart
<1>5. CASE ProvisionInstance(t)
  <2>1. PICK s \in {"chain", "provision"} : task' = [task EXCEPT ![t] =
           [Idle EXCEPT !.kind = "provision", !.by = wallet, !.with = bearer, !.at = s]]
    BY <1>5 DEF ProvisionInstance
  <2>2. [Idle EXCEPT !.kind = "provision", !.by = wallet, !.with = bearer, !.at = s] \in Fit
    BY <1>0, ProvisionFit
  <2> QED BY <2>1, <2>2, UpdateTasks
<1> QED
  BY <1>1, <1>2, <1>3, <1>4, <1>5
  DEF Click, CreateScopedSession, OneClickSetup, FetchInstanceAccess, RunTerminalCommand,
      QuickChat, SshUpsert, TeeRequest, Kind, Panel

LEMMA TasksStep ==
  ASSUME TypeOK, Tasks, [Next]_vars
  PROVE  Tasks'
<1>1. CASE \E t \in Task : Answer(t)
  BY <1>1, AnswerTasks
<1>2. CASE \E t \in Task : RunEffect(t) \/ Click(t)
  BY <1>2, ClickTasks
<1>3. CASE UNCHANGED task
  BY <1>3 DEF Tasks
<1> QED
  BY <1>1, <1>2, <1>3
  DEF Next, vars, NodeCreates, ClickInstance, Expire, SwitchWallet, SaveToken, RequestConfirm, Cancel

(* The selection. *)

LEMMA ReselectListed ==
  ASSUME NEW list \in SUBSET Id, NEW w, NEW i \in Reselect(list, w)
  PROVE  list # {} => i \in list
  BY DEF Reselect

LEMMA SelectionStep ==
  ASSUME TypeOK, SelectionIsListed, [Next]_vars
  PROVE  SelectionIsListed'
<1>1. ASSUME NEW i \in Id, ClickInstance(i) PROVE SelectionIsListed'
  BY <1>1 DEF SelectionIsListed, ClickInstance, Select
<1>2. ASSUME NEW t \in Task, NEW b, NEW w, Refresh(t, b, w) PROVE SelectionIsListed'
  BY <1>2 DEF SelectionIsListed, Refresh, Select
<1>3. ASSUME NEW t \in Task, ShowList(t) PROVE SelectionIsListed'
  <2>1. task[t].got \in SUBSET Id
    BY DEF TypeOK, TaskState
  <2>2. PICK i \in Reselect(task[t].got, task[t].by) : Select(i)
    BY <1>3 DEF ShowList
  <2>3. task[t].got # {} => i \in task[t].got
    BY <2>1, <2>2, ReselectListed
  <2> QED BY <1>3, <2>2, <2>3 DEF ShowList, Select, SelectionIsListed
<1>4. ASSUME NEW t \in Task, ShowProvisioned(t) PROVE SelectionIsListed'
  BY <1>4 DEF SelectionIsListed, ShowProvisioned, Select
<1>5. CASE UNCHANGED <<listed, selected>>
  BY <1>5 DEF SelectionIsListed
<1>6. ASSUME NEW t \in Task, NEW k, Begin(t, k) PROVE SelectionIsListed'
  BY <1>5, <1>6 DEF Begin
<1>7. ASSUME NEW t \in Task, Click(t) \/ RunEffect(t) PROVE SelectionIsListed'
  BY <1>2, <1>5, <1>6, <1>7
  DEF Click, RunEffect, ClickRefresh, CreateScopedSession, OneClickSetup, FetchInstanceAccess,
      RunTerminalCommand, QuickChat, SshUpsert, TeeRequest, ExecuteConfirm, ClickStart,
      ProvisionInstance
<1>8. ASSUME NEW t \in Task, Answer(t) PROVE SelectionIsListed'
  BY <1>2, <1>3, <1>4, <1>5, <1>8
  DEF Answer, TimerFires, NodeLists, FallBack, RefreshFails, Authorize, CallAnswer,
      ChainAnswer, SubmitAnswer, Provisioned
<1> QED
  BY <1>1, <1>5, <1>7, <1>8
  DEF Next, vars, NodeCreates, Expire, SwitchWallet, SaveToken, RequestConfirm, Cancel

(* The panels. *)

LEMMA SelectPanels ==
  ASSUME TypeOK, PanelsFollowSelection, NEW i \in Id \cup {None}, Select(i)
  PROVE  PanelsFollowSelection'
  BY DEF PanelsFollowSelection, Select, TypeOK

LEMMA PanelsStep ==
  ASSUME TypeOK, Tasks, PanelsFollowSelection, [Next]_vars
  PROVE  PanelsFollowSelection'
<1>0. selected \in Id \cup {None} /\ listed \in SUBSET Id /\ node \in SUBSET Id
  BY DEF TypeOK
<1>1. ASSUME NEW i \in Id, ClickInstance(i) PROVE PanelsFollowSelection'
  BY <1>1, SelectPanels DEF ClickInstance
<1>5. ASSUME UNCHANGED <<selected, shown>> PROVE PanelsFollowSelection'
  BY <1>5 DEF PanelsFollowSelection
<1>2. ASSUME NEW t \in Task, NEW b, NEW w, Refresh(t, b, w) PROVE PanelsFollowSelection'
  BY <1>0, <1>2, <1>5, SelectPanels DEF Refresh
<1>3. ASSUME NEW t \in Task, ShowList(t) PROVE PanelsFollowSelection'
  <2>1. PICK i \in Reselect(task[t].got, task[t].by) : Select(i)
    BY <1>3 DEF ShowList
  <2>2. i \in Id \cup {None}
    BY <1>0, <2>1 DEF Reselect, TypeOK, TaskState
  <2> QED BY <2>1, <2>2, SelectPanels
<1>4. ASSUME NEW t \in Task, ShowProvisioned(t) PROVE PanelsFollowSelection'
  <2>1. task[t].of \in Id
    BY <1>4 DEF ShowProvisioned, Tasks, Fit
  <2> QED BY <1>4, <2>1, SelectPanels DEF ShowProvisioned
<1>6. ASSUME NEW t \in Task, NEW k, Begin(t, k) PROVE PanelsFollowSelection'
  BY <1>5, <1>6 DEF Begin
<1>7. ASSUME NEW t \in Task, Click(t) \/ RunEffect(t) PROVE PanelsFollowSelection'
  BY <1>2, <1>5, <1>6, <1>7
  DEF Click, RunEffect, ClickRefresh, CreateScopedSession, OneClickSetup, FetchInstanceAccess,
      RunTerminalCommand, QuickChat, SshUpsert, TeeRequest, ExecuteConfirm, ClickStart,
      ProvisionInstance
<1>8. ASSUME NEW t \in Task, CallAnswer(t) PROVE PanelsFollowSelection'
  <2> DEFINE v == [of |-> task[t].of, late |-> task[t].of # selected]
  <2>1. v.of = selected \/ v.late
    OBVIOUS
  <2>2. \A p \in Panel : shown'[p] \in {shown[p], v}
    BY <1>8 DEF CallAnswer, TypeOK
  <2> QED BY <1>8, <2>1, <2>2 DEF CallAnswer, PanelsFollowSelection
<1>9. ASSUME NEW t \in Task, Answer(t) PROVE PanelsFollowSelection'
  BY <1>2, <1>3, <1>4, <1>5, <1>8, <1>9
  DEF Answer, TimerFires, NodeLists, FallBack, RefreshFails, Authorize,
      ChainAnswer, SubmitAnswer, Provisioned
<1> QED
  BY <1>1, <1>5, <1>7, <1>9
  DEF Next, vars, NodeCreates, Expire, SwitchWallet, SaveToken, RequestConfirm, Cancel

(* Sessions. *)

LEMMA ClickLeaves ==
  ASSUME NEW t \in Task, Click(t) \/ RunEffect(t)
  PROVE  UNCHANGED <<node, scoped>>
<1>1. ASSUME NEW k, Begin(t, k) PROVE UNCHANGED <<node, scoped>>
  BY <1>1 DEF Begin
<1> QED
  BY <1>1
  DEF Click, RunEffect, ClickRefresh, CreateScopedSession, OneClickSetup, FetchInstanceAccess,
      RunTerminalCommand, QuickChat, SshUpsert, TeeRequest, ExecuteConfirm, ClickStart,
      ProvisionInstance

LEMMA SessionsStep ==
  ASSUME TypeOK, Tasks, SessionsOfTheOwner, [Next]_vars
  PROVE  SessionsOfTheOwner'
<1>1. CASE UNCHANGED scoped
  BY <1>1 DEF SessionsOfTheOwner
<1>2. ASSUME NEW i \in Id, Expire(i) PROVE SessionsOfTheOwner'
  BY <1>2 DEF SessionsOfTheOwner, Expire, TypeOK, Session
<1>3. ASSUME NEW t \in Task, Authorize(t) PROVE SessionsOfTheOwner'
  <2>1. CASE Store(t)
    <3>1. task[t].of \in Id /\ task[t].by \in {None, OwnerOf[task[t].of]}
      BY <1>3 DEF Tasks, Fit, Authorize, Authorizing
    <3> QED BY <2>1, <3>1 DEF Store, SessionsOfTheOwner, TypeOK
  <2> QED BY <1>1, <1>3, <2>1 DEF Authorize, Goes, DevFallback, Throws
<1>5. ASSUME NEW t \in Task, Answer(t) PROVE SessionsOfTheOwner'
  BY <1>1, <1>3, <1>5
  DEF Answer, TimerFires, NodeLists, ShowList, FallBack, RefreshFails, CallAnswer, ChainAnswer,
      SubmitAnswer, Provisioned, ShowProvisioned
<1> QED
  BY <1>1, <1>2, <1>5, ClickLeaves
  DEF Next, vars, NodeCreates, ClickInstance, SwitchWallet, SaveToken, RequestConfirm, Cancel

(* Types of everything but the tasks. *)

Typed ==
    /\ node \in SUBSET Id /\ listed \in SUBSET Id
    /\ bearer \in Bearer \cup {None} /\ wallet \in Wallet \cup {None}
    /\ selected \in Id \cup {None}
    /\ scoped \in [Id -> Session \cup {None}]
    /\ shown \in [Panel -> [of : Id, late : BOOLEAN] \cup {None}]
    /\ confirm \in Id \cup {None}
    /\ busy \in SUBSET Flag /\ due \in BOOLEAN
    /\ moves \in 0..MaxMoves

LEMMA SelectTyped ==
  ASSUME Typed, NEW i \in Id \cup {None}, Select(i)
  PROVE  /\ selected' \in Id \cup {None}
         /\ shown' \in [Panel -> [of : Id, late : BOOLEAN] \cup {None}]
<1>1. selected' \in Id \cup {None}
  BY DEF Select
<1>2. shown' \in [Panel -> [of : Id, late : BOOLEAN] \cup {None}]
  BY DEF Select, Typed
<1> QED BY <1>1, <1>2

LEMMA TypedStep ==
  ASSUME Typed, Tasks, [Next]_vars
  PROVE  Typed'
<1> DEFINE Moves == moves' \in 0..MaxMoves
<1>17. Move => Moves
  BY ConsoleAssumption DEF Typed, Move
<1>0. \A t \in Task : /\ task[t].by \in Wallet \cup {None}
                      /\ task[t].with \in Bearer \cup {None}
                      /\ task[t].got \in SUBSET Id
                      /\ task[t].at \in Authorizing \cup {"provisioned", "call"} => task[t].of \in Id
  BY DEF Tasks, Fit, TaskState
<1>1. ASSUME NEW i \in Id, NodeCreates(i) \/ Expire(i) PROVE Typed'
  <2>1. CASE NodeCreates(i)
    BY <2>1 DEF Typed, NodeCreates
  <2>2. CASE Expire(i)
    <3>1. [scoped[i] EXCEPT !.fresh = FALSE] \in Session
      BY <2>2 DEF Typed, Expire, Session
    <3>2. scoped' = [scoped EXCEPT ![i] = [scoped[i] EXCEPT !.fresh = FALSE]]
      BY <2>2 DEF Typed, Expire
    <3> QED BY <2>2, <3>1, <3>2 DEF Typed, Expire
  <2> QED BY <1>1, <2>1, <2>2
<1>2. ASSUME NEW i \in Id, ClickInstance(i) PROVE Typed'
  BY <1>2, SelectTyped, ConsoleAssumption DEF Typed, ClickInstance, Move
<1>3. ASSUME NEW w \in Wallet \cup {None}, SwitchWallet(w) PROVE Typed'
  BY <1>3, ConsoleAssumption DEF Typed, SwitchWallet, Move
<1>4. ASSUME NEW b \in Bearer \cup {None}, SaveToken(b) PROVE Typed'
  BY <1>4, ConsoleAssumption DEF Typed, SaveToken, Move
<1>5. CASE RequestConfirm \/ Cancel
  <2>1. RequestConfirm => confirm' \in Id
    BY DEF RequestConfirm, HasSelection, Typed
  <2> QED BY <1>5, <1>17, <2>1 DEF Typed, RequestConfirm, Cancel
<1>6. ASSUME NEW t \in Task, NEW b, NEW w, Refresh(t, b, w),
             UNCHANGED <<node, bearer, wallet, scoped, confirm>>, due' \in BOOLEAN, moves' \in 0..MaxMoves
      PROVE  Typed'
  BY <1>6, SelectTyped DEF Typed, Refresh, Flag
<1>7. ASSUME NEW t \in Task, RunEffect(t) \/ ClickRefresh(t) \/ TimerFires(t) PROVE Typed'
  <2>1. CASE RunEffect(t)
    BY <1>6, <2>1 DEF Typed, RunEffect
  <2>2. CASE ClickRefresh(t)
    BY <1>6, <1>17, <2>2 DEF Typed, ClickRefresh
  <2>3. CASE TimerFires(t)
    BY <1>6, <2>3 DEF Typed, TimerFires
  <2> QED BY <1>7, <2>1, <2>2, <2>3
<1>8. ASSUME NEW t \in Task, NEW k, Begin(t, k) PROVE Typed'
  <2>1. busy' \in SUBSET Flag
    BY <1>8 DEF Typed, Begin, Own, Flag
  <2> QED BY <1>8, <1>17, <2>1 DEF Typed, Begin
<1>9. ASSUME NEW t \in Task, ExecuteConfirm(t) \/ ClickStart(t) \/ ProvisionInstance(t) PROVE Typed'
  BY <1>9, <1>17 DEF Typed, ExecuteConfirm, ClickStart, ProvisionInstance, Flag
<1>10. ASSUME NEW t \in Task, NodeLists(t) \/ ShowList(t) \/ FallBack(t) \/ RefreshFails(t) PROVE Typed'
  <2>1. CASE ShowList(t)
    <3>1. PICK i \in Reselect(task[t].got, task[t].by) : Select(i)
      BY <2>1 DEF ShowList
    <3>2. i \in Id \cup {None}
      BY <1>0, <3>1 DEF Reselect, Typed
    <3> QED BY <1>0, <2>1, <3>1, <3>2, SelectTyped DEF Typed, ShowList
  <2>2. CASE NodeLists(t) \/ RefreshFails(t) \/ FallBack(t)
    BY <2>2, ConsoleAssumption DEF Typed, RefreshFails, FallBack, NodeLists
  <2> QED BY <1>10, <2>1, <2>2
<1>11. ASSUME NEW t \in Task, Authorize(t) PROVE Typed'
  <2>1. task[t].of \in Id
    BY <1>0, <1>11 DEF Authorize, Authorizing
  <2>2. CASE Store(t)
    BY <1>0, <1>11, <2>1, <2>2 DEF Typed, Store, Authorize, Session
  <2> QED BY <1>11, <2>2 DEF Typed, Authorize, Goes, DevFallback, Throws
<1>12. ASSUME NEW t \in Task, CallAnswer(t) PROVE Typed'
  <2> DEFINE v == [of |-> task[t].of, late |-> task[t].of # selected]
  <2>1. v \in [of : Id, late : BOOLEAN]
    BY <1>0, <1>12 DEF CallAnswer
  <2>2. shown' \in [Panel -> [of : Id, late : BOOLEAN] \cup {None}]
    <3>1. \/ UNCHANGED shown
          \/ task[t].kind \in Panel /\ shown' = [shown EXCEPT ![task[t].kind] = v]
      BY <1>12 DEF CallAnswer
    <3>2. shown \in [Panel -> [of : Id, late : BOOLEAN] \cup {None}]
      BY DEF Typed
    <3> HIDE DEF v
    <3> QED BY <2>1, <3>1, <3>2
  <2> QED BY <1>12, <2>2 DEF Typed, CallAnswer
<1>13. ASSUME NEW t \in Task, ChainAnswer(t) \/ Provisioned(t) PROVE Typed'
  BY <1>13 DEF Typed, ChainAnswer, Provisioned
<1>14. ASSUME NEW t \in Task, SubmitAnswer(t) PROVE Typed'
  BY <1>14 DEF Typed, SubmitAnswer
<1>15. ASSUME NEW t \in Task, ShowProvisioned(t) PROVE Typed'
  BY <1>0, <1>15, SelectTyped DEF Typed, ShowProvisioned
<1>16. CASE UNCHANGED vars
  BY <1>16 DEF Typed, vars
<1> QED
  BY <1>1, <1>2, <1>3, <1>4, <1>5, <1>7, <1>8, <1>9, <1>10, <1>11, <1>12, <1>13, <1>14, <1>15, <1>16
  DEF Next, Click, Answer, CreateScopedSession, OneClickSetup, FetchInstanceAccess,
      RunTerminalCommand, QuickChat, SshUpsert, TeeRequest

(* The spinners. *)

Works(f, r) ==
    CASE f = "refresh"   -> r.at \in {"list", "retry", "show"}
      [] f = "session"   -> r.at \in Authorizing
      [] f = "setup"     -> r.kind = "setup"
      [] f = "provision" -> r.kind = "provision"

Refreshing == {"list", "retry", "show"}
Alone == {"setup", "provision"}

\* A step of task t may turn on f as it starts to work and must turn it off as
\* it ends; where one works at a time, only the worker, or a step that found f
\* off, does either.
Turns(f, t) ==
    \/ (f \in busy' <=> f \in busy) /\ (Works(f, task'[t]) <=> Works(f, task[t]))
    \/ f \in busy' /\ Works(f, task'[t]) /\ (f \in Alone => f \notin busy)
    \/ f \notin busy' /\ ~Works(f, task'[t]) /\ (f \in Alone => Works(f, task[t]))

LEMMA WorkingDef == \A f \in Flag : Working(f) = {t \in Task : Works(f, task[t])}
  BY DEF Flag, Working, Works

LEMMA TurnsKeep ==
  ASSUME BusyMeansWork, TypeOK, busy' \in SUBSET Flag, NEW t \in Task, \A f \in Flag : Turns(f, t),
         \A u \in Task \ {t} : task'[u] = task[u]
  PROVE  BusyMeansWork'
<1>0. \A f \in Flag : Working(f) = {u \in Task : Works(f, task[u])}
                     /\ Working(f)' = {u \in Task : Works(f, task'[u])}
  BY WorkingDef DEF Flag, Working, Works
<1>1. ASSUME NEW f \in busy' PROVE Working(f)' # {}
  <2>0. f \in Flag /\ Turns(f, t)
    OBVIOUS
  <2>1. \/ f \in busy /\ (Works(f, task'[t]) <=> Works(f, task[t]))
        \/ Works(f, task'[t])
    BY <2>0, <1>1 DEF Turns
  <2>2. CASE Works(f, task'[t])
    BY <1>0, <2>0, <2>2
  <2>3. CASE f \in busy /\ (Works(f, task'[t]) <=> Works(f, task[t]))
    <3>1. PICK u \in Task : Works(f, task[u])
      BY <1>0, <2>0, <2>3 DEF BusyMeansWork
    <3>2. Works(f, task'[u])
      BY <2>3, <3>1
    <3> QED BY <1>0, <2>0, <3>2
  <2> QED BY <2>1, <2>2, <2>3
<1>2. ASSUME NEW f \in Alone PROVE /\ Working(f)' # {} => f \in busy'
                                  /\ \A u, v \in Working(f)' : u = v
  <2>0. f \in Flag /\ Turns(f, t)
    BY DEF Alone, Flag
  <2>1. /\ \A u \in Task : Works(f, task[u]) => f \in busy
        /\ \A u, v \in Task : Works(f, task[u]) /\ Works(f, task[v]) => u = v
    BY <1>0, <2>0 DEF BusyMeansWork, Alone
  <2>2. /\ \A u \in Task : Works(f, task'[u]) => f \in busy'
        /\ \A u, v \in Task : Works(f, task'[u]) /\ Works(f, task'[v]) => u = v
    BY <2>0, <2>1 DEF Turns
  <2> QED BY <1>0, <2>0, <2>2
<1> QED BY <1>1, <1>2 DEF BusyMeansWork, Alone


\* The same, when the new state of the task is r.
TurnsTo(t, r) ==
    /\ task' = [task EXCEPT ![t] = r]
    /\ busy' \in SUBSET Flag
    /\ \/ ("refresh" \in busy' <=> "refresh" \in busy) /\ (r.at \in Refreshing <=> task[t].at \in Refreshing)
       \/ "refresh" \in busy' /\ r.at \in Refreshing
       \/ "refresh" \notin busy' /\ r.at \notin Refreshing
    /\ \/ ("session" \in busy' <=> "session" \in busy) /\ (r.at \in Authorizing <=> task[t].at \in Authorizing)
       \/ "session" \in busy' /\ r.at \in Authorizing
       \/ "session" \notin busy' /\ r.at \notin Authorizing
    /\ \A f \in Alone :
       \/ (f \in busy' <=> f \in busy) /\ (r.kind = f <=> task[t].kind = f)
       \/ f \in busy' /\ r.kind = f /\ f \notin busy
       \/ f \notin busy' /\ r.kind # f /\ task[t].kind = f

LEMMA TurnsToKeep ==
  ASSUME BusyMeansWork, TypeOK, NEW t \in Task, NEW r, TurnsTo(t, r)
  PROVE  BusyMeansWork'
<1>1. task'[t] = r /\ \A u \in Task \ {t} : task'[u] = task[u]
  BY DEF TypeOK, TurnsTo
<1>2. \A f \in Flag : Turns(f, t)
  BY <1>1 DEF TurnsTo, Turns, Works, Flag, Refreshing, Alone
<1> QED BY <1>1, <1>2, TurnsKeep DEF TurnsTo

LEMMA TurnsStep ==
  ASSUME TypeOK, Tasks, BusyMeansWork, NEW t \in Task, Click(t) \/ RunEffect(t) \/ Answer(t)
  PROVE  BusyMeansWork'
<1> DEFINE p == task[t]
<1>0. /\ busy \in SUBSET Flag /\ task \in [Task -> TaskState] /\ p \in TaskState
      /\ p.at = "idle" => p.kind = "job"
      /\ p.at \in {"timer", "list", "retry", "show"} => p.kind = "refresh"
      /\ p.at \in Authorizing \cup {"call"} => p.kind \in Kind
      /\ p.at \in {"chain", "submit"} => p.kind \in {"job", "provision"}
      /\ p.at \in {"provision", "provisioned"} => p.kind = "provision"
  BY DEF TypeOK, Tasks, Fit
<1> HIDE DEF p
<1>1. ASSUME UNCHANGED <<task, busy>> PROVE BusyMeansWork'
  BY <1>1 DEF BusyMeansWork, Working
<1>3. ASSUME Throws(t), p.at \in Authorizing PROVE TurnsTo(t, Idle)
  BY <1>0, <1>3 DEF Throws, TurnsTo, Idle, Alone, Refreshing, Own, Authorizing, Kind, Panel, p, Flag
<1>4. ASSUME RefreshFails(t) \/ ShowList(t) PROVE TurnsTo(t, Idle)
  BY <1>0, <1>4 DEF RefreshFails, ShowList, TurnsTo, Idle, Alone, Authorizing, Refreshing, p, Flag
<1>5. ASSUME FallBack(t) PROVE TurnsTo(t, [p EXCEPT !.at = "retry", !.with = DemoToken])
  <2>1. /\ p.at = "list" /\ busy' = busy
        /\ task' = [task EXCEPT ![t] = [p EXCEPT !.at = "retry", !.with = DemoToken]]
    BY <1>0, <1>5 DEF FallBack, p
  <2> QED BY <1>0, <2>1 DEF TurnsTo, TaskState, Alone, Authorizing, Refreshing, p
<1>16. ASSUME NodeLists(t) PROVE BusyMeansWork'
  <2> DEFINE list == node \cap Sees[task[t].with]
  <2>1. /\ p.at \in {"list", "retry"} /\ busy' = busy
        /\ task' = [task EXCEPT ![t] = [p EXCEPT !.at = "show", !.got = list]]
    BY <1>0, <1>16 DEF NodeLists, p
  <2> HIDE DEF list
  <2>2. TurnsTo(t, [p EXCEPT !.at = "show", !.got = list])
    BY <1>0, <2>1 DEF TurnsTo, TaskState, Alone, Authorizing, Refreshing, p
  <2> QED BY <2>2, TurnsToKeep
<1>6. ASSUME NEW b, NEW w, Refresh(t, b, w), p.at \in {"idle", "timer"} PROVE BusyMeansWork'
  <2>1. CASE b = None
    <3>1. TurnsTo(t, Idle)
      BY <1>0, <1>6, <2>1 DEF Refresh, TurnsTo, Idle, Alone, Authorizing, Refreshing, p
    <3> QED BY <3>1, TurnsToKeep
  <2>2. CASE b # None
    <3> DEFINE r == [Idle EXCEPT !.at = "list", !.kind = "refresh", !.by = w, !.with = b]
    <3>1. r.at = "list" /\ r.kind = "refresh"
      BY DEF Idle
    <3>2. task' = [task EXCEPT ![t] = r] /\ busy' = busy \cup {"refresh"}
      BY <1>6, <2>2 DEF Refresh
    <3> HIDE DEF r
    <3>3. TurnsTo(t, r)
      BY <1>0, <1>6, <3>1, <3>2 DEF TurnsTo, Alone, Authorizing, Refreshing, p, Flag
    <3> QED BY <3>3, TurnsToKeep
  <2> QED BY <2>1, <2>2
<1>7. ASSUME NEW k \in Kind, Begin(t, k), k = "setup" => "setup" \notin busy PROVE BusyMeansWork'
  <2>1. p.at = "idle" /\ p.kind = "job"
    BY <1>0, <1>7 DEF Begin, p
  <2>2. CASE task' = task /\ busy' = busy \ {"session"}
    <3>1. TurnsTo(t, p)
      BY <1>0, <2>1, <2>2 DEF TurnsTo, Alone, Authorizing, Refreshing, p, Flag
    <3> QED BY <3>1, TurnsToKeep
  <2>3. ASSUME NEW r, r.kind = k, task' = [task EXCEPT ![t] = r],
               \/ r.at = "call" /\ busy' = busy \cup Own(k)
               \/ r.at \in Authorizing /\ busy' = busy \cup Own(k) \cup {"session"}
        PROVE  BusyMeansWork'
    <3>1. TurnsTo(t, r)
      BY <1>0, <1>7, <2>1, <2>3 DEF TurnsTo, Alone, Authorizing, Refreshing, p, Flag, Own, Kind, Panel
    <3> QED BY <3>1, TurnsToKeep
  <2>4. CASE scoped[selected] # None /\ scoped[selected].fresh
    <3> DEFINE r == [Idle EXCEPT !.at = "call", !.kind = k, !.of = selected]
    <3>1. r.kind = k /\ r.at = "call"
      BY DEF Idle
    <3> HIDE DEF r
    <3>2. \/ UNCHANGED <<task, busy>>
          \/ task' = [task EXCEPT ![t] = r] /\ busy' = busy \cup Own(k)
      BY <1>7, <2>4 DEF Begin, r
    <3> QED BY <1>1, <2>3, <3>1, <3>2
  <2>5. CASE ~(scoped[selected] # None /\ scoped[selected].fresh)
    <3>1. PICK s \in FirstStage(selected) :
            IF s = "idle" THEN task' = task /\ busy' = busy \ {"session"}
            ELSE /\ task' = [task EXCEPT ![t] =
                        [Idle EXCEPT !.at = s, !.kind = k, !.of = selected,
                                     !.by = IF s = "challenge" THEN wallet ELSE None]]
                 /\ busy' = busy \cup Own(k) \cup {"session"}
      BY <1>7, <2>5 DEF Begin
    <3> DEFINE r == [Idle EXCEPT !.at = s, !.kind = k, !.of = selected,
                                 !.by = IF s = "challenge" THEN wallet ELSE None]
    <3>2. r.kind = k /\ r.at = s
      BY DEF Idle
    <3>3. s = "idle" \/ s \in Authorizing
      BY DEF FirstStage, Authorizing
    <3> HIDE DEF r
    <3>4. \/ task' = task /\ busy' = busy \ {"session"}
          \/ s # "idle" /\ task' = [task EXCEPT ![t] = r] /\ busy' = busy \cup Own(k) \cup {"session"}
      BY <3>1 DEF r
    <3> QED BY <2>2, <2>3, <3>2, <3>3, <3>4
  <2> QED BY <2>4, <2>5
<1>8. ASSUME Authorize(t) PROVE BusyMeansWork'
  <2>1. p.at \in Authorizing /\ p.kind \in Kind
    BY <1>0, <1>8 DEF Authorize, Authorizing, p
  <2>2. ASSUME NEW s \in Authorizing, NEW w \in {p.by, None},
               task' = [task EXCEPT ![t] = [p EXCEPT !.at = s, !.by = w]], busy' = busy
        PROVE  BusyMeansWork'
    <3>1. TurnsTo(t, [p EXCEPT !.at = s, !.by = w])
      BY <1>0, <2>1, <2>2 DEF TurnsTo, TaskState, Alone, Authorizing, Refreshing, p
    <3> QED BY <3>1, TurnsToKeep
  <2>3. ASSUME NEW s \in {"sign", "verify"}, Goes(t, s) PROVE BusyMeansWork'
    <3>1. task' = [task EXCEPT ![t] = [p EXCEPT !.at = s, !.by = p.by]] /\ busy' = busy
      BY <1>0, <2>3 DEF Goes, TaskState, p
    <3> QED BY <2>2, <3>1 DEF Authorizing
  <2>4. CASE DevFallback(t)
    <3>1. CASE DevToken
      <4>1. task' = [task EXCEPT ![t] = [p EXCEPT !.at = "token", !.by = None]] /\ busy' = busy
        BY <1>0, <2>4, <3>1 DEF DevFallback, TaskState, p
      <4> QED BY <2>2, <4>1 DEF Authorizing
    <3> QED BY <1>3, <2>1, <2>4, <3>1, TurnsToKeep DEF DevFallback
  <2>5. CASE Store(t)
    <3>1. CASE p.kind = "session"
      <4>1. TurnsTo(t, Idle)
        BY <1>0, <2>1, <2>5, <3>1 DEF Store, TurnsTo, Idle, Alone, Authorizing, Refreshing, p, Flag
      <4> QED BY <4>1, TurnsToKeep
    <3>2. CASE p.kind # "session"
      <4>1. task' = [task EXCEPT ![t] = [p EXCEPT !.at = "call", !.by = None]] /\ busy' = busy \ {"session"}
        BY <1>0, <2>5, <3>2 DEF Store, p
      <4>2. TurnsTo(t, [p EXCEPT !.at = "call", !.by = None])
        BY <1>0, <2>1, <4>1 DEF TurnsTo, TaskState, Alone, Authorizing, Refreshing, p, Flag
      <4> QED BY <4>2, TurnsToKeep
    <3> QED BY <3>1, <3>2
  <2> QED BY <1>3, <1>8, <2>1, <2>3, <2>4, <2>5, TurnsToKeep DEF Authorize
<1>9. ASSUME CallAnswer(t) PROVE BusyMeansWork'
  <2>1. TurnsTo(t, Idle)
    BY <1>0, <1>9 DEF CallAnswer, TurnsTo, Idle, Alone, Authorizing, Refreshing, Own, Kind, Panel, p, Flag
  <2> QED BY <2>1, TurnsToKeep
<1>10. ASSUME ChainAnswer(t) \/ SubmitAnswer(t) PROVE BusyMeansWork'
  <2>1. p.at \in {"chain", "submit"}
    BY <1>10 DEF ChainAnswer, SubmitAnswer, p
  <2>2. CASE task' = [task EXCEPT ![t].at = "submit"] /\ busy' = busy
    <3>1. TurnsTo(t, [p EXCEPT !.at = "submit"])
      BY <1>0, <2>1, <2>2 DEF TurnsTo, TaskState, Alone, Authorizing, Refreshing, p
    <3> QED BY <3>1, TurnsToKeep
  <2>3. ASSUME NEW r, r.at \in {"idle", "timer"}, r.kind \in {"job", "refresh"},
               task' = [task EXCEPT ![t] = r],
               busy' = IF p.kind = "provision" THEN busy \ {"provision"} ELSE busy
        PROVE  BusyMeansWork'
    <3>1. TurnsTo(t, r)
      BY <1>0, <2>1, <2>3 DEF TurnsTo, Alone, Authorizing, Refreshing, p, Flag
    <3> QED BY <3>1, TurnsToKeep
  <2> DEFINE r == [Idle EXCEPT !.at = "timer", !.kind = "refresh", !.by = p.by, !.with = p.with]
  <2>4. r.at = "timer" /\ r.kind = "refresh" /\ Idle.at = "idle" /\ Idle.kind = "job"
    BY DEF Idle
  <2>5. CASE ChainAnswer(t)
    BY <2>2, <2>3, <2>4, <2>5 DEF ChainAnswer, p
  <2>6. CASE SubmitAnswer(t)
    <3>1. /\ task' = [task EXCEPT ![t] = r] \/ task' = [task EXCEPT ![t] = Idle]
          /\ busy' = IF p.kind = "provision" THEN busy \ {"provision"} ELSE busy
      BY <2>6 DEF SubmitAnswer, p
    <3> HIDE DEF r
    <3> QED BY <2>3, <2>4, <3>1
  <2> QED BY <1>10, <2>5, <2>6
<1>11. ASSUME ExecuteConfirm(t) \/ ClickStart(t) PROVE BusyMeansWork'
  <2>1. p.at = "idle" /\ p.kind = "job" /\ busy' = busy
    BY <1>0, <1>11 DEF ExecuteConfirm, ClickStart, p
  <2>2. ASSUME NEW r, r.at = "chain", r.kind = "job", task' = [task EXCEPT ![t] = r] PROVE BusyMeansWork'
    <3>1. TurnsTo(t, r)
      BY <1>0, <2>1, <2>2 DEF TurnsTo, Alone, Authorizing, Refreshing, p
    <3> QED BY <3>1, TurnsToKeep
  <2>3. ASSUME NEW n, SubmitLifecycleJob(t, n) PROVE BusyMeansWork'
    <3> DEFINE r == [Idle EXCEPT !.at = "chain", !.of = selected, !.by = wallet, !.with = bearer,
                                 !.named = n]
    <3>1. r.at = "chain" /\ r.kind = "job"
      BY DEF Idle
    <3>2. task' = task \/ task' = [task EXCEPT ![t] = r]
      BY <2>3 DEF SubmitLifecycleJob
    <3> HIDE DEF r
    <3> QED BY <1>1, <2>1, <2>2, <3>1, <3>2
  <2> QED BY <1>11, <2>3 DEF ExecuteConfirm, ClickStart
<1>12. ASSUME ProvisionInstance(t) PROVE BusyMeansWork'
  <2>1. PICK s \in {"chain", "provision"} : task' = [task EXCEPT ![t] =
           [Idle EXCEPT !.kind = "provision", !.by = wallet, !.with = bearer, !.at = s]]
    BY <1>12 DEF ProvisionInstance
  <2> DEFINE r == [Idle EXCEPT !.kind = "provision", !.by = wallet, !.with = bearer, !.at = s]
  <2>2. r.at = s /\ r.kind = "provision"
    BY DEF Idle
  <2>3. p.at = "idle" /\ "provision" \notin busy /\ busy' = busy \cup {"provision"}
    BY <1>12 DEF ProvisionInstance, p
  <2>4. task' = [task EXCEPT ![t] = r]
    BY <2>1
  <2> HIDE DEF r
  <2>5. TurnsTo(t, r)
    BY <1>0, <2>2, <2>3, <2>4 DEF TurnsTo, Alone, Authorizing, Refreshing, p, Flag
  <2> QED BY <2>5, TurnsToKeep
<1>13. ASSUME Provisioned(t) \/ ShowProvisioned(t) PROVE BusyMeansWork'
  <2>1. p.at \in {"provision", "provisioned"}
    BY <1>13 DEF Provisioned, ShowProvisioned, p
  <2>2. CASE task' = [task EXCEPT ![t] = Idle] /\ busy' = busy \ {"provision"}
    <3>1. TurnsTo(t, Idle)
      BY <1>0, <2>1, <2>2 DEF TurnsTo, Idle, Alone, Authorizing, Refreshing, p, Flag
    <3> QED BY <3>1, TurnsToKeep
  <2>3. ASSUME NEW i, task' = [task EXCEPT ![t].at = "provisioned", ![t].of = i], busy' = busy
        PROVE  BusyMeansWork'
    <3>1. task' = [task EXCEPT ![t] = [p EXCEPT !.at = "provisioned", !.of = i]]
      BY <1>0, <2>3 DEF p
    <3>2. TurnsTo(t, [p EXCEPT !.at = "provisioned", !.of = i])
      BY <1>0, <2>1, <2>3, <3>1 DEF TurnsTo, TaskState, Alone, Authorizing, Refreshing, p
    <3> QED BY <3>2, TurnsToKeep
  <2> QED BY <1>13, <2>2, <2>3 DEF Provisioned, ShowProvisioned
<1>14. ASSUME ShowList(t) \/ FallBack(t) \/ RefreshFails(t) PROVE BusyMeansWork'
  BY <1>4, <1>5, <1>14, TurnsToKeep
<1>15. ASSUME RunEffect(t) \/ ClickRefresh(t) \/ TimerFires(t) PROVE BusyMeansWork'
  BY <1>1, <1>6, <1>15 DEF RunEffect, ClickRefresh, TimerFires, p
<1> QED
  BY <1>7, <1>8, <1>9, <1>10, <1>11, <1>12, <1>13, <1>14, <1>15, <1>16
  DEF Click, Answer, CreateScopedSession, OneClickSetup, FetchInstanceAccess,
      RunTerminalCommand, QuickChat, SshUpsert, TeeRequest, Kind, Panel

(* The theorems. *)

IInv ==
    /\ TypeOK /\ Tasks
    /\ SelectionIsListed /\ SessionsOfTheOwner /\ PanelsFollowSelection
    /\ BusyMeansWork

LEMMA TypeStep ==
  ASSUME TypeOK, Tasks, [Next]_vars
  PROVE  TypeOK' /\ Tasks'
<1>1. Tasks'
  BY TasksStep
<1>2. Typed'
  BY TypedStep DEF Typed, TypeOK
<1>3. (task \in [Task -> TaskState])'
  BY <1>1 DEF Tasks, Fit
<1> QED BY <1>1, <1>2, <1>3 DEF Typed, TypeOK

LEMMA BusyStep ==
  ASSUME TypeOK, Tasks, BusyMeansWork, [Next]_vars
  PROVE  BusyMeansWork'
<1>1. CASE UNCHANGED <<task, busy>>
  BY <1>1 DEF BusyMeansWork, Working
<1>2. CASE \E t \in Task : RunEffect(t) \/ Click(t) \/ Answer(t)
  BY <1>2, TurnsStep
<1> QED
  BY <1>1, <1>2
  DEF Next, vars, NodeCreates, ClickInstance, Expire, SwitchWallet, SaveToken, RequestConfirm, Cancel

LEMMA InitIInv == Init => IInv
<1> SUFFICES ASSUME Init PROVE IInv
  OBVIOUS
<1>1. Tasks
  BY IdleFit DEF Init, Tasks
<1>2. TypeOK
  BY <1>1, ConsoleAssumption DEF Init, TypeOK, Tasks, Fit
<1>3. BusyMeansWork
  BY DEF Init, BusyMeansWork, Working, Idle
<1> QED
  BY <1>1, <1>2, <1>3 DEF IInv, Init, SelectionIsListed, SessionsOfTheOwner,
     PanelsFollowSelection

LEMMA NextIInv == IInv /\ [Next]_vars => IInv'
<1> SUFFICES ASSUME IInv, [Next]_vars PROVE IInv'
  OBVIOUS
<1> USE DEF IInv
<1>1. TypeOK' /\ Tasks'
  BY TypeStep
<1>2. PanelsFollowSelection'
  BY PanelsStep
<1>3. SelectionIsListed' /\ SessionsOfTheOwner' /\ BusyMeansWork'
  BY SelectionStep, SessionsStep, BusyStep
<1> QED BY <1>1, <1>2, <1>3

LEMMA IInvAlways == Spec => []IInv
  BY InitIInv, NextIInv, PTL DEF Spec

\* The types of the console's state.
THEOREM Types == Spec => []TypeOK
  BY IInvAlways, PTL DEF IInv

\* Whatever lists arrive, older than what is on the screen, of another token or
\* asked for by another wallet's render, the selection is in the one that is
\* shown (refresh).
THEOREM SelectionListed == Spec => []SelectionIsListed
  BY IInvAlways, PTL DEF IInv

\* A session is kept for the instance it was asked for, and was signed by that
\* instance's owner if a wallet signed it (ensureScopedSession).
THEOREM SessionsOwned == Spec => []SessionsOfTheOwner
  BY IInvAlways, PTL DEF IInv

\* Panels show the selected instance, or an answer that came after the
\* selection had moved (the effect on selectedId, and the handlers' answers).
THEOREM PanelsFollow == Spec => []PanelsFollowSelection
  BY IInvAlways, PTL DEF IInv

\* A spinner that is on has a handler at work; setup and provisioning run one
\* at a time (the finally clauses, and the buttons they disable).
THEOREM SpinnersWork == Spec => []BusyMeansWork
  BY IInvAlways, PTL DEF IInv

=============================================================================
