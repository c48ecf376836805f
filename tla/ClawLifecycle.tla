--------------------------- MODULE ClawLifecycle ---------------------------
(***************************************************************************)
(* The node: lifecycle jobs (jobs/lifecycle.rs) and the operator API's     *)
(* queries and setup trigger (operator_api.rs, query.rs) working through   *)
(* the Docker adapter (runtime_adapter.rs) on the instance store and the   *)
(* Docker daemon.                                                          *)
(*                                                                         *)
(* Each handler runs as a task of its own: jobs on the blueprint runner,   *)
(* requests on the HTTP server, both on a multi-threaded runtime.  One     *)
(* step of a task is one store operation or one docker command; what a     *)
(* handler computes in between is part of that step.  A handler copies the *)
(* record it works on (rec, todo) and writes the copy back later; nothing  *)
(* is locked in between, and any other task may run.                       *)
(*                                                                         *)
(* An early return that changes nothing (unknown instance, foreign caller, *)
(* state not allowed) is the absence of a Begin step.                      *)
(***************************************************************************)
EXTENDS DockerDaemon, Integers

CONSTANTS
    Task,                \* handlers that may be in flight at once
    NoId, NoOwner,       \* an idle task's instance and caller
    AutoStart,           \* OPENCLAW_AUTO_START_ON_CREATE
    AutoSetup,           \* OPENCLAW_AUTO_TRIGGER_SETUP
    InspectNamesMissing, \* docker inspect of a removed container answers
                         \* "No such container", as is_container_missing_error
                         \* expects (docker rm and docker stop do)
    Budget               \* bounds: how many steps of each class may happen

BudgetClass ==
    {"job", "setup", "query", "docker", "store", "crash", "power", "outside"}

ASSUME LifecycleAssumption ==
    /\ NoId \notin Id
    /\ NoOwner \notin Owner
    /\ AutoStart \in BOOLEAN
    /\ AutoSetup \in BOOLEAN
    /\ InspectNamesMissing \in BOOLEAN
    /\ Budget \in [BudgetClass -> Int]

VARIABLES
    store, file, survivors, \* the instance store, see DurableMap
    task,                   \* the handlers in flight
    used,                   \* ids that uuid::new_v4 has produced
    acked,                  \* history: ids whose create_instance returned Ok
    budget                  \* what is left of Budget

Store == INSTANCE DurableMap
    WITH Key <- Id, Val <- InstanceRecord, NoVal <- NoRecord, mem <- store

storeVars == <<store, file, survivors>>
vars == <<ctr, storeVars, task, used, acked, budget>>

Kind == {"none", "create", "start", "stop", "delete", "setup", "query"}

Pc == {"idle", "docker_create", "inspect_port", "first_save", "cleanup",
       "docker_start", "inspect_started", "auto_setup", "docker_stop",
       "docker_rm", "final_save", "setup_exec", "setup_save", "setup_view",
       "inspect", "refresh_port", "refresh_save"}

MaybeRecord == InstanceRecord \cup {NoRecord}

TaskState ==
    [kind : Kind, pc : Pc, id : Id \cup {NoId}, caller : Owner \cup {NoOwner},
     rec : MaybeRecord,           \* the copy the task will write back
     todo : [Id -> MaybeRecord]]  \* a query's copies still to be refreshed

NoRecords == [i \in Id |-> NoRecord]

IdleTask ==
    [kind |-> "none", pc |-> "idle", id |-> NoId, caller |-> NoOwner,
     rec |-> NoRecord, todo |-> NoRecords]

TypeOK ==
    /\ DaemonTypeOK
    /\ Store!TypeOK
    /\ task \in [Task -> TaskState]
    /\ used \in SUBSET Id
    /\ acked \in SUBSET Id
    /\ budget \in [BudgetClass -> Int]

Init ==
    /\ DaemonInit
    /\ Store!Init
    /\ task = [t \in Task |-> IdleTask]
    /\ used = {}
    /\ acked = {}
    /\ budget = Budget

-----------------------------------------------------------------------------
(* Helpers *)

\* A negative budget stands for no bound.
Spend(class) ==
    /\ budget[class] # 0
    /\ budget' = [budget EXCEPT ![class] = IF @ < 0 THEN @ ELSE @ - 1]

\* A docker command fails for a reason of its own: daemon down, timeout, ...
DockerFault == Spend("docker")

Idle(t) == task[t].pc = "idle"

Begin(t, kind, pc, i, o, r) ==
    /\ Idle(t)
    /\ task' = [task EXCEPT ![t] =
        [kind |-> kind, pc |-> pc, id |-> i, caller |-> o, rec |-> r,
         todo |-> NoRecords]]

At(t, pc) == task[t].pc = pc

Goto(t, pc, r) == task' = [task EXCEPT ![t].pc = pc, ![t].rec = r]

\* The handler returns, with Ok or with Err.
Finish(t) == task' = [task EXCEPT ![t] = IdleTask]

\* Mutant: the map in memory is updated, the file is not.
SaveInMemoryOnly(i, r) ==
    store' = [store EXCEPT ![i] = r] /\ UNCHANGED <<file, survivors, budget>>

Save(i, r) == Store!Put(i, r) /\ UNCHANGED budget

\* insert() fails, before or after it has replaced the file.
SaveFails(i, r) ==
    /\ Spend("store")
    /\ Store!Expose(i, r) \/ UNCHANGED storeVars

-----------------------------------------------------------------------------
(* create_instance *)

BeginCreate(t, i, o) ==
    /\ i \notin used
    /\ Spend("job")
    /\ Begin(t, "create", "docker_create", i, o, NoRecord)
    /\ used' = used \cup {i}
    /\ UNCHANGED <<ctr, storeVars, acked>>

DockerCreate(t) ==
    LET i == task[t].id IN
    /\ At(t, "docker_create")
    /\ \/ /\ DaemonCreate(i)
          /\ Goto(t, IF i \in PublishesUi THEN "inspect_port" ELSE "first_save",
                  Created(i, task[t].caller))
          /\ UNCHANGED budget
       \/ DockerFault /\ Finish(t) /\ UNCHANGED ctr
    /\ UNCHANGED <<storeVars, used, acked>>

\* inspect_container_host_port: an error returns at once (`?`) and leaves the
\* new container behind.
InspectNewPort(t) ==
    LET i == task[t].id IN
    /\ At(t, "inspect_port")
    /\ \/ /\ Present(i)
          /\ Goto(t, "first_save",
                  [task[t].rec EXCEPT !.ui_host_port = ctr[i].port])
          /\ UNCHANGED budget
       \/ ~Present(i) /\ Finish(t) /\ UNCHANGED budget
       \/ DockerFault /\ Finish(t)
    /\ UNCHANGED <<ctr, storeVars, used, acked>>

\* Mutant: a failed save returns without cleanup_container.
FirstSaveWithoutCleanup(t) ==
    LET i == task[t].id r == task[t].rec IN
    /\ At(t, "first_save")
    /\ \/ Save(i, r) /\ Goto(t, "docker_start", r)
       \/ SaveFails(i, r) /\ Finish(t)
    /\ UNCHANGED <<ctr, used, acked>>

FirstSave(t) ==
    LET i == task[t].id r == task[t].rec IN
    /\ At(t, "first_save")
    /\ \/ /\ Save(i, r)
          /\ \/ AutoStart /\ Goto(t, "docker_start", r) /\ UNCHANGED acked
             \/ ~AutoStart /\ Finish(t) /\ acked' = acked \cup {i}
       \/ SaveFails(i, r) /\ Goto(t, "cleanup", r) /\ UNCHANGED acked
    /\ UNCHANGED <<ctr, used>>

\* cleanup_container ignores the outcome of docker rm -f.
Cleanup(t) ==
    /\ At(t, "cleanup")
    /\ \/ DaemonRemove(task[t].id) /\ UNCHANGED budget
       \/ DockerFault /\ UNCHANGED ctr
    /\ Finish(t)
    /\ UNCHANGED <<storeVars, used, acked>>

-----------------------------------------------------------------------------
(* start_instance, stop_instance, delete_instance *)

\* Mutant: get_owned_instance does not compare the caller with the owner.
MayBeginForAnyone(kind, i, o) ==
    /\ store[i] # NoRecord
    /\ \/ kind = "start" /\ store[i].state = "stopped"
       \/ kind = "stop" /\ store[i].state = "running"
       \/ kind = "delete" /\ store[i].state # "deleted"

\* get_owned_instance and the check of the state the job starts from.
MayBegin(kind, i, o) ==
    /\ store[i] # NoRecord
    /\ store[i].owner = o
    /\ \/ kind = "start" /\ store[i].state = "stopped"
       \/ kind = "stop" /\ store[i].state = "running"
       \/ kind = "delete" /\ store[i].state # "deleted"

FirstPc(kind) ==
    CASE kind = "start" -> "docker_start"
      [] kind = "stop" -> "docker_stop"
      [] kind = "delete" -> "docker_rm"

BeginJob(t, kind, i, o) ==
    /\ MayBegin(kind, i, o)
    /\ Spend("job")
    /\ Begin(t, kind, FirstPc(kind), i, o, store[i])
    /\ UNCHANGED <<ctr, storeVars, used, acked>>

\* on_start_instance: the docker start command, for a start job or for the
\* auto-start of a create.
DockerStart(t) ==
    LET i == task[t].id IN
    /\ At(t, "docker_start")
    /\ \/ DaemonStart(i) /\ Goto(t, "inspect_started", task[t].rec) /\ UNCHANGED budget
       \/ /\ ~CanStart(i)
          /\ Goto(t, "final_save", Failed(task[t].rec, "startup"))
          /\ UNCHANGED <<ctr, budget>>
       \/ /\ DockerFault
          /\ Goto(t, "final_save", Failed(task[t].rec, "startup"))
          /\ UNCHANGED ctr
    /\ UNCHANGED <<storeVars, used, acked>>

\* The handler's part after on_start_instance has returned Ok: both set the
\* state, create_instance also clears last_error.
Started(t, r) ==
    [r EXCEPT !.state = "running",
              !.last_error = IF task[t].kind = "create" THEN "none" ELSE @]

\* on_start_instance after the stabilization sleep: inspect, then trigger_setup
\* when a setup is due.
InspectStarted(t) ==
    LET i == task[t].id
        r == Stabilized(task[t].rec, ctr[i].status)
    IN
    /\ At(t, "inspect_started")
    /\ \/ /\ ~Present(i)
          /\ Goto(t, "final_save", Failed(task[t].rec, "startup"))
          /\ UNCHANGED budget
       \/ DockerFault /\ Goto(t, "final_save", Failed(task[t].rec, "startup"))
       \/ /\ Present(i) /\ ~Running(i)
          /\ Goto(t, "final_save", r)
          /\ UNCHANGED budget
       \/ /\ Running(i)
          /\ \/ AutoSetup /\ SetupDue(r) /\ i \in HasSetupCommand
                /\ Goto(t, "auto_setup", r)
             \/ AutoSetup /\ SetupDue(r) /\ i \notin HasSetupCommand
                /\ Goto(t, "final_save", Started(t, SetupAwaitsUser(r)))
             \/ ~(AutoSetup /\ SetupDue(r)) /\ Goto(t, "final_save", Started(t, r))
          /\ UNCHANGED budget
    /\ UNCHANGED <<ctr, storeVars, used, acked>>

\* docker exec -d of the setup command; its failure is only recorded.
AutoSetupExec(t) ==
    LET r == task[t].rec IN
    /\ At(t, "auto_setup")
    /\ \/ Running(task[t].id) /\ UNCHANGED budget
          /\ Goto(t, "final_save", Started(t, SetupRunning(r)))
       \/ ~Running(task[t].id) /\ UNCHANGED budget
          /\ Goto(t, "final_save", Started(t, SetupFailed(r)))
       \/ DockerFault /\ Goto(t, "final_save", Started(t, SetupFailed(r)))
    /\ UNCHANGED <<ctr, storeVars, used, acked>>

\* on_stop_instance; a missing container counts as stopped.
DockerStop(t) ==
    /\ At(t, "docker_stop")
    /\ \/ /\ DaemonStop(task[t].id)
          /\ Goto(t, "final_save", Stopped(task[t].rec))
          /\ UNCHANGED budget
       \/ /\ DockerFault
          /\ Goto(t, "final_save", Failed(task[t].rec, "docker"))
          /\ UNCHANGED ctr
    /\ UNCHANGED <<storeVars, used, acked>>

\* Mutant: any error of docker rm counts as removed.
DockerRemoveUnchecked(t) ==
    /\ At(t, "docker_rm")
    /\ \/ DaemonRemove(task[t].id) /\ UNCHANGED budget
       \/ DockerFault /\ UNCHANGED ctr
    /\ Goto(t, "final_save", Deleted(task[t].rec))
    /\ UNCHANGED <<storeVars, used, acked>>

\* on_delete_instance; a missing container counts as removed.
DockerRemove(t) ==
    /\ At(t, "docker_rm")
    /\ \/ /\ DaemonRemove(task[t].id)
          /\ Goto(t, "final_save", Deleted(task[t].rec))
          /\ UNCHANGED budget
       \/ /\ DockerFault
          /\ Goto(t, "final_save", Failed(task[t].rec, "docker"))
          /\ UNCHANGED ctr
    /\ UNCHANGED <<storeVars, used, acked>>

\* The handler saves its copy and returns.  After a docker error the outcome
\* of the save is ignored; otherwise a failed save makes the handler fail.
FinalSave(t) ==
    LET i == task[t].id IN
    /\ At(t, "final_save")
    /\ \/ /\ Save(i, task[t].rec)
          /\ acked' = IF task[t].kind = "create" THEN acked \cup {i} ELSE acked
       \/ SaveFails(i, task[t].rec) /\ UNCHANGED acked
    /\ Finish(t)
    /\ UNCHANGED <<ctr, used>>

-----------------------------------------------------------------------------
(* POST /instances/{id}/setup/start *)

\* The owner's session, and trigger_setup up to the docker command: it trusts
\* the container status in the record.
BeginSetup(t, i, o) ==
    /\ store[i] # NoRecord
    /\ store[i].owner = o
    /\ store[i].state # "deleted"
    /\ store[i].container_status = "running"
    /\ Spend("setup")
    /\ IF i \in HasSetupCommand
       THEN Begin(t, "setup", "setup_exec", i, o, store[i])
       ELSE Begin(t, "setup", "setup_save", i, o, SetupAwaitsUser(store[i]))
    /\ UNCHANGED <<ctr, storeVars, used, acked>>

SetupExec(t) ==
    /\ At(t, "setup_exec")
    /\ \/ Running(task[t].id) /\ UNCHANGED budget
          /\ Goto(t, "setup_save", SetupRunning(task[t].rec))
       \/ ~Running(task[t].id) /\ UNCHANGED budget /\ Finish(t)
       \/ DockerFault /\ Finish(t)
    /\ UNCHANGED <<ctr, storeVars, used, acked>>

SetupSave(t) ==
    LET i == task[t].id r == task[t].rec IN
    /\ At(t, "setup_save")
    /\ \/ Save(i, r) /\ Goto(t, "setup_view", NoRecord)
       \/ SaveFails(i, r) /\ Finish(t)
    /\ UNCHANGED <<ctr, used, acked>>

\* The answer is get_instance_view of the instance.
SetupView(t) ==
    LET i == task[t].id IN
    /\ At(t, "setup_view")
    /\ task' = [task EXCEPT ![t].pc = "inspect",
                            ![t].todo = [NoRecords EXCEPT ![i] = store[i]]]
    /\ UNCHANGED <<ctr, storeVars, used, acked, budget>>

-----------------------------------------------------------------------------
(* GET /instances and GET /instances/{id}: list_instance_views and           *)
(* get_instance_view copy the records, then refresh and save one by one      *)

BeginQuery(t, scope) ==
    LET copies == [i \in Id |-> IF i \in scope THEN store[i] ELSE NoRecord] IN
    /\ Idle(t)
    /\ copies # NoRecords
    /\ Spend("query")
    /\ task' = [task EXCEPT ![t] =
        [IdleTask EXCEPT !.kind = "query", !.pc = "inspect", !.todo = copies]]
    /\ UNCHANGED <<ctr, storeVars, used, acked>>

\* Instance i is done; go on with the others, or answer.
NextView(t, i) ==
    LET rest == [task[t].todo EXCEPT ![i] = NoRecord] IN
    task' = [task EXCEPT ![t] =
        IF rest = NoRecords THEN IdleTask
        ELSE [@ EXCEPT !.pc = "inspect", !.rec = NoRecord, !.todo = rest]]

\* Save what refresh_instance returned only if it differs from the copy; two
\* docker errors may or may not read the same.
Refreshed(t, i, r) ==
    \/ /\ r # task[t].todo[i] \/ r.last_error = "docker"
       /\ task' = [task EXCEPT ![t].pc = "refresh_save", ![t].id = i, ![t].rec = r]
    \/ r = task[t].todo[i] /\ NextView(t, i)

\* The docker inspect of refresh_instance.  list answers newest first; here the
\* records come in any order.
Inspect(t) ==
    /\ At(t, "inspect")
    /\ \E i \in Id :
        LET copy == task[t].todo[i] IN
        /\ copy # NoRecord
        /\ \/ /\ Present(i)
              /\ LET r == Seen(copy, ctr[i].status) IN
                 \/ /\ r.ui_host_port = NoPort /\ i \in PublishesUi
                    /\ task' = [task EXCEPT ![t].pc = "refresh_port",
                                            ![t].id = i, ![t].rec = r]
                 \/ /\ r.ui_host_port # NoPort \/ i \notin PublishesUi
                    /\ Refreshed(t, i, r)
              /\ UNCHANGED budget
           \/ /\ ~Present(i)
              /\ Refreshed(t, i, IF InspectNamesMissing THEN Missing(copy)
                                 ELSE Failed(copy, "docker"))
              /\ UNCHANGED budget
           \/ DockerFault /\ Refreshed(t, i, Failed(copy, "docker"))
    /\ UNCHANGED <<ctr, storeVars, used, acked>>

\* The record has no host port yet: ask for it.  An error ends the request.
InspectPort(t) ==
    LET i == task[t].id IN
    /\ At(t, "refresh_port")
    /\ \/ /\ Present(i)
          /\ Refreshed(t, i, [task[t].rec EXCEPT !.ui_host_port = ctr[i].port])
          /\ UNCHANGED budget
       \/ ~Present(i) /\ Finish(t) /\ UNCHANGED budget
       \/ DockerFault /\ Finish(t)
    /\ UNCHANGED <<ctr, storeVars, used, acked>>

\* A failed save ends the request as well.
RefreshSave(t) ==
    LET i == task[t].id r == task[t].rec IN
    /\ At(t, "refresh_save")
    /\ \/ Save(i, r) /\ NextView(t, i)
       \/ SaveFails(i, r) /\ Finish(t)
    /\ UNCHANGED <<ctr, used, acked>>

-----------------------------------------------------------------------------
(* The environment *)

OutsideChange(i) ==
    /\ Spend("outside")
    /\ Outside(i)
    /\ UNCHANGED <<storeVars, task, used, acked>>

\* The node is killed and started again: tasks are gone, the file is loaded.
Restart ==
    /\ Spend("crash")
    /\ Store!ProcessRestart
    /\ task' = [t \in Task |-> IdleTask]
    /\ UNCHANGED <<ctr, used, acked>>

Reboot ==
    /\ Spend("power")
    /\ Store!PowerLoss
    /\ DaemonReboot
    /\ task' = [t \in Task |-> IdleTask]
    /\ UNCHANGED <<used, acked>>

-----------------------------------------------------------------------------

CreateSteps(t) ==
    DockerCreate(t) \/ InspectNewPort(t) \/ FirstSave(t) \/ Cleanup(t)

JobSteps(t) ==
    \/ DockerStart(t) \/ InspectStarted(t) \/ AutoSetupExec(t)
    \/ DockerStop(t) \/ DockerRemove(t) \/ FinalSave(t)

HttpSteps(t) ==
    \/ SetupExec(t) \/ SetupSave(t) \/ SetupView(t)
    \/ Inspect(t) \/ InspectPort(t) \/ RefreshSave(t)

Progress(t) == CreateSteps(t) \/ JobSteps(t) \/ HttpSteps(t)

Query(t, i) == BeginQuery(t, {i})

Requests(t) ==
    \/ \E i \in Id, o \in Owner :
        \/ BeginCreate(t, i, o)
        \/ \E kind \in {"start", "stop", "delete"} : BeginJob(t, kind, i, o)
        \/ BeginSetup(t, i, o)
    \/ \E i \in Id : Query(t, i)
    \/ BeginQuery(t, Id)

Environment ==
    \/ \E i \in Id : OutsideChange(i)
    \/ Restart
    \/ Reboot

Next ==
    \/ \E t \in Task : Requests(t) \/ Progress(t)
    \/ Environment

Spec == Init /\ [][Next]_vars

-----------------------------------------------------------------------------
(* Safety *)

\* The maps that some later get() may answer from.
Maps == {store, file} \cup survivors

\* Every copy of instance i's record anywhere: in memory, on disk, and in the
\* hands of a handler that may still write it back.
Copies(i) ==
    {m[i] : m \in Maps} \cup {task[t].todo[i] : t \in Task}
        \cup {task[t].rec : t \in {u \in Task : task[u].id = i}}

IsDeleted(r) == r # NoRecord /\ r.state = "deleted"

\* on_delete_instance removes the container before the record says deleted, and
\* nothing brings it back: wherever a copy of the record says deleted, stale or
\* not, the container is gone.
DeletedMeansRemoved ==
    \A i \in Id : (\E r \in Copies(i) : IsDeleted(r)) => ~Present(i)

\* "Caller ownership validation on all lifecycle operations": a handler that
\* acts on an existing instance acts for the owner in its current record, for
\* as long as it runs and whatever the others write back meanwhile.
OnlyOwnerActs ==
    \A t \in Task : task[t].kind \in {"start", "stop", "delete", "setup"} =>
        /\ store[task[t].id] # NoRecord
        /\ store[task[t].id].owner = task[t].caller

\* An instance whose create_instance has returned Ok is never forgotten, not by
\* a failed save of another handler and not by a crash.
AckedCreateSurvives ==
    \A i \in acked, m \in Maps : m[i] # NoRecord

\* Nothing but saves has failed so far (for bounds that are not negative).
OnlySavesFailed ==
    \A class \in {"docker", "crash", "power"} : budget[class] = Budget[class]

\* As long as only saves fail, no container is left without a record:
\* create_instance cleans up after its own failed save.
NoOrphanContainer ==
    OnlySavesFailed =>
        \A i \in Id : Present(i) =>
            \/ store[i] # NoRecord
            \/ \E t \in Task : task[t].kind = "create" /\ task[t].id = i

-----------------------------------------------------------------------------
(* The inductive invariant behind TypeOK and DeletedMeansRemoved.            *)

Creating(i) == \E t \in Task : task[t].pc = "docker_create" /\ task[t].id = i

\* A copy of i's record exists only once i's container has been created, and
\* says deleted only once it is gone.
Good(i, r) ==
    r # NoRecord =>
        /\ i \in used
        /\ ~Creating(i)
        /\ IsDeleted(r) => ~Present(i)

\* The stages at which a handler holds the record it works on.
Holding == Pc \ {"idle", "docker_create", "setup_view", "inspect"}

\* What a task x may hold at its stage.
Sound(x) ==
    /\ x.id \in Id => x.id \in used
    /\ x.pc \in {"docker_create", "setup_view"} => x.id \in Id
    /\ x.pc = "docker_create" => x.caller \in Owner /\ x.rec = NoRecord
    /\ x.pc \in Holding => x.rec # NoRecord
    /\ x.rec # NoRecord => x.id \in Id /\ Good(x.id, x.rec)
    /\ \A i \in Id : Good(i, x.todo[i])

\* uuid::new_v4: two creates never work on the same id.
OneCreator ==
    \A t, u \in Task :
        /\ task[t].pc = "docker_create"
        /\ task[u].pc = "docker_create"
        /\ task[t].id = task[u].id
        => t = u

IInv ==
    /\ TypeOK
    /\ OneCreator
    /\ \A m \in Maps, i \in Id : Good(i, m[i])
    /\ \A t \in Task : Sound(task[t])

=============================================================================
