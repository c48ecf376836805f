------------------------ MODULE ClawLifecycleProofs ------------------------
(***************************************************************************)
(* ClawLifecycle, for any instances, owners, ports and number of handlers  *)
(* in flight, in four parts.                                               *)
(*                                                                         *)
(* I. Its types, and that a record which says deleted is never wrong about *)
(* its container.  A handler never makes up a record.  What it holds came  *)
(* from the store or from an earlier copy, and each adapter operation      *)
(* keeps "deleted" apart from the others; so a copy is as good as the one  *)
(* it came from (Good), wherever it is kept and however stale it is.  Only *)
(* docker create makes a container present, and until it has, no copy of   *)
(* the record exists.                                                      *)
(*                                                                         *)
(* II. A handler acts for the owner in the record for as long as it runs.  *)
(* The check at the beginning is not repeated, so what the others write    *)
(* back must not change the owner.  All copies of an instance's record     *)
(* agree on it (Owned): the first is made when there is no other, and      *)
(* every later one comes from the store or from a copy.                    *)
(*                                                                         *)
(* III. As long as only saves fail, every container has a record, or a     *)
(* create_instance that is still at work on it.  A create is at a stage    *)
(* before its first save (Before), where it answers for the container, or  *)
(* after it (After), where the record does.  The budgets only shrink, so   *)
(* that a docker fault or a crash is remembered for ever.                  *)
(*                                                                         *)
(* IV. While handlers do not overlap, the store moves by rows of the job   *)
(* table.  A handler's copy is where the record is, or one row ahead of    *)
(* it, depending on the stage (Expected); only a save moves the store, to  *)
(* the copy, and a crash moves it to the file, which a failed save may     *)
(* have left one row ahead of memory (OneRow).                             *)
(***************************************************************************)
EXTENDS ClawPromises, TLAPS

-----------------------------------------------------------------------------
(* I. Types, and deleted records                                           *)

(* Good and Sound of the next state, for a record or task given now. *)

PresentNext(i) == ctr'[i].status # "absent"

CreatingNext(i) == \E t \in Task : task'[t].pc = "docker_create" /\ task'[t].id = i

GoodNext(i, r) ==
    r # NoRecord =>
        /\ i \in used'
        /\ ~CreatingNext(i)
        /\ IsDeleted(r) => ~PresentNext(i)

SoundNext(x) ==
    /\ x.id \in Id => x.id \in used'
    /\ x.pc \in {"docker_create", "setup_view"} => x.id \in Id
    /\ x.pc = "docker_create" => x.caller \in Owner /\ x.rec = NoRecord
    /\ x.pc \in Holding => x.rec # NoRecord
    /\ x.rec # NoRecord => x.id \in Id /\ GoodNext(x.id, x.rec)
    /\ \A i \in Id : GoodNext(i, x.todo[i])

\* Containers appear, and ids are reserved for one, only where no copy of the
\* record can be.
Frame ==
    /\ used \subseteq used'
    /\ \A i \in Id : CreatingNext(i) => Creating(i) \/ i \notin used
    /\ \A i \in Id : PresentNext(i) => Present(i) \/ Creating(i)

\* The store as it was, or one good record saved or left behind by a failure.
StoreMove ==
    \/ UNCHANGED storeVars
    \/ \E i \in Id, r \in InstanceRecord :
        GoodNext(i, r) /\ (Store!Put(i, r) \/ Store!Expose(i, r))

-----------------------------------------------------------------------------
(* Records *)

\* Every operation of the adapter turns a record into a record.
LEMMA RecordTypes ==
    ASSUME NEW r \in InstanceRecord, NEW i \in Id
    PROVE  /\ \A why \in LastError : Failed(r, why) \in InstanceRecord
           /\ \A st \in ContainerStatus :
                Stabilized(r, st) \in InstanceRecord /\ Seen(r, st) \in InstanceRecord
           /\ SetupRunning(r) \in InstanceRecord
           /\ SetupAwaitsUser(r) \in InstanceRecord
           /\ SetupFailed(r) \in InstanceRecord
           /\ Stopped(r) \in InstanceRecord
           /\ Deleted(r) \in InstanceRecord
           /\ Missing(r) \in InstanceRecord
           /\ \A t \in Task : Started(t, r) \in InstanceRecord
           /\ \A p \in Port \cup {NoPort} :
                [r EXCEPT !.ui_host_port = p] \in InstanceRecord
           /\ \A o \in Owner : Created(i, o) \in InstanceRecord
  <1> USE DEF InstanceRecord, InstanceState, ContainerStatus, SetupStatus, LastError
  <1>1. \A why \in LastError : Failed(r, why) \in InstanceRecord
    BY DEF Failed
  <1>2. \A st \in ContainerStatus :
            Stabilized(r, st) \in InstanceRecord /\ Seen(r, st) \in InstanceRecord
    <2> TAKE st \in ContainerStatus
    <2>1. Stabilized(r, st) \in InstanceRecord
      BY DEF Stabilized
    <2>2. Seen(r, st) \in InstanceRecord
      <3> DEFINE s == IF r.state = "deleted" THEN r.state
                      ELSE IF st = "running" THEN "running" ELSE "stopped"
      <3>1. s \in InstanceState
        OBVIOUS
      <3>2. Seen(r, st) = [r EXCEPT !.state = s, !.container_status = st,
                                    !.last_error = "none"]
        BY DEF Seen
      <3> HIDE DEF s
      <3> QED BY <3>1, <3>2
    <2> QED BY <2>1, <2>2
  <1>3. SetupRunning(r) \in InstanceRecord /\ SetupAwaitsUser(r) \in InstanceRecord
        /\ SetupFailed(r) \in InstanceRecord
    BY DEF SetupRunning, SetupAwaitsUser, SetupFailed
  <1>4. Stopped(r) \in InstanceRecord /\ Deleted(r) \in InstanceRecord
    BY DEF Stopped, Deleted
  <1>5. Missing(r) \in InstanceRecord
    BY DEF Missing
  <1>6. \A t \in Task : Started(t, r) \in InstanceRecord
    BY DEF Started
  <1>7. \A p \in Port \cup {NoPort} : [r EXCEPT !.ui_host_port = p] \in InstanceRecord
    OBVIOUS
  <1>8. \A o \in Owner : Created(i, o) \in InstanceRecord
    BY DEF Created
  <1> QED BY <1>1, <1>2, <1>3, <1>4, <1>5, <1>6, <1>7, <1>8

\* Only on_delete_instance marks a record as deleted.
LEMMA OnlyDeleteDeletes ==
    ASSUME NEW r \in InstanceRecord, NEW i \in Id
    PROVE  /\ \A why \in LastError : IsDeleted(Failed(r, why)) => IsDeleted(r)
           /\ \A st \in ContainerStatus :
                /\ IsDeleted(Stabilized(r, st)) => IsDeleted(r)
                /\ IsDeleted(Seen(r, st)) => IsDeleted(r)
           /\ IsDeleted(SetupRunning(r)) => IsDeleted(r)
           /\ IsDeleted(SetupAwaitsUser(r)) => IsDeleted(r)
           /\ IsDeleted(SetupFailed(r)) => IsDeleted(r)
           /\ ~IsDeleted(Stopped(r))
           /\ IsDeleted(Missing(r)) => IsDeleted(r)
           /\ \A t \in Task : ~IsDeleted(Started(t, r))
           /\ \A p : IsDeleted([r EXCEPT !.ui_host_port = p]) => IsDeleted(r)
           /\ \A o : ~IsDeleted(Created(i, o))
  <1> r # NoRecord
    BY NoRecordAssumption
  <1> USE DEF InstanceRecord, IsDeleted
  <1>1. \A why \in LastError : IsDeleted(Failed(r, why)) => IsDeleted(r)
    BY DEF Failed
  <1>2. \A st \in ContainerStatus :
            /\ IsDeleted(Stabilized(r, st)) => IsDeleted(r)
            /\ IsDeleted(Seen(r, st)) => IsDeleted(r)
    BY DEF Stabilized, Seen
  <1>3. /\ IsDeleted(SetupRunning(r)) => IsDeleted(r)
        /\ IsDeleted(SetupAwaitsUser(r)) => IsDeleted(r)
        /\ IsDeleted(SetupFailed(r)) => IsDeleted(r)
    BY DEF SetupRunning, SetupAwaitsUser, SetupFailed
  <1>4. ~IsDeleted(Stopped(r)) /\ (IsDeleted(Missing(r)) => IsDeleted(r))
    BY DEF Stopped, Missing
  <1>5. \A t \in Task : ~IsDeleted(Started(t, r))
    BY DEF Started
  <1>6. \A p : IsDeleted([r EXCEPT !.ui_host_port = p]) => IsDeleted(r)
    OBVIOUS
  <1>7. \A o : ~IsDeleted(Created(i, o))
    BY DEF Created
  <1> QED BY <1>1, <1>2, <1>3, <1>4, <1>5, <1>6, <1>7

-----------------------------------------------------------------------------
(* Steps *)

\* A copy that is good stays good, whoever holds it.
LEMMA GoodStays ==
    ASSUME Frame, NEW i \in Id, NEW r, Good(i, r)
    PROVE  GoodNext(i, r)
  BY DEF Frame, Good, GoodNext

LEMMA SoundStays ==
    ASSUME Frame, NEW x, Sound(x)
    PROVE  SoundNext(x)
  BY GoodStays DEF Frame, Sound, SoundNext

\* The store keeps its type and serves good copies only.
LEMMA StoreMoves ==
    ASSUME Store!TypeOK, \A m \in Maps, i \in Id : Good(i, m[i]), Frame, StoreMove
    PROVE  Store!TypeOK' /\ \A m \in Maps' : \A i \in Id : GoodNext(i, m[i])
  <1> USE DEF Store!TypeOK, Store!Map, Maps
  <1>0. \A m \in Maps, i \in Id : GoodNext(i, m[i])
    BY GoodStays
  <1>1. CASE UNCHANGED storeVars
    BY <1>0, <1>1 DEF storeVars
  <1>2. CASE \E i \in Id, r \in InstanceRecord :
                GoodNext(i, r) /\ (Store!Put(i, r) \/ Store!Expose(i, r))
    <2>1. PICK j \in Id, r \in InstanceRecord :
                GoodNext(j, r) /\ (Store!Put(j, r) \/ Store!Expose(j, r))
      BY <1>2
    <2> DEFINE n == [store EXCEPT ![j] = r]
    <2>2. n \in Store!Map /\ \A i \in Id : GoodNext(i, n[i])
      BY <1>0, <2>1
    <2>3. Store!TypeOK' /\ Maps' \subseteq Maps \cup {n}
      BY <2>1, <2>2 DEF Store!Put, Store!Expose
    <2> QED BY <1>0, <2>2, <2>3
  <1> QED BY <1>1, <1>2 DEF StoreMove

\* One handler takes a step; every other invariant of the state follows.
LEMMA TaskStep ==
    ASSUME IInv, NEW t \in Task, NEW x \in TaskState,
           task' = [task EXCEPT ![t] = x],
           x.pc # "docker_create" \/ x.id \notin used,
           SoundNext(x), Frame, StoreMove,
           DaemonTypeOK', used' \in SUBSET Id, acked' \in SUBSET Id,
           budget' \in [BudgetClass -> Int]
    PROVE  IInv'
  <1> USE DEF IInv
  <1>1. Store!TypeOK' /\ \A m \in Maps' : \A i \in Id : GoodNext(i, m[i])
    BY StoreMoves DEF TypeOK
  <1>2. task' \in [Task -> TaskState]
    BY DEF TypeOK
  <1>3. TypeOK'
    BY <1>1, <1>2 DEF TypeOK
  <1>4. \A u \in Task : SoundNext(task'[u])
    BY SoundStays DEF TypeOK
  <1>5. OneCreator'
    BY DEF OneCreator, TypeOK, Sound
  <1>6. (\A m \in Maps, i \in Id : Good(i, m[i]))'
    BY <1>1 DEF Good, GoodNext, Creating, CreatingNext, PresentNext, Present, IsDeleted
  <1>7. (\A u \in Task : Sound(task[u]))'
    BY <1>4 DEF Sound, SoundNext, Good, GoodNext, Creating, CreatingNext,
                PresentNext, Present, IsDeleted
  <1> QED BY <1>3, <1>5, <1>6, <1>7

\* A handler that does not begin a create takes part in no new container.
LEMMA FrameKept ==
    ASSUME IInv, NEW t \in Task, NEW x,
           task' = [task EXCEPT ![t] = x], x.pc # "docker_create",
           used' = used,
           \A i \in Id : PresentNext(i) => Present(i) \/ Creating(i)
    PROVE  Frame
  BY DEF IInv, TypeOK, Frame, CreatingNext, Creating

\* What a holding handler knows.
LEMMA Held ==
    ASSUME IInv, NEW t \in Task, task[t].pc \in Holding
    PROVE  /\ task[t] \in TaskState
           /\ task[t].rec \in InstanceRecord
           /\ task[t].id \in Id
           /\ Good(task[t].id, task[t].rec)
  BY DEF IInv, TypeOK, TaskState, MaybeRecord, Sound

\* A holding handler goes on to its next stage with a new copy.
LEMMA GotoStep ==
    ASSUME IInv, NEW t \in Task, task[t].pc \in Holding,
           NEW pc \in Holding, NEW r \in InstanceRecord, Goto(t, pc, r),
           IsDeleted(r) => IsDeleted(task[t].rec) \/ ~PresentNext(task[t].id),
           StoreMove, DaemonTypeOK', used' = used, acked' \in SUBSET Id,
           budget' \in [BudgetClass -> Int],
           \A i \in Id : PresentNext(i) => Present(i) \/ Creating(i)
    PROVE  IInv'
  <1> DEFINE x == [task[t] EXCEPT !.pc = pc, !.rec = r]
  <1> USE Held
  <1>1. x \in TaskState /\ x.pc = pc /\ x.rec = r /\ x.id = task[t].id
        /\ x.todo = task[t].todo
    BY DEF TaskState, MaybeRecord, Holding
  <1>2. task' = [task EXCEPT ![t] = x]
    BY DEF Goto, IInv, TypeOK, TaskState
  <1>3. x.pc # "docker_create" /\ x.pc # "setup_view"
    BY <1>1 DEF Holding
  <1> HIDE DEF x
  <1>4. Frame
    BY <1>2, <1>3, FrameKept
  <1>5. SoundNext(task[t])
    BY <1>4, SoundStays DEF IInv
  <1>6. GoodNext(x.id, r)
    BY <1>1, <1>4, <1>5, GoodStays, NoRecordAssumption DEF SoundNext, GoodNext
  <1>7. SoundNext(x)
    BY <1>1, <1>3, <1>5, <1>6, NoRecordAssumption DEF SoundNext
  <1> QED BY <1>1, <1>2, <1>3, <1>4, <1>7, TaskStep DEF IInv, TypeOK

\* A handler returns.
LEMMA FinishStep ==
    ASSUME IInv, NEW t \in Task, Finish(t),
           StoreMove, DaemonTypeOK', used' = used, acked' \in SUBSET Id,
           budget' \in [BudgetClass -> Int],
           \A i \in Id : PresentNext(i) => Present(i) \/ Creating(i)
    PROVE  IInv'
  <1>1. IdleTask \in TaskState /\ IdleTask.pc = "idle" /\ IdleTask.rec = NoRecord
        /\ IdleTask.id \notin Id /\ \A i \in Id : IdleTask.todo[i] = NoRecord
    BY LifecycleAssumption
    DEF IdleTask, TaskState, Kind, Pc, MaybeRecord, NoRecords
  <1>2. task' = [task EXCEPT ![t] = IdleTask]
    BY DEF Finish
  <1>3. Frame
    BY <1>1, <1>2, FrameKept
  <1>4. SoundNext(IdleTask)
    BY <1>1 DEF SoundNext, GoodNext, Holding
  <1> QED BY <1>1, <1>2, <1>3, <1>4, TaskStep DEF IInv, TypeOK

\* A holding handler saves its copy, or fails to.
LEMMA SaveMoves ==
    ASSUME IInv, NEW t \in Task, task[t].pc \in Holding, Frame,
           Save(task[t].id, task[t].rec) \/ SaveFails(task[t].id, task[t].rec)
    PROVE  StoreMove
  <1> USE Held
  <1>1. GoodNext(task[t].id, task[t].rec)
    BY GoodStays
  <1> QED BY <1>1 DEF StoreMove, Save, SaveFails, storeVars

LEMMA SpendType ==
    ASSUME budget \in [BudgetClass -> Int], NEW class \in BudgetClass, Spend(class)
    PROVE  budget' \in [BudgetClass -> Int]
  BY DEF Spend

-----------------------------------------------------------------------------
(* The daemon *)

\* docker start, stop and rm -f make no container appear; rm -f removes its own.
LEMMA DaemonSteps ==
    ASSUME DaemonTypeOK, NEW i \in Id
    PROVE  /\ DaemonStart(i) \/ DaemonStop(i) \/ DaemonRemove(i) \/ Outside(i)
                \/ DaemonReboot \/ UNCHANGED ctr =>
                    DaemonTypeOK' /\ \A j \in Id : PresentNext(j) => Present(j)
           /\ DaemonRemove(i) => ~PresentNext(i)
  <1> USE DEF DaemonTypeOK, Container, Present, PresentNext, Running
  <1>1. ASSUME DaemonStart(i)
        PROVE  DaemonTypeOK' /\ \A j \in Id : PresentNext(j) => Present(j)
    BY <1>1 DEF DaemonStart, PortsFor, FreePorts
  <1>2. ASSUME DaemonStop(i)
        PROVE  DaemonTypeOK' /\ \A j \in Id : PresentNext(j) => Present(j)
    BY <1>2 DEF DaemonStop
  <1>3. ASSUME DaemonRemove(i)
        PROVE  DaemonTypeOK' /\ (\A j \in Id : PresentNext(j) => Present(j))
               /\ ~PresentNext(i)
    BY <1>3 DEF DaemonRemove, Absent
  <1>4. ASSUME Outside(i)
        PROVE  DaemonTypeOK' /\ \A j \in Id : PresentNext(j) => Present(j)
    <2>1. CASE Running(i) /\ ctr' = [ctr EXCEPT ![i].status = "paused"]
      BY <2>1
    <2>2. CASE ctr[i].status = "paused" /\ ctr' = [ctr EXCEPT ![i].status = "running"]
      BY <2>2
    <2> QED BY <1>1, <1>2, <1>3, <1>4, <2>1, <2>2 DEF Outside
  <1>5. ASSUME DaemonReboot
        PROVE  DaemonTypeOK' /\ \A j \in Id : PresentNext(j) => Present(j)
    BY <1>5 DEF DaemonReboot
  <1> QED BY <1>1, <1>2, <1>3, <1>4, <1>5

-----------------------------------------------------------------------------
(* create_instance *)

LEMMA GotoFrame ==
    ASSUME IInv, NEW t \in Task, NEW pc \in Holding, NEW r,
           Goto(t, pc, r) \/ Finish(t), used' = used,
           \A i \in Id : PresentNext(i) => Present(i) \/ Creating(i)
    PROVE  Frame
  <1>1. CASE Goto(t, pc, r)
    <2> DEFINE x == [task[t] EXCEPT !.pc = pc, !.rec = r]
    <2>1. task' = [task EXCEPT ![t] = x] /\ x.pc = pc
      BY <1>1 DEF Goto, IInv, TypeOK, TaskState
    <2> HIDE DEF x
    <2> QED BY <2>1, FrameKept DEF Holding
  <1>2. CASE Finish(t)
    <2>1. task' = [task EXCEPT ![t] = IdleTask] /\ IdleTask.pc # "docker_create"
      BY <1>2 DEF Finish, IdleTask
    <2> QED BY <2>1, FrameKept
  <1> QED BY <1>1, <1>2

LEMMA Unchanged ==
    /\ UNCHANGED storeVars => StoreMove
    /\ IInv /\ UNCHANGED ctr =>
        DaemonTypeOK' /\ \A i \in Id : PresentNext(i) => Present(i)
    /\ IInv /\ UNCHANGED acked => acked' \in SUBSET Id
    /\ IInv /\ UNCHANGED budget => budget' \in [BudgetClass -> Int]
    /\ IInv /\ DockerFault => budget' \in [BudgetClass -> Int]
    /\ \A j, r : IInv /\ (Save(j, r) \/ SaveFails(j, r)) =>
            budget' \in [BudgetClass -> Int]
  BY SpendType DEF StoreMove, IInv, TypeOK, DaemonTypeOK, PresentNext, Present,
                   DockerFault, BudgetClass, Save, SaveFails

LEMMA BeginCreateStep ==
    ASSUME IInv, NEW t \in Task, NEW i \in Id, NEW o \in Owner, BeginCreate(t, i, o)
    PROVE  IInv'
  <1> DEFINE x == [kind |-> "create", pc |-> "docker_create", id |-> i,
                   caller |-> o, rec |-> NoRecord, todo |-> NoRecords]
  <1>1. x \in TaskState
    BY DEF TaskState, Kind, Pc, MaybeRecord, NoRecords
  <1>2. task' = [task EXCEPT ![t] = x] /\ used' = used \cup {i} /\ i \notin used
    BY DEF BeginCreate, Begin
  <1>3. Frame
    BY <1>2, Unchanged
    DEF IInv, TypeOK, BeginCreate, Frame, CreatingNext, Creating
  <1>4. SoundNext(x)
    BY <1>2 DEF SoundNext, GoodNext, NoRecords, Holding
  <1>5. budget' \in [BudgetClass -> Int]
    BY SpendType DEF BeginCreate, BudgetClass, IInv, TypeOK
  <1>6. x.id \notin used
    BY <1>2
  <1> HIDE DEF x
  <1> QED BY <1>1, <1>2, <1>3, <1>4, <1>5, <1>6, TaskStep, Unchanged
          DEF BeginCreate, IInv, TypeOK

LEMMA DockerCreateStep ==
    ASSUME IInv, NEW t \in Task, DockerCreate(t)
    PROVE  IInv'
  <1> DEFINE i == task[t].id
  <1>1. /\ i \in Id /\ i \in used /\ task[t].caller \in Owner
        /\ task[t].pc = "docker_create" /\ task[t] \in TaskState
    BY DEF DockerCreate, At, IInv, TypeOK, Sound
  <1>2. UNCHANGED storeVars /\ used' = used /\ acked' = acked
    BY DEF DockerCreate
  <1>3. CASE DockerFault /\ Finish(t) /\ UNCHANGED ctr
    BY <1>2, <1>3, FinishStep, Unchanged
  <1>4. ASSUME NEW pc \in {"inspect_port", "first_save"}, DaemonCreate(i),
               Goto(t, pc, Created(i, task[t].caller)), UNCHANGED budget
        PROVE  IInv'
    <2> DEFINE r == Created(i, task[t].caller)
               x == [task[t] EXCEPT !.pc = pc, !.rec = r]
    <2>1. r \in InstanceRecord /\ ~IsDeleted(r)
      <3>1. NoRecord \notin InstanceRecord
        BY NoRecordAssumption
      <3>2. r \in InstanceRecord
        BY <1>1 DEF Created, InstanceRecord, InstanceState, ContainerStatus,
                    SetupStatus, LastError
      <3> QED BY <3>2 DEF IsDeleted, Created
    <2>2. /\ x \in TaskState /\ x.pc = pc /\ x.rec = r /\ x.id = i
          /\ x.todo = task[t].todo
      BY <1>1, <2>1 DEF TaskState, MaybeRecord, Pc
    <2>3. task' = [task EXCEPT ![t] = x]
      BY <1>1, <1>4 DEF Goto, IInv, TypeOK, TaskState
    <2> HIDE DEF r, x
    <2>4. DaemonTypeOK' /\ \A j \in Id : PresentNext(j) => Present(j) \/ Creating(j)
      BY <1>1, <1>4 DEF DaemonCreate, DaemonTypeOK, Container, PresentNext,
                        Present, Creating, IInv, TypeOK
    <2>5. Frame
      BY <1>2, <2>2, <2>3, <2>4, FrameKept
    <2>6. ~CreatingNext(i)
      BY <1>1, <2>2, <2>3 DEF CreatingNext, IInv, TypeOK, OneCreator
    <2>7. SoundNext(task[t])
      BY <2>5, SoundStays DEF IInv
    <2>8. SoundNext(x)
      <3>1. GoodNext(i, r)
        BY <1>1, <1>2, <2>1, <2>6 DEF GoodNext
      <3>2. \A j \in Id : GoodNext(j, x.todo[j])
        BY <2>2, <2>7 DEF SoundNext
      <3> QED BY <1>1, <1>2, <2>1, <2>2, <3>1, <3>2, NoRecordAssumption DEF SoundNext
    <2> QED BY <1>2, <1>4, <2>2, <2>3, <2>4, <2>5, <2>8, TaskStep, Unchanged
            DEF IInv, TypeOK
  <1> QED BY <1>3, <1>4 DEF DockerCreate

LEMMA InspectNewPortStep ==
    ASSUME IInv, NEW t \in Task, InspectNewPort(t)
    PROVE  IInv'
  <1> DEFINE i == task[t].id
             r == [task[t].rec EXCEPT !.ui_host_port = ctr[i].port]
  <1>1. task[t].pc \in Holding
    BY DEF InspectNewPort, At, Holding, Pc
  <1>2. UNCHANGED <<ctr, storeVars, used, acked>>
    BY DEF InspectNewPort
  <1>3. CASE Finish(t) /\ (UNCHANGED budget \/ DockerFault)
    BY <1>2, <1>3, FinishStep, Unchanged
  <1>4. CASE Goto(t, "first_save", r) /\ UNCHANGED budget
    <2>1. ctr[i].port \in Port \cup {NoPort}
      BY <1>1, Held DEF IInv, TypeOK, DaemonTypeOK, Container
    <2>2. r \in InstanceRecord /\ (IsDeleted(r) => IsDeleted(task[t].rec))
      BY <1>1, <2>1, Held, RecordTypes, OnlyDeleteDeletes
    <2>3. "first_save" \in Holding
      BY DEF Holding, Pc
    <2> HIDE DEF r
    <2> QED BY <1>1, <1>2, <1>4, <2>2, <2>3, GotoStep, Unchanged
  <1> QED BY <1>3, <1>4 DEF InspectNewPort

LEMMA FirstSaveStep ==
    ASSUME IInv, NEW t \in Task, FirstSave(t)
    PROVE  IInv'
  <1> DEFINE r == task[t].rec
  <1>1. task[t].pc \in Holding
    BY DEF FirstSave, At, Holding, Pc
  <1>2. "docker_start" \in Holding /\ "cleanup" \in Holding
    BY DEF Holding, Pc
  <1>3. PICK pc \in {"docker_start", "cleanup"} : Goto(t, pc, r) \/ Finish(t)
    BY DEF FirstSave
  <1>4. /\ Save(task[t].id, r) \/ SaveFails(task[t].id, r)
        /\ UNCHANGED ctr /\ used' = used
        /\ acked' = acked \/ acked' = acked \cup {task[t].id}
    BY DEF FirstSave
  <1>5. DaemonTypeOK' /\ \A i \in Id : PresentNext(i) => Present(i)
    BY <1>4, Unchanged
  <1>6. StoreMove
    BY <1>1, <1>2, <1>3, <1>4, <1>5, GotoFrame, SaveMoves
  <1>7. acked' \in SUBSET Id
    BY <1>1, <1>4, Held DEF IInv, TypeOK
  <1>8. budget' \in [BudgetClass -> Int]
    BY <1>4, Unchanged
  <1>9. CASE Goto(t, pc, r)
    BY <1>1, <1>2, <1>4, <1>5, <1>6, <1>7, <1>8, <1>9, GotoStep, Held
  <1>10. CASE Finish(t)
    BY <1>4, <1>5, <1>6, <1>7, <1>8, <1>10, FinishStep
  <1> QED BY <1>3, <1>9, <1>10

LEMMA CleanupStep ==
    ASSUME IInv, NEW t \in Task, Cleanup(t)
    PROVE  IInv'
  <1>1. task[t].pc \in Holding
    BY DEF Cleanup, At, Holding, Pc
  <1>2. DaemonTypeOK' /\ \A i \in Id : PresentNext(i) => Present(i)
    BY <1>1, Held, DaemonSteps DEF Cleanup, IInv, TypeOK
  <1> QED BY <1>2, FinishStep, Unchanged DEF Cleanup

-----------------------------------------------------------------------------
(* start_instance, stop_instance, delete_instance *)

\* A handler begins with the copy that the store serves.
LEMMA BeginStep ==
    ASSUME IInv, NEW t \in Task, NEW kind \in Kind, NEW pc \in Holding,
           NEW i \in Id, NEW o \in Owner, NEW r \in InstanceRecord,
           store[i] # NoRecord, IsDeleted(r) => IsDeleted(store[i]),
           Begin(t, kind, pc, i, o, r),
           UNCHANGED <<ctr, storeVars, used, acked>>,
           budget' \in [BudgetClass -> Int]
    PROVE  IInv'
  <1> DEFINE x == [kind |-> kind, pc |-> pc, id |-> i, caller |-> o, rec |-> r,
                   todo |-> NoRecords]
  <1>1. x \in TaskState /\ x.pc = pc /\ x.id = i /\ x.rec = r /\ x.todo = NoRecords
    BY DEF TaskState, Holding, MaybeRecord, NoRecords
  <1>2. task' = [task EXCEPT ![t] = x]
    BY DEF Begin
  <1>3. pc \notin {"docker_create", "setup_view"}
    BY DEF Holding
  <1> HIDE DEF x
  <1>4. Frame
    BY <1>1, <1>2, <1>3, FrameKept, Unchanged
  <1>5. Good(i, store[i]) /\ store \in Maps
    BY DEF IInv, Maps
  <1>6. GoodNext(i, r)
    BY <1>4, <1>5 DEF GoodNext, Good, Frame
  <1>7. SoundNext(x)
    <2>1. \A j \in Id : GoodNext(j, NoRecords[j])
      BY DEF GoodNext, NoRecords
    <2>2. i \in used'
      BY <1>5 DEF Good
    <2> QED BY <1>1, <1>3, <1>6, <2>1, <2>2, NoRecordAssumption DEF SoundNext
  <1> QED BY <1>1, <1>2, <1>3, <1>4, <1>7, TaskStep, Unchanged DEF IInv, TypeOK

LEMMA StoredRecord ==
    ASSUME IInv, NEW i \in Id, store[i] # NoRecord
    PROVE  store[i] \in InstanceRecord
  BY DEF IInv, TypeOK, Store!TypeOK, Store!Map

LEMMA BeginJobStep ==
    ASSUME IInv, NEW t \in Task, NEW kind \in {"start", "stop", "delete"},
           NEW i \in Id, NEW o \in Owner, BeginJob(t, kind, i, o)
    PROVE  IInv'
  <1>1. FirstPc(kind) \in Holding /\ kind \in Kind
    BY DEF FirstPc, Holding, Pc, Kind
  <1>2. store[i] # NoRecord
    BY DEF BeginJob, MayBegin
  <1>3. budget' \in [BudgetClass -> Int]
    BY SpendType DEF BeginJob, BudgetClass, IInv, TypeOK
  <1> QED BY <1>1, <1>2, <1>3, StoredRecord, BeginStep DEF BeginJob

\* A step that only changes the handler's copy and perhaps runs a docker
\* command that makes no container appear.
LEMMA CopyStep ==
    ASSUME IInv, NEW t \in Task, task[t].pc \in Holding,
           NEW pc \in Holding, NEW r \in InstanceRecord, Goto(t, pc, r),
           IsDeleted(r) => IsDeleted(task[t].rec) \/ ~PresentNext(task[t].id),
           DaemonTypeOK', \A i \in Id : PresentNext(i) => Present(i),
           UNCHANGED budget \/ DockerFault,
           UNCHANGED <<storeVars, used, acked>>
    PROVE  IInv'
  BY GotoStep, Unchanged

LEMMA DockerStartStep ==
    ASSUME IInv, NEW t \in Task, DockerStart(t)
    PROVE  IInv'
  <1>1. task[t].pc \in Holding
    BY DEF DockerStart, At, Holding, Pc
  <1>2. "inspect_started" \in Holding /\ "final_save" \in Holding
    BY DEF Holding, Pc
  <1>3. "startup" \in LastError
    BY DEF LastError
  <1>4. DaemonTypeOK' /\ \A i \in Id : PresentNext(i) => Present(i)
    BY <1>1, Held, DaemonSteps DEF DockerStart, IInv, TypeOK
  <1>5. CASE Goto(t, "inspect_started", task[t].rec) /\ UNCHANGED budget
    BY <1>1, <1>2, <1>4, <1>5, Held, CopyStep DEF DockerStart
  <1>6. CASE /\ Goto(t, "final_save", Failed(task[t].rec, "startup"))
             /\ UNCHANGED budget \/ DockerFault
    BY <1>1, <1>2, <1>3, <1>4, <1>6, Held, CopyStep, RecordTypes, OnlyDeleteDeletes
    DEF DockerStart
  <1> QED BY <1>5, <1>6 DEF DockerStart

LEMMA InspectStartedStep ==
    ASSUME IInv, NEW t \in Task, InspectStarted(t)
    PROVE  IInv'
  <1> DEFINE i == task[t].id
             q == task[t].rec
             r == Stabilized(q, ctr[i].status)
  <1>1. task[t].pc \in Holding
    BY DEF InspectStarted, At, Holding, Pc
  <1>2. "auto_setup" \in Holding /\ "final_save" \in Holding
    BY DEF Holding, Pc
  <1>3. "startup" \in LastError
    BY DEF LastError
  <1>4. DaemonTypeOK' /\ \A j \in Id : PresentNext(j) => Present(j)
    BY Unchanged DEF InspectStarted
  <1>5. UNCHANGED <<storeVars, used, acked>>
    BY DEF InspectStarted
  <1>6. CASE /\ Goto(t, "final_save", Failed(q, "startup"))
             /\ UNCHANGED budget \/ DockerFault
    BY <1>1, <1>2, <1>3, <1>4, <1>5, <1>6, Held, CopyStep, RecordTypes,
       OnlyDeleteDeletes
  <1>7. CASE Present(i) /\ UNCHANGED budget
    <2>1. ctr[i].status \in ContainerStatus
      BY <1>1, <1>7, Held DEF Present, ContainerStatus, IInv, TypeOK,
                              DaemonTypeOK, Container
    <2>2. r \in InstanceRecord /\ (IsDeleted(r) => IsDeleted(q))
      BY <1>1, <2>1, Held, RecordTypes, OnlyDeleteDeletes
    <2> HIDE DEF r
    <2>3. CASE Goto(t, "final_save", r) \/ Goto(t, "auto_setup", r)
      BY <1>1, <1>2, <1>4, <1>5, <1>7, <2>2, <2>3, Held, CopyStep
    <2>4. CASE Goto(t, "final_save", Started(t, r))
      BY <1>1, <1>2, <1>4, <1>5, <1>7, <2>2, <2>4, Held, CopyStep, RecordTypes,
         OnlyDeleteDeletes
    <2>5. CASE Goto(t, "final_save", Started(t, SetupAwaitsUser(r)))
      <3>1. SetupAwaitsUser(r) \in InstanceRecord
        BY <1>1, <2>2, Held, RecordTypes
      <3> QED BY <1>1, <1>2, <1>4, <1>5, <1>7, <2>5, <3>1, Held, CopyStep,
                 RecordTypes, OnlyDeleteDeletes
    <2> QED BY <1>7, <2>3, <2>4, <2>5, <1>6 DEF InspectStarted, r
  <1>8. CASE ~Present(i) \/ DockerFault
    BY <1>6, <1>7, <1>8 DEF InspectStarted, Running, Present
  <1> QED BY <1>6, <1>7, <1>8 DEF InspectStarted, Running, Present

LEMMA AutoSetupExecStep ==
    ASSUME IInv, NEW t \in Task, AutoSetupExec(t)
    PROVE  IInv'
  <1> DEFINE r == task[t].rec
  <1>1. task[t].pc \in Holding
    BY DEF AutoSetupExec, At, Holding, Pc
  <1>2. "final_save" \in Holding
    BY DEF Holding, Pc
  <1>3. PICK q \in {SetupRunning(r), SetupFailed(r)} :
            Goto(t, "final_save", Started(t, q))
    BY DEF AutoSetupExec
  <1>4. q \in InstanceRecord
    BY <1>1, Held, RecordTypes
  <1>5. Started(t, q) \in InstanceRecord /\ ~IsDeleted(Started(t, q))
    BY <1>1, <1>4, Held, RecordTypes, OnlyDeleteDeletes
  <1> QED BY <1>1, <1>2, <1>3, <1>5, CopyStep, Unchanged DEF AutoSetupExec

LEMMA DockerStopStep ==
    ASSUME IInv, NEW t \in Task, DockerStop(t)
    PROVE  IInv'
  <1>1. task[t].pc \in Holding
    BY DEF DockerStop, At, Holding, Pc
  <1>2. "final_save" \in Holding /\ "docker" \in LastError
    BY DEF Holding, Pc, LastError
  <1>3. DaemonTypeOK' /\ \A i \in Id : PresentNext(i) => Present(i)
    BY <1>1, Held, DaemonSteps DEF DockerStop, IInv, TypeOK
  <1>4. PICK r \in {Stopped(task[t].rec), Failed(task[t].rec, "docker")} :
            Goto(t, "final_save", r)
    BY DEF DockerStop
  <1>5. r \in InstanceRecord /\ (IsDeleted(r) => IsDeleted(task[t].rec))
    BY <1>1, <1>2, Held, RecordTypes, OnlyDeleteDeletes
  <1> QED BY <1>1, <1>2, <1>3, <1>4, <1>5, CopyStep DEF DockerStop

LEMMA DockerRemoveStep ==
    ASSUME IInv, NEW t \in Task, DockerRemove(t)
    PROVE  IInv'
  <1>1. task[t].pc \in Holding
    BY DEF DockerRemove, At, Holding, Pc
  <1>2. "final_save" \in Holding /\ "docker" \in LastError
    BY DEF Holding, Pc, LastError
  <1>3. DaemonTypeOK' /\ \A i \in Id : PresentNext(i) => Present(i)
    BY <1>1, Held, DaemonSteps DEF DockerRemove, IInv, TypeOK
  <1>4. CASE DaemonRemove(task[t].id) /\ UNCHANGED budget
             /\ Goto(t, "final_save", Deleted(task[t].rec))
    <2>1. ~PresentNext(task[t].id)
      BY <1>1, <1>4, Held, DaemonSteps DEF IInv, TypeOK
    <2> QED BY <1>1, <1>2, <1>3, <1>4, <2>1, Held, RecordTypes, CopyStep
            DEF DockerRemove
  <1>5. CASE DockerFault /\ Goto(t, "final_save", Failed(task[t].rec, "docker"))
    BY <1>1, <1>2, <1>3, <1>5, Held, RecordTypes, OnlyDeleteDeletes, CopyStep
    DEF DockerRemove
  <1> QED BY <1>4, <1>5 DEF DockerRemove

LEMMA FinalSaveStep ==
    ASSUME IInv, NEW t \in Task, FinalSave(t)
    PROVE  IInv'
  <1>1. task[t].pc \in Holding /\ "final_save" \in Holding
    BY DEF FinalSave, At, Holding, Pc
  <1>2. /\ Save(task[t].id, task[t].rec) \/ SaveFails(task[t].id, task[t].rec)
        /\ Finish(t) /\ UNCHANGED ctr /\ used' = used
    BY DEF FinalSave
  <1>3. DaemonTypeOK' /\ \A i \in Id : PresentNext(i) => Present(i)
    BY <1>2, Unchanged
  <1>4. StoreMove
    BY <1>1, <1>2, <1>3, GotoFrame, SaveMoves
  <1>5. acked' \in SUBSET Id
    BY <1>1, Held DEF FinalSave, IInv, TypeOK
  <1> QED BY <1>2, <1>3, <1>4, <1>5, FinishStep, Unchanged

-----------------------------------------------------------------------------
(* Setup and queries *)

LEMMA BeginSetupStep ==
    ASSUME IInv, NEW t \in Task, NEW i \in Id, NEW o \in Owner, BeginSetup(t, i, o)
    PROVE  IInv'
  <1> DEFINE r == SetupAwaitsUser(store[i])
  <1>1. "setup_exec" \in Holding /\ "setup_save" \in Holding /\ "setup" \in Kind
    BY DEF Holding, Pc, Kind
  <1>2. store[i] \in InstanceRecord /\ store[i] # NoRecord
    BY StoredRecord DEF BeginSetup
  <1>3. budget' \in [BudgetClass -> Int]
    BY SpendType DEF BeginSetup, BudgetClass, IInv, TypeOK
  <1>4. r \in InstanceRecord /\ (IsDeleted(r) => IsDeleted(store[i]))
    BY <1>2, RecordTypes, OnlyDeleteDeletes
  <1>5. CASE Begin(t, "setup", "setup_exec", i, o, store[i])
    BY <1>1, <1>2, <1>3, <1>5, BeginStep DEF BeginSetup
  <1>6. CASE Begin(t, "setup", "setup_save", i, o, r)
    BY <1>1, <1>2, <1>3, <1>4, <1>6, BeginStep DEF BeginSetup
  <1> QED BY <1>5, <1>6 DEF BeginSetup

LEMMA SetupExecStep ==
    ASSUME IInv, NEW t \in Task, SetupExec(t)
    PROVE  IInv'
  <1>1. task[t].pc \in Holding /\ "setup_save" \in Holding
    BY DEF SetupExec, At, Holding, Pc
  <1>2. DaemonTypeOK' /\ \A i \in Id : PresentNext(i) => Present(i)
    BY Unchanged DEF SetupExec
  <1>3. CASE Goto(t, "setup_save", SetupRunning(task[t].rec))
    BY <1>1, <1>2, <1>3, Held, RecordTypes, OnlyDeleteDeletes, CopyStep
    DEF SetupExec
  <1>4. CASE Finish(t)
    BY <1>2, <1>4, FinishStep, Unchanged DEF SetupExec
  <1> QED BY <1>3, <1>4 DEF SetupExec

\* A step of a task that holds nothing but a query's copies afterwards, or a
\* refreshed copy of one of them.
LEMMA QueryStep ==
    ASSUME IInv, NEW t \in Task, NEW x \in TaskState,
           task' = [task EXCEPT ![t] = x], x.pc # "docker_create",
           Frame => SoundNext(x),
           Frame => StoreMove,
           UNCHANGED <<ctr, used, acked>>,
           budget' \in [BudgetClass -> Int]
    PROVE  IInv'
  <1>1. Frame
    BY FrameKept, Unchanged
  <1> QED BY <1>1, TaskStep, Unchanged DEF IInv, TypeOK

LEMMA SetupSaveStep ==
    ASSUME IInv, NEW t \in Task, SetupSave(t)
    PROVE  IInv'
  <1> DEFINE i == task[t].id
             x == [task[t] EXCEPT !.pc = "setup_view", !.rec = NoRecord]
  <1>1. task[t].pc \in Holding /\ "setup_save" \in Holding
    BY DEF SetupSave, At, Holding, Pc
  <1>2. /\ Save(i, task[t].rec) \/ SaveFails(i, task[t].rec)
        /\ UNCHANGED <<ctr, used, acked>>
    BY DEF SetupSave
  <1>3. budget' \in [BudgetClass -> Int]
    BY <1>2, Unchanged
  <1>4. Frame => StoreMove
    BY <1>1, <1>2, SaveMoves
  <1>5. CASE Goto(t, "setup_view", NoRecord)
    <2>1. /\ x \in TaskState /\ x.pc = "setup_view" /\ x.rec = NoRecord
          /\ x.id = i /\ x.todo = task[t].todo
      BY <1>1, Held DEF TaskState, MaybeRecord, Pc
    <2>2. task' = [task EXCEPT ![t] = x]
      BY <1>5 DEF Goto, IInv, TypeOK, TaskState
    <2> HIDE DEF x
    <2>3. Frame => SoundNext(task[t])
      BY SoundStays DEF IInv
    <2>4. Frame => SoundNext(x)
      BY <1>1, <2>1, <2>3, Held DEF SoundNext, Holding
    <2> QED BY <1>2, <1>3, <1>4, <2>1, <2>2, <2>4, QueryStep
  <1>6. CASE Finish(t)
    <2>1. Frame
      BY <1>1, <1>2, <1>6, GotoFrame, Unchanged
    <2> QED BY <1>2, <1>3, <1>4, <1>6, <2>1, FinishStep, Unchanged DEF IInv, TypeOK
  <1> QED BY <1>5, <1>6 DEF SetupSave

LEMMA SetupViewStep ==
    ASSUME IInv, NEW t \in Task, SetupView(t)
    PROVE  IInv'
  <1> DEFINE i == task[t].id
             todo == [NoRecords EXCEPT ![i] = store[i]]
             x == [task[t] EXCEPT !.pc = "inspect", !.todo = todo]
  <1>1. task[t] \in TaskState /\ i \in Id /\ UNCHANGED <<ctr, storeVars, used, acked>>
    BY DEF SetupView, At, IInv, TypeOK, Sound
  <1>2. store[i] \in MaybeRecord /\ Good(i, store[i])
    BY <1>1 DEF IInv, TypeOK, Store!TypeOK, Store!Map, Maps, MaybeRecord
  <1>3. todo \in [Id -> MaybeRecord] /\ \A j \in Id : Good(j, todo[j])
    BY <1>1, <1>2 DEF NoRecords, MaybeRecord, Good
  <1> HIDE DEF todo
  <1>4. /\ x \in TaskState /\ x.pc = "inspect" /\ x.rec = task[t].rec
        /\ x.id = i /\ x.todo = todo
    BY <1>1, <1>3 DEF TaskState, Pc
  <1>5. task' = [task EXCEPT ![t] = x]
    BY <1>1 DEF SetupView, todo, IInv, TypeOK, TaskState
  <1> HIDE DEF x
  <1>6. ASSUME Frame PROVE SoundNext(x)
    <2>1. SoundNext(task[t])
      BY <1>6, SoundStays DEF IInv
    <2>2. \A j \in Id : GoodNext(j, x.todo[j])
      BY <1>3, <1>4, <1>6, GoodStays
    <2> QED BY <1>4, <2>1, <2>2 DEF SoundNext, Holding
  <1>7. budget' \in [BudgetClass -> Int]
    BY Unchanged DEF SetupView
  <1> QED BY <1>1, <1>4, <1>5, <1>6, <1>7, QueryStep, Unchanged

LEMMA BeginQueryStep ==
    ASSUME IInv, NEW t \in Task, NEW scope \in SUBSET Id, BeginQuery(t, scope)
    PROVE  IInv'
  <1> DEFINE copies == [i \in Id |-> IF i \in scope THEN store[i] ELSE NoRecord]
             x == [IdleTask EXCEPT !.kind = "query", !.pc = "inspect", !.todo = copies]
  <1>1. store \in [Id -> MaybeRecord] /\ \A i \in Id : Good(i, store[i])
    BY DEF IInv, TypeOK, Store!TypeOK, Store!Map, Maps, MaybeRecord
  <1>2. copies \in [Id -> MaybeRecord] /\ \A i \in Id : Good(i, copies[i])
    BY <1>1 DEF MaybeRecord, Good
  <1>3. task' = [task EXCEPT ![t] = x]
    BY DEF BeginQuery
  <1> HIDE DEF copies
  <1>4. /\ x \in TaskState /\ x.pc = "inspect" /\ x.rec = NoRecord
        /\ x.id \notin Id /\ x.todo = copies
    BY <1>2, LifecycleAssumption DEF IdleTask, TaskState, Kind, Pc, MaybeRecord
  <1> HIDE DEF x
  <1>5. ASSUME Frame PROVE SoundNext(x)
    <2>1. \A i \in Id : GoodNext(i, x.todo[i])
      BY <1>2, <1>4, <1>5, GoodStays
    <2> QED BY <1>4, <2>1 DEF SoundNext, Holding
  <1>6. budget' \in [BudgetClass -> Int]
    BY SpendType DEF BeginQuery, BudgetClass, IInv, TypeOK
  <1> QED BY <1>3, <1>4, <1>5, <1>6, QueryStep, Unchanged DEF BeginQuery

\* The query is done with one instance.
LEMMA NextViewStep ==
    ASSUME IInv, NEW t \in Task, NEW i \in Id, NextView(t, i),
           Frame => StoreMove, UNCHANGED <<ctr, used, acked>>,
           budget' \in [BudgetClass -> Int]
    PROVE  IInv'
  <1> DEFINE rest == [task[t].todo EXCEPT ![i] = NoRecord]
             x == [task[t] EXCEPT !.pc = "inspect", !.rec = NoRecord, !.todo = rest]
  <1>1. task[t] \in TaskState /\ Sound(task[t])
    BY DEF IInv, TypeOK
  <1>2. rest \in [Id -> MaybeRecord] /\ \A j \in Id : Good(j, rest[j])
    BY <1>1 DEF TaskState, MaybeRecord, Sound, Good
  <1>3. task' = [task EXCEPT ![t] = IF rest = NoRecords THEN IdleTask ELSE x]
    BY DEF NextView, IInv, TypeOK
  <1>4. CASE rest = NoRecords
    <2>1. Finish(t)
      BY <1>3, <1>4 DEF Finish
    <2>2. Frame
      BY <2>1, GotoFrame, Unchanged DEF Holding, Pc
    <2> QED BY <2>1, <2>2, FinishStep, Unchanged DEF IInv, TypeOK
  <1>5. CASE rest # NoRecords
    <2> HIDE DEF rest
    <2>1. /\ x \in TaskState /\ x.pc = "inspect" /\ x.rec = NoRecord
          /\ x.id = task[t].id /\ x.todo = rest
      BY <1>1, <1>2 DEF TaskState, Pc, MaybeRecord
    <2>2. task' = [task EXCEPT ![t] = x]
      BY <1>3, <1>5
    <2> HIDE DEF x
    <2>3. ASSUME Frame PROVE SoundNext(x)
      <3>1. \A j \in Id : GoodNext(j, x.todo[j])
        BY <1>2, <2>1, <2>3, GoodStays
      <3>2. SoundNext(task[t])
        BY <1>1, <2>3, SoundStays
      <3> QED BY <2>1, <3>1, <3>2 DEF SoundNext, Holding
    <2> QED BY <2>1, <2>2, <2>3, QueryStep
  <1> QED BY <1>4, <1>5

\* The query holds a refreshed copy of one of its records.
LEMMA QueryGotoStep ==
    ASSUME IInv, NEW t \in Task, NEW i \in Id, NEW r \in InstanceRecord,
           NEW pc \in {"refresh_port", "refresh_save"}, Good(i, r),
           task' = [task EXCEPT ![t].pc = pc, ![t].id = i, ![t].rec = r],
           UNCHANGED <<ctr, storeVars, used, acked>>,
           budget' \in [BudgetClass -> Int]
    PROVE  IInv'
  <1> DEFINE x == [task[t] EXCEPT !.pc = pc, !.id = i, !.rec = r]
  <1>1. task[t] \in TaskState /\ Sound(task[t])
    BY DEF IInv, TypeOK
  <1>2. /\ x \in TaskState /\ x.pc = pc /\ x.rec = r /\ x.id = i
        /\ x.todo = task[t].todo
    BY <1>1 DEF TaskState, Pc, MaybeRecord
  <1>3. task' = [task EXCEPT ![t] = x]
    BY DEF IInv, TypeOK, TaskState
  <1> HIDE DEF x
  <1>4. ASSUME Frame PROVE SoundNext(x)
    <2>1. SoundNext(task[t])
      BY <1>1, <1>4, SoundStays
    <2>2. GoodNext(i, r)
      BY <1>4, GoodStays
    <2> QED BY <1>2, <2>1, <2>2, NoRecordAssumption DEF SoundNext, GoodNext
  <1> QED BY <1>2, <1>3, <1>4, QueryStep, Unchanged

LEMMA GoodFrom ==
    ASSUME NEW i, NEW q, NEW r, Good(i, q), q # NoRecord, IsDeleted(r) => IsDeleted(q)
    PROVE  Good(i, r)
  BY DEF Good

LEMMA RefreshedStep ==
    ASSUME IInv, NEW t \in Task, NEW i \in Id, NEW r \in InstanceRecord, Good(i, r),
           Refreshed(t, i, r), UNCHANGED <<ctr, storeVars, used, acked>>,
           UNCHANGED budget \/ DockerFault
    PROVE  IInv'
  <1>1. budget' \in [BudgetClass -> Int]
    BY Unchanged
  <1>2. CASE NextView(t, i)
    BY <1>1, <1>2, NextViewStep, Unchanged
  <1>3. CASE task' = [task EXCEPT ![t].pc = "refresh_save", ![t].id = i, ![t].rec = r]
    BY <1>1, <1>3, QueryGotoStep
  <1> QED BY <1>2, <1>3 DEF Refreshed

LEMMA InspectStep ==
    ASSUME IInv, NEW t \in Task, Inspect(t)
    PROVE  IInv'
  <1>1. PICK i \in Id :
        LET copy == task[t].todo[i] IN
        /\ copy # NoRecord
        /\ \/ /\ Present(i)
              /\ LET r == Seen(copy, ctr[i].status) IN
                 \/ /\ r.ui_host_port = NoPort /\ i \in PublishesUi
                    /\ task' = [task EXCEPT ![t].pc = "refresh_port",
                                            ![t].id = i, ![t].rec = r]
                 \/ /\ r.ui_host_port # NoPort \/ i \notin PublishesUi
                    /\ Refreshed(t, i, r)
              /\ UNCHANGED budget
           \/ /\ ~Present(i)
              /\ Refreshed(t, i, IF InspectNamesMissing THEN Missing(copy)
                                 ELSE Failed(copy, "docker"))
              /\ UNCHANGED budget
           \/ DockerFault /\ Refreshed(t, i, Failed(copy, "docker"))
    BY DEF Inspect
  <1> DEFINE copy == task[t].todo[i]
             seen == Seen(copy, ctr[i].status)
             down == Failed(copy, "docker")
  <1>2. copy \in InstanceRecord /\ Good(i, copy) /\ copy # NoRecord
    BY <1>1 DEF IInv, TypeOK, TaskState, MaybeRecord, Sound
  <1>3. UNCHANGED <<ctr, storeVars, used, acked>>
    BY DEF Inspect
  <1>4. down \in InstanceRecord /\ Good(i, down)
    <2>1. "docker" \in LastError
      BY DEF LastError
    <2> QED BY <1>2, <2>1, RecordTypes, OnlyDeleteDeletes, GoodFrom
  <1>5. Missing(copy) \in InstanceRecord /\ Good(i, Missing(copy))
    BY <1>2, RecordTypes, OnlyDeleteDeletes, GoodFrom
  <1>6. CASE Present(i) /\ UNCHANGED budget
    <2>1. ctr[i].status \in ContainerStatus
      BY <1>6 DEF Present, ContainerStatus, IInv, TypeOK, DaemonTypeOK, Container
    <2>2. seen \in InstanceRecord /\ Good(i, seen)
      BY <1>2, <2>1, RecordTypes, OnlyDeleteDeletes, GoodFrom
    <2>3. budget' \in [BudgetClass -> Int]
      BY <1>6, Unchanged
    <2>4. CASE task' = [task EXCEPT ![t].pc = "refresh_port",
                                    ![t].id = i, ![t].rec = seen]
      <3> HIDE DEF seen
      <3> QED BY <1>3, <2>2, <2>3, <2>4, QueryGotoStep
    <2>5. CASE Refreshed(t, i, seen)
      <3> HIDE DEF seen
      <3> QED BY <1>3, <1>6, <2>2, <2>5, RefreshedStep
    <2>6. CASE Refreshed(t, i, down)
      <3> HIDE DEF down
      <3> QED BY <1>3, <1>4, <1>6, <2>6, RefreshedStep
    <2>7. CASE DockerFault /\ Refreshed(t, i, down)
      BY <2>6, <2>7
    <2> QED BY <1>1, <1>6, <2>4, <2>5, <2>7
  <1>7. CASE ~Present(i) /\ UNCHANGED budget
    <2>1. CASE Refreshed(t, i, Missing(copy))
      BY <1>3, <1>5, <1>7, <2>1, RefreshedStep
    <2>2. CASE Refreshed(t, i, down)
      <3> HIDE DEF down
      <3> QED BY <1>3, <1>4, <1>7, <2>2, RefreshedStep
    <2> QED BY <1>1, <1>7, <2>1, <2>2
  <1>8. CASE DockerFault /\ Refreshed(t, i, down)
    <2> HIDE DEF down
    <2> QED BY <1>3, <1>4, <1>8, RefreshedStep
  <1> QED BY <1>1, <1>6, <1>7, <1>8

LEMMA InspectPortStep ==
    ASSUME IInv, NEW t \in Task, InspectPort(t)
    PROVE  IInv'
  <1> DEFINE i == task[t].id
             r == [task[t].rec EXCEPT !.ui_host_port = ctr[i].port]
  <1>1. task[t].pc \in Holding
    BY DEF InspectPort, At, Holding, Pc
  <1>2. UNCHANGED <<ctr, storeVars, used, acked>>
    BY DEF InspectPort
  <1>3. CASE Finish(t) /\ (UNCHANGED budget \/ DockerFault)
    BY <1>2, <1>3, FinishStep, Unchanged
  <1>4. CASE Refreshed(t, i, r) /\ UNCHANGED budget
    <2>1. ctr[i].port \in Port \cup {NoPort} /\ task[t].rec # NoRecord
      BY <1>1, Held DEF IInv, TypeOK, DaemonTypeOK, Container, Sound
    <2>2. r \in InstanceRecord /\ Good(i, r)
      <3>1. r \in InstanceRecord /\ (IsDeleted(r) => IsDeleted(task[t].rec))
        BY <1>1, <2>1, Held, RecordTypes, OnlyDeleteDeletes
      <3> HIDE DEF r
      <3> QED BY <1>1, <2>1, <3>1, Held, GoodFrom
    <2>3. i \in Id
      BY <1>1, Held
    <2> HIDE DEF r
    <2> QED BY <1>2, <1>4, <2>2, <2>3, RefreshedStep
  <1> QED BY <1>3, <1>4 DEF InspectPort

LEMMA RefreshSaveStep ==
    ASSUME IInv, NEW t \in Task, RefreshSave(t)
    PROVE  IInv'
  <1>1. task[t].pc \in Holding
    BY DEF RefreshSave, At, Holding, Pc
  <1>2. /\ \/ Save(task[t].id, task[t].rec) \/ SaveFails(task[t].id, task[t].rec)
        /\ UNCHANGED <<ctr, used, acked>>
        /\ NextView(t, task[t].id) \/ Finish(t)
    BY DEF RefreshSave
  <1>3. Frame => StoreMove
    BY <1>1, <1>2, SaveMoves
  <1>4. budget' \in [BudgetClass -> Int]
    BY <1>2, Unchanged
  <1>5. CASE NextView(t, task[t].id)
    BY <1>1, <1>2, <1>3, <1>4, <1>5, Held, NextViewStep
  <1>6. CASE Finish(t)
    <2>1. Frame
      BY <1>1, <1>2, <1>6, GotoFrame, Unchanged
    <2> QED BY <1>2, <1>3, <1>4, <1>6, <2>1, FinishStep, Unchanged DEF IInv, TypeOK
  <1> QED BY <1>2, <1>5, <1>6

-----------------------------------------------------------------------------
(* The environment *)

LEMMA OutsideStep ==
    ASSUME IInv, NEW i \in Id, OutsideChange(i)
    PROVE  IInv'
  <1>1. UNCHANGED <<storeVars, task, used, acked>>
    BY DEF OutsideChange
  <1>2. DaemonTypeOK' /\ \A j \in Id : PresentNext(j) => Present(j)
    BY DaemonSteps DEF OutsideChange, IInv, TypeOK
  <1>3. budget' \in [BudgetClass -> Int]
    BY SpendType DEF OutsideChange, BudgetClass, IInv, TypeOK
  <1>4. Frame
    BY <1>1, <1>2 DEF Frame, Creating, CreatingNext
  <1>5. Store!TypeOK' /\ \A m \in Maps' : \A j \in Id : GoodNext(j, m[j])
    BY <1>1, <1>4, StoreMoves, Unchanged DEF IInv, TypeOK
  <1>6. \A u \in Task : SoundNext(task'[u])
    BY <1>1, <1>4, SoundStays DEF IInv
  <1>7. TypeOK'
    BY <1>1, <1>2, <1>3, <1>5 DEF TypeOK, IInv
  <1>8. OneCreator'
    BY <1>1 DEF OneCreator, IInv
  <1>9. (\A m \in Maps, j \in Id : Good(j, m[j]))'
    BY <1>5 DEF Good, GoodNext, Creating, CreatingNext, PresentNext, Present, IsDeleted
  <1>10. (\A u \in Task : Sound(task[u]))'
    BY <1>6 DEF Sound, SoundNext, Good, GoodNext, Creating, CreatingNext,
                PresentNext, Present, IsDeleted
  <1> QED BY <1>7, <1>8, <1>9, <1>10 DEF IInv

\* The handlers are gone; what is loaded was a good copy already.
LEMMA RestartStep ==
    ASSUME IInv, task' = [t \in Task |-> IdleTask],
           Store!ProcessRestart \/ Store!PowerLoss,
           DaemonTypeOK', \A i \in Id : PresentNext(i) => Present(i),
           budget' \in [BudgetClass -> Int], UNCHANGED <<used, acked>>
    PROVE  IInv'
  <1>1. IdleTask \in TaskState /\ IdleTask.pc = "idle" /\ IdleTask.rec = NoRecord
        /\ IdleTask.id \notin Id /\ \A i \in Id : IdleTask.todo[i] = NoRecord
    BY LifecycleAssumption
    DEF IdleTask, TaskState, Kind, Pc, MaybeRecord, NoRecords
  <1>2. Frame
    BY <1>1 DEF Frame, Creating, CreatingNext
  <1>3. Store!TypeOK' /\ Maps' \subseteq Maps
    BY DEF Store!ProcessRestart, Store!PowerLoss, Store!TypeOK, Maps, IInv, TypeOK
  <1>4. TypeOK'
    BY <1>1, <1>3 DEF TypeOK, IInv
  <1>5. OneCreator'
    BY <1>1 DEF OneCreator
  <1>6. \A m \in Maps' : \A i \in Id : GoodNext(i, m[i])
    BY <1>2, <1>3, GoodStays DEF IInv
  <1>7. (\A m \in Maps, i \in Id : Good(i, m[i]))'
    BY <1>6 DEF Good, GoodNext, Creating, CreatingNext, PresentNext, Present, IsDeleted
  <1>8. (\A u \in Task : Sound(task[u]))'
    BY <1>1 DEF Sound, Good, Holding
  <1> QED BY <1>4, <1>5, <1>7, <1>8 DEF IInv

-----------------------------------------------------------------------------
(* The invariant *)

LEMMA InitInv == Init => IInv
  <1> SUFFICES ASSUME Init PROVE IInv
    OBVIOUS
  <1>1. IdleTask \in TaskState /\ IdleTask.pc = "idle" /\ IdleTask.rec = NoRecord
        /\ IdleTask.id \notin Id /\ \A i \in Id : IdleTask.todo[i] = NoRecord
    BY LifecycleAssumption
    DEF IdleTask, TaskState, Kind, Pc, MaybeRecord, NoRecords
  <1>2. DaemonTypeOK
    BY DEF Init, DaemonInit, DaemonTypeOK, Absent, Container
  <1>3. Store!TypeOK /\ \A m \in Maps, i \in Id : m[i] = NoRecord
    BY DEF Init, Store!Init, Store!TypeOK, Store!Map, Store!EmptyMap, Maps
  <1>4. TypeOK
    BY <1>1, <1>2, <1>3, LifecycleAssumption DEF Init, TypeOK
  <1>5. OneCreator
    BY <1>1 DEF Init, OneCreator
  <1>6. \A t \in Task : Sound(task[t])
    BY <1>1 DEF Init, Sound, Good, Holding
  <1> QED BY <1>3, <1>4, <1>5, <1>6 DEF IInv, Good

LEMMA NextInv == IInv /\ [Next]_vars => IInv'
  <1> SUFFICES ASSUME IInv, [Next]_vars PROVE IInv'
    OBVIOUS
  <1>1. ASSUME NEW t \in Task, CreateSteps(t) PROVE IInv'
    BY <1>1, DockerCreateStep, InspectNewPortStep, FirstSaveStep, CleanupStep
    DEF CreateSteps
  <1>2. ASSUME NEW t \in Task, JobSteps(t) PROVE IInv'
    BY <1>2, DockerStartStep, InspectStartedStep, AutoSetupExecStep,
       DockerStopStep, DockerRemoveStep, FinalSaveStep DEF JobSteps
  <1>3. ASSUME NEW t \in Task, HttpSteps(t) PROVE IInv'
    BY <1>3, SetupExecStep, SetupSaveStep, SetupViewStep, InspectStep,
       InspectPortStep, RefreshSaveStep DEF HttpSteps
  <1>4. ASSUME NEW t \in Task, Requests(t) PROVE IInv'
    <2>1. ASSUME NEW i \in Id, Query(t, i) PROVE IInv'
      <3>1. {i} \in SUBSET Id
        OBVIOUS
      <3> QED BY <2>1, <3>1, BeginQueryStep DEF Query
    <2>2. ASSUME BeginQuery(t, Id) PROVE IInv'
      <3>1. Id \in SUBSET Id
        OBVIOUS
      <3> QED BY <2>2, <3>1, BeginQueryStep
    <2> QED BY <1>4, <2>1, <2>2, BeginCreateStep, BeginJobStep, BeginSetupStep
            DEF Requests
  <1>5. ASSUME NEW i \in Id, OutsideChange(i) PROVE IInv'
    BY <1>5, OutsideStep
  <1>6. CASE Restart
    <2>1. budget' \in [BudgetClass -> Int]
      BY <1>6, SpendType DEF Restart, BudgetClass, IInv, TypeOK
    <2> QED BY <1>6, <2>1, RestartStep, Unchanged DEF Restart
  <1>7. CASE Reboot
    <2>1. budget' \in [BudgetClass -> Int]
      BY <1>7, SpendType DEF Reboot, BudgetClass, IInv, TypeOK
    <2>2. DaemonTypeOK' /\ \A i \in Id : PresentNext(i) => Present(i)
      BY <1>7 DEF Reboot, DaemonReboot, DaemonTypeOK, Container, Present,
                  PresentNext, IInv, TypeOK
    <2> QED BY <1>7, <2>1, <2>2, RestartStep DEF Reboot
  <1>8. CASE UNCHANGED vars
    BY <1>8 DEF vars, storeVars, IInv, TypeOK, DaemonTypeOK, Store!TypeOK, Maps,
                OneCreator, Sound, Good, Creating, Present, IsDeleted
  <1> QED BY <1>1, <1>2, <1>3, <1>4, <1>5, <1>6, <1>7, <1>8
          DEF Next, Progress, Environment

THEOREM Invariance == Spec => []IInv
  BY InitInv, NextInv, PTL DEF Spec

\* Whatever overlaps, fails or restarts, every variable keeps its type; above
\* all, no handler writes back a record it does not have.
THEOREM LifecycleTypeOK == Spec => []TypeOK
  <1>1. IInv => TypeOK
    BY DEF IInv
  <1> QED BY <1>1, Invariance, PTL

\* on_delete_instance removes the container before any copy of the record says
\* deleted, and no stale copy, retry, crash or outside change of the container
\* ever makes a deleted instance's container exist.
THEOREM DeletedContainersAreGone == Spec => []DeletedMeansRemoved
  <1>1. IInv => DeletedMeansRemoved
    <2> SUFFICES ASSUME IInv, NEW i \in Id, NEW r \in Copies(i), IsDeleted(r)
                 PROVE  ~Present(i)
      BY DEF DeletedMeansRemoved
    <2>1. Good(i, r)
      BY DEF Copies, IInv, Sound, Good, IsDeleted
    <2> QED BY <2>1 DEF Good, IsDeleted
  <1> QED BY <1>1, Invariance, PTL

-----------------------------------------------------------------------------
(* Acknowledged creates *)

\* A step that acknowledges nothing, or only what it saves successfully, keeps
\* every acknowledged instance in every map that can be found later.
LEMMA AckedStaysKnown ==
    ASSUME IInv, AckedCreateSurvives, NEW i \in Id, NEW r \in InstanceRecord,
           \/ Store!Put(i, r) /\ acked' \subseteq acked \cup {i}
           \/ Store!Expose(i, r) /\ acked' = acked
           \/ UNCHANGED <<storeVars, acked>>
    PROVE  AckedCreateSurvives'
  <1> DEFINE n == [store EXCEPT ![i] = r]
  <1>1. /\ r # NoRecord /\ store \in Maps
        /\ store \in [Id -> InstanceRecord \cup {NoRecord}]
        /\ acked \subseteq Id
    BY NoRecordAssumption DEF Maps, IInv, TypeOK, Store!TypeOK, Store!Map
  <1>2. n[i] = r /\ \A k \in acked : n[k] # NoRecord
    BY <1>1 DEF AckedCreateSurvives
  <1>3. CASE Store!Put(i, r) /\ acked' \subseteq acked \cup {i}
    <2>1. Maps' = {n}
      BY <1>3 DEF Store!Put, Maps
    <2> HIDE DEF n
    <2> QED BY <1>1, <1>2, <1>3, <2>1 DEF AckedCreateSurvives
  <1>4. CASE Store!Expose(i, r) /\ acked' = acked
    <2>1. Maps' \subseteq Maps \cup {n}
      BY <1>4 DEF Store!Expose, Maps
    <2> HIDE DEF n
    <2> QED BY <1>2, <1>4, <2>1 DEF AckedCreateSurvives
  <1>5. CASE UNCHANGED <<storeVars, acked>>
    BY <1>5 DEF AckedCreateSurvives, Maps, storeVars
  <1> QED BY <1>3, <1>4, <1>5

LEMMA AckedStep == IInv /\ AckedCreateSurvives /\ [Next]_vars => AckedCreateSurvives'
  <1> SUFFICES ASSUME IInv, AckedCreateSurvives, [Next]_vars
               PROVE  AckedCreateSurvives'
    OBVIOUS
  <1>1. ASSUME UNCHANGED <<storeVars, acked>> PROVE AckedCreateSurvives'
    BY <1>1 DEF AckedCreateSurvives, Maps, storeVars
  <1>2. ASSUME NEW t \in Task, task[t].pc \in Holding,
               \/ /\ Save(task[t].id, task[t].rec)
                  /\ acked' \subseteq acked \cup {task[t].id}
               \/ SaveFails(task[t].id, task[t].rec) /\ acked' = acked
        PROVE  AckedCreateSurvives'
    BY <1>2, Held, AckedStaysKnown DEF Save, SaveFails
  <1>3. ASSUME NEW t \in Task, FirstSave(t) PROVE AckedCreateSurvives'
    <2>1. task[t].pc \in Holding
      BY <1>3 DEF FirstSave, At, Holding, Pc
    <2> QED BY <1>2, <1>3, <2>1 DEF FirstSave
  <1>4. ASSUME NEW t \in Task, FinalSave(t) PROVE AckedCreateSurvives'
    <2>1. task[t].pc \in Holding
      BY <1>4 DEF FinalSave, At, Holding, Pc
    <2> QED BY <1>2, <1>4, <2>1 DEF FinalSave
  <1>5. ASSUME NEW t \in Task, SetupSave(t) \/ RefreshSave(t)
        PROVE  AckedCreateSurvives'
    <2>1. task[t].pc \in Holding
      BY <1>5 DEF SetupSave, RefreshSave, At, Holding, Pc
    <2> QED BY <1>2, <1>5, <2>1 DEF SetupSave, RefreshSave
  <1>6. CASE Restart \/ Reboot
    <2>1. Maps' \subseteq Maps /\ acked' = acked
      BY <1>6 DEF Restart, Reboot, Store!ProcessRestart, Store!PowerLoss, Maps,
                  IInv, TypeOK, Store!TypeOK
    <2> QED BY <2>1 DEF AckedCreateSurvives
  <1>7. ASSUME NEW t \in Task, CreateSteps(t) PROVE AckedCreateSurvives'
    BY <1>1, <1>3, <1>7 DEF CreateSteps, DockerCreate, InspectNewPort, Cleanup
  <1>8. ASSUME NEW t \in Task, JobSteps(t) PROVE AckedCreateSurvives'
    BY <1>1, <1>4, <1>8 DEF JobSteps, DockerStart, InspectStarted, AutoSetupExec,
                            DockerStop, DockerRemove
  <1>9. ASSUME NEW t \in Task, HttpSteps(t) PROVE AckedCreateSurvives'
    BY <1>1, <1>5, <1>9 DEF HttpSteps, SetupExec, SetupView, Inspect, InspectPort
  <1>10. ASSUME NEW t \in Task, Requests(t) PROVE AckedCreateSurvives'
    BY <1>1, <1>10 DEF Requests, BeginCreate, BeginJob, BeginSetup, Query, BeginQuery
  <1>11. ASSUME NEW i \in Id, OutsideChange(i) PROVE AckedCreateSurvives'
    BY <1>1, <1>11 DEF OutsideChange
  <1>12. CASE UNCHANGED vars
    BY <1>1, <1>12 DEF vars
  <1> QED BY <1>6, <1>7, <1>8, <1>9, <1>10, <1>11, <1>12
          DEF Next, Progress, Environment

\* Once create_instance has returned Ok, no failed save, killed process or power
\* loss brings back a map without the instance.
THEOREM AckedCreatesSurvive == Spec => []AckedCreateSurvives
  <1>1. Init => AckedCreateSurvives
    BY DEF Init, AckedCreateSurvives
  <1> QED BY <1>1, AckedStep, Invariance, PTL DEF Spec

-----------------------------------------------------------------------------
(* II. The owner                                                           *)

\* What task x holds of instance i names the owner o.
OwnedBy(x, i, o) ==
    /\ x.id = i /\ x.rec # NoRecord => x.rec.owner = o
    /\ x.todo[i] # NoRecord => x.todo[i].owner = o

Owned(i, o) ==
    /\ \A m \in Maps : m[i] # NoRecord => m[i].owner = o
    /\ \A t \in Task : OwnedBy(task[t], i, o)

Acting == {"start", "stop", "delete", "setup"}

\* A handler acts for the owner, and a setup request looks at no other
\* instance in the end.
Acts(x) ==
    x.kind \in Acting =>
        /\ x.id \in Id
        /\ store[x.id] # NoRecord /\ store[x.id].owner = x.caller
        /\ \A j \in Id : x.todo[j] # NoRecord => j = x.id

OwnerInv ==
    /\ \A i \in Id : \E o : Owned(i, o)
    /\ \A t \in Task : Acts(task[t])

\* The owner of a record that task x holds of instance i, or the store.
Known(x, i, o) ==
    \/ x.id = i /\ x.rec # NoRecord /\ x.rec.owner = o
    \/ x.todo[i] # NoRecord /\ x.todo[i].owner = o
    \/ store[i] # NoRecord /\ store[i].owner = o

\* Task x goes on as y, which holds what x held or what the store has now.
Passes(x, y) ==
    /\ y.rec # NoRecord => y.id \in Id /\ Known(x, y.id, y.rec.owner)
    /\ \A i \in Id : y.todo[i] # NoRecord => Known(x, i, y.todo[i].owner)
    /\ y.kind \in Acting =>
         /\ y.id \in Id
         /\ \A j \in Id : y.todo[j] # NoRecord => j = y.id
         /\ \/ y.kind = x.kind /\ y.id = x.id /\ y.caller = x.caller
            \/ store[y.id] # NoRecord /\ store[y.id].owner = y.caller

\* What a step of task x does to the store.
Writes(x) ==
    \/ UNCHANGED storeVars
    \/ x.rec # NoRecord /\ x.id \in Id
       /\ (Store!Put(x.id, x.rec) \/ Store!Expose(x.id, x.rec))

LEMMA KnownOwner ==
  ASSUME NEW i \in Id, NEW o, NEW p, Owned(i, o), NEW t \in Task, Known(task[t], i, p)
  PROVE  p = o
  BY DEF Owned, OwnedBy, Known, Maps

\* A step of one handler.
LEMMA OwnerStep ==
  ASSUME IInv, OwnerInv, NEW t \in Task, NEW y,
         task' = [task EXCEPT ![t] = y], Passes(task[t], y), Writes(task[t])
  PROVE  OwnerInv'
<1>1. Store!TypeOK /\ task \in [Task -> TaskState]
  BY DEF IInv, TypeOK
<1>2. ASSUME NEW i \in Id, NEW o, Owned(i, o)
      PROVE  Owned(i, o)'
  <2>1. OwnedBy(y, i, o)
    BY <1>2, KnownOwner DEF Passes, OwnedBy
  <2>2. \A u \in Task : OwnedBy(task'[u], i, o)
    BY <1>1, <1>2, <2>1 DEF Owned
  <2>3. \A m \in Maps' : m[i] # NoRecord => m[i].owner = o
    <3>1. CASE UNCHANGED storeVars
      BY <1>2, <3>1 DEF Owned, Maps, storeVars
    <3>2. ASSUME NEW j \in Id, NEW r, j = i => r.owner = o,
                 Store!Put(j, r) \/ Store!Expose(j, r)
          PROVE  \A m \in Maps' : m[i] # NoRecord => m[i].owner = o
      <4> DEFINE n == [store EXCEPT ![j] = r]
      <4>1. store \in [Id -> InstanceRecord \cup {NoRecord}]
        BY <1>1 DEF Store!TypeOK, Store!Map
      <4>2. n[i] # NoRecord => n[i].owner = o
        BY <1>2, <3>2, <4>1 DEF Owned, Maps
      <4>3. Maps' \subseteq Maps \cup {n}
        BY <3>2 DEF Store!Put, Store!Expose, Maps
      <4> HIDE DEF n
      <4> QED
        BY <1>2, <4>2, <4>3 DEF Owned
    <3>3. task[t].id = i /\ task[t].rec # NoRecord => task[t].rec.owner = o
      BY <1>2 DEF Owned, OwnedBy
    <3> QED
      BY <3>1, <3>2, <3>3 DEF Writes
  <2>4. \A u \in Task : OwnedBy(task[u], i, o)'
    BY <2>2 DEF OwnedBy
  <2> QED
    BY <2>3, <2>4 DEF Owned
<1>3. ASSUME NEW i \in Id, store[i] # NoRecord
      PROVE  store'[i] # NoRecord /\ store'[i].owner = store[i].owner
  <2>1. PICK o : Owned(i, o)
    BY DEF OwnerInv
  <2>2. store[i].owner = o
    BY <1>3, <2>1 DEF Owned, Maps
  <2>3. store'[i] # NoRecord
    BY <1>1, <1>3 DEF Writes, Store!Put, Store!Expose, Store!TypeOK, Store!Map, storeVars
  <2>4. Owned(i, o)'
    BY <1>2, <2>1
  <2>5. store'[i].owner = o
    BY <2>3, <2>4 DEF Owned, Maps
  <2> QED
    BY <2>2, <2>3, <2>5
<1>4. ASSUME NEW u \in Task
      PROVE  Acts(task[u])'
  <2>1. CASE u = t
    <3>1. task'[u] = y
      BY <1>1, <2>1
    <3> QED
      BY <1>3, <2>1, <3>1 DEF Passes, Acts, OwnerInv
  <2>2. CASE u # t
    <3>1. task'[u] = task[u] /\ Acts(task[u])
      BY <1>1, <2>2 DEF OwnerInv
    <3> QED
      BY <1>3, <3>1 DEF Acts
  <2> QED
    BY <2>1, <2>2
<1> QED
  BY <1>2, <1>4 DEF OwnerInv

\* Nothing moves but the containers, or a new process has only what it loaded.
LEMMA OwnerStays ==
  ASSUME OwnerInv, UNCHANGED <<storeVars, task>>
  PROVE  OwnerInv'
  BY DEF OwnerInv, Owned, OwnedBy, Acts, Maps, storeVars

LEMMA OwnerRestart ==
  ASSUME IInv, OwnerInv, Store!ProcessRestart \/ Store!PowerLoss,
         task' = [t \in Task |-> IdleTask]
  PROVE  OwnerInv'
<1>1. Maps' \subseteq Maps
  BY DEF Store!ProcessRestart, Store!PowerLoss, Maps, IInv, TypeOK, Store!TypeOK
<1>2. \A t \in Task : task'[t] = IdleTask
  OBVIOUS
<1>3. /\ IdleTask.rec = NoRecord /\ IdleTask.kind \notin Acting
      /\ \A i \in Id : IdleTask.todo[i] = NoRecord
  BY DEF IdleTask, Acting, NoRecords
<1>4. ASSUME NEW i \in Id, NEW o, Owned(i, o) PROVE Owned(i, o)'
  BY <1>1, <1>2, <1>3, <1>4 DEF Owned, OwnedBy
<1>5. ASSUME NEW t \in Task PROVE Acts(task[t])'
  BY <1>2, <1>3 DEF Acts
<1> QED
  BY <1>4, <1>5 DEF OwnerInv

\* No operation of the adapter changes the owner.
LEMMA OwnerKept ==
  ASSUME NEW r \in InstanceRecord
  PROVE  /\ \A why : Failed(r, why).owner = r.owner
         /\ \A st : Stabilized(r, st).owner = r.owner /\ Seen(r, st).owner = r.owner
         /\ SetupRunning(r).owner = r.owner /\ SetupAwaitsUser(r).owner = r.owner
         /\ SetupFailed(r).owner = r.owner /\ Stopped(r).owner = r.owner
         /\ Deleted(r).owner = r.owner /\ Missing(r).owner = r.owner
         /\ \A t \in Task : Started(t, r).owner = r.owner
         /\ \A p : [r EXCEPT !.ui_host_port = p].owner = r.owner
  BY DEF InstanceRecord, Failed, Stabilized, Seen, SetupRunning, SetupAwaitsUser, SetupFailed,
         Stopped, Deleted, Missing, Started

-----------------------------------------------------------------------------
(* How handlers go on. *)

LEMMA OwnerFinish ==
  ASSUME IInv, OwnerInv, NEW t \in Task, Finish(t), Writes(task[t])
  PROVE  OwnerInv'
<1>1. Passes(task[t], IdleTask)
  BY DEF Passes, IdleTask, Acting, NoRecords
<1>2. task' = [task EXCEPT ![t] = IdleTask]
  BY DEF Finish
<1> QED
  BY <1>1, <1>2, OwnerStep

LEMMA OwnerGoto ==
  ASSUME IInv, OwnerInv, NEW t \in Task, task[t].pc \in Holding, NEW pc, NEW r, Goto(t, pc, r),
         r = NoRecord \/ r.owner = task[t].rec.owner, Writes(task[t])
  PROVE  OwnerInv'
<1> DEFINE y == [task[t] EXCEPT !.pc = pc, !.rec = r]
<1>1. /\ task[t] \in TaskState /\ task[t].rec \in InstanceRecord /\ task[t].id \in Id
      /\ task[t].rec # NoRecord
  BY Held, NoRecordAssumption
<1>2. /\ y.rec = r /\ y.id = task[t].id /\ y.todo = task[t].todo
      /\ y.kind = task[t].kind /\ y.caller = task[t].caller
  BY <1>1 DEF TaskState
<1>3. task' = [task EXCEPT ![t] = y]
  BY DEF Goto, IInv, TypeOK, TaskState
<1>4. Acts(task[t])
  BY DEF OwnerInv
<1> HIDE DEF y
<1>5. Passes(task[t], y)
  BY <1>1, <1>2, <1>4 DEF Passes, Known, Acts
<1> QED
  BY <1>3, <1>5, OwnerStep

\* A save writes the copy that the handler holds.
LEMMA SaveWrites ==
  ASSUME IInv, NEW t \in Task, task[t].pc \in Holding,
         Save(task[t].id, task[t].rec) \/ SaveFails(task[t].id, task[t].rec)
  PROVE  Writes(task[t])
<1>1. task[t].id \in Id /\ task[t].rec # NoRecord
  BY Held, NoRecordAssumption
<1> QED
  BY <1>1 DEF Writes, Save, SaveFails

\* A handler begins with what the store has.
LEMMA OwnerBegin ==
  ASSUME IInv, OwnerInv, NEW t \in Task, NEW kind, NEW pc, NEW i \in Id, NEW o, NEW r,
         Begin(t, kind, pc, i, o, r), UNCHANGED storeVars,
         r # NoRecord => store[i] # NoRecord /\ r.owner = store[i].owner,
         kind \in Acting => store[i] # NoRecord /\ store[i].owner = o
  PROVE  OwnerInv'
<1> DEFINE y == [kind |-> kind, pc |-> pc, id |-> i, caller |-> o, rec |-> r, todo |-> NoRecords]
<1>1. Passes(task[t], y)
  BY DEF Passes, Known, NoRecords
<1> QED
  BY <1>1, OwnerStep DEF Begin, Writes

-----------------------------------------------------------------------------
(* The steps. *)

\* The first record is made when there is no other.
LEMMA OwnerFirst ==
  ASSUME IInv, OwnerInv, NEW t \in Task, NEW y, task' = [task EXCEPT ![t] = y],
         UNCHANGED storeVars, NEW i \in Id, NEW o, Creating(i), task[t].id = i,
         y.id = i, y.rec.owner = o, y.todo = task[t].todo, y.kind = task[t].kind,
         y.caller = task[t].caller
  PROVE  OwnerInv'
<1>1. \A u \in Task : task'[u] = IF u = t THEN y ELSE task[u]
  BY DEF IInv, TypeOK
<1>2. Maps' = Maps /\ store' = store
  BY DEF storeVars, Maps
<1>3. /\ \A m \in Maps : m[i] = NoRecord
      /\ \A u \in Task : task[u].todo[i] = NoRecord
      /\ \A u \in Task : task[u].id = i => task[u].rec = NoRecord
  BY DEF IInv, Sound, Good
<1>4. Owned(i, o)'
  <2>1. \A u \in Task : OwnedBy(task[u], i, o)'
    BY <1>1, <1>3 DEF OwnedBy
  <2> QED
    BY <1>2, <1>3, <2>1 DEF Owned
<1>5. ASSUME NEW j \in Id, j # i, NEW p, Owned(j, p)
      PROVE  Owned(j, p)'
  <2>1. \A u \in Task : OwnedBy(task[u], j, p)'
    BY <1>1, <1>5 DEF Owned, OwnedBy
  <2> QED
    BY <1>2, <1>5, <2>1 DEF Owned
<1>6. ASSUME NEW u \in Task
      PROVE  Acts(task[u])'
  BY <1>1, <1>2 DEF OwnerInv, Acts
<1> QED
  BY <1>4, <1>5, <1>6 DEF OwnerInv

LEMMA OwnerDockerCreate ==
  ASSUME IInv, OwnerInv, NEW t \in Task, DockerCreate(t)
  PROVE  OwnerInv'
<1>1. CASE Finish(t)
  BY <1>1, OwnerFinish DEF DockerCreate, Writes
<1>2. ASSUME NEW pc, Goto(t, pc, Created(task[t].id, task[t].caller))
      PROVE  OwnerInv'
  <2> DEFINE y == [task[t] EXCEPT !.pc = pc, !.rec = Created(task[t].id, task[t].caller)]
  <2>1. /\ task[t] \in TaskState /\ task[t].pc = "docker_create" /\ task[t].id \in Id
    BY DEF IInv, TypeOK, DockerCreate, At, Sound
  <2>2. /\ y.rec.owner = task[t].caller /\ y.id = task[t].id /\ y.todo = task[t].todo
        /\ y.kind = task[t].kind /\ y.caller = task[t].caller
    BY <2>1 DEF TaskState, Created
  <2>3. task' = [task EXCEPT ![t] = y]
    BY <1>2 DEF Goto, IInv, TypeOK, TaskState
  <2>4. UNCHANGED storeVars /\ Creating(task[t].id)
    BY <2>1 DEF DockerCreate, storeVars, Creating
  <2> HIDE DEF y
  <2> QED
    BY <2>1, <2>2, <2>3, <2>4, OwnerFirst
<1> QED
  BY <1>1, <1>2 DEF DockerCreate

LEMMA OwnerCreateSteps ==
  ASSUME IInv, OwnerInv, NEW t \in Task, CreateSteps(t)
  PROVE  OwnerInv'
<1>1. CASE InspectNewPort(t)
  <2>1. task[t].pc \in Holding /\ Writes(task[t])
    BY <1>1 DEF InspectNewPort, At, Holding, Pc, Writes
  <2>2. task[t].rec \in InstanceRecord
    BY <2>1, Held
  <2> QED
    BY <1>1, <2>1, <2>2, OwnerFinish, OwnerGoto, OwnerKept DEF InspectNewPort
<1>2. CASE FirstSave(t)
  <2>1. task[t].pc \in Holding
    BY <1>2 DEF FirstSave, At, Holding, Pc
  <2>2. Writes(task[t])
    BY <1>2, <2>1, SaveWrites DEF FirstSave
  <2> QED
    BY <1>2, <2>1, <2>2, OwnerFinish, OwnerGoto DEF FirstSave
<1>3. CASE Cleanup(t)
  BY <1>3, OwnerFinish DEF Cleanup, Writes
<1> QED
  BY <1>1, <1>2, <1>3, OwnerDockerCreate DEF CreateSteps

LEMMA OwnerJobSteps ==
  ASSUME IInv, OwnerInv, NEW t \in Task, JobSteps(t)
  PROVE  OwnerInv'
<1>1. task[t].pc \in Holding
  BY DEF JobSteps, DockerStart, InspectStarted, AutoSetupExec, DockerStop, DockerRemove,
         FinalSave, At, Holding, Pc
<1>2. task[t].rec \in InstanceRecord
  BY <1>1, Held
<1>3. CASE FinalSave(t)
  BY <1>1, <1>3, SaveWrites, OwnerFinish DEF FinalSave
<1>4. ASSUME ~FinalSave(t)
      PROVE  Writes(task[t])
  BY <1>4 DEF JobSteps, DockerStart, InspectStarted, AutoSetupExec, DockerStop, DockerRemove, Writes
<1>5. \A r \in InstanceRecord : r.owner = task[t].rec.owner =>
        /\ Started(t, r).owner = task[t].rec.owner
        /\ Started(t, SetupAwaitsUser(r)).owner = task[t].rec.owner
        /\ Started(t, SetupRunning(r)).owner = task[t].rec.owner
        /\ Started(t, SetupFailed(r)).owner = task[t].rec.owner
  BY DEF Started, SetupAwaitsUser, SetupRunning, SetupFailed, InstanceRecord
<1>6. ASSUME ~FinalSave(t)
      PROVE  \E pc, r : Goto(t, pc, r) /\ r.owner = task[t].rec.owner
  <2>1. CASE DockerStart(t)
    BY <1>2, <2>1, OwnerKept DEF DockerStart
  <2>2. CASE InspectStarted(t)
    <3> DEFINE r == Stabilized(task[t].rec, ctr[task[t].id].status)
    <3>1. Present(task[t].id) => ctr[task[t].id].status \in ContainerStatus
      BY <1>1, Held DEF IInv, TypeOK, DaemonTypeOK, Container, Present, ContainerStatus
    <3>2. /\ Failed(task[t].rec, "startup").owner = task[t].rec.owner
          /\ r.owner = task[t].rec.owner
          /\ Present(task[t].id) => r \in InstanceRecord
      BY <1>1, <1>2, <3>1, Held, RecordTypes, OwnerKept
    <3>3. Running(task[t].id) => Present(task[t].id)
      BY DEF Running, Present
    <3> HIDE DEF r
    <3>4. Present(task[t].id) =>
            /\ Started(t, r).owner = task[t].rec.owner
            /\ Started(t, SetupAwaitsUser(r)).owner = task[t].rec.owner
      BY <1>5, <3>2
    <3> QED
      BY <2>2, <3>2, <3>3, <3>4 DEF InspectStarted, r
  <2>3. CASE AutoSetupExec(t)
    BY <1>2, <1>5, <2>3 DEF AutoSetupExec
  <2>4. CASE DockerStop(t)
    BY <1>2, <2>4, OwnerKept DEF DockerStop
  <2>5. CASE DockerRemove(t)
    BY <1>2, <2>5, OwnerKept DEF DockerRemove
  <2> QED
    BY <1>6, <2>1, <2>2, <2>3, <2>4, <2>5 DEF JobSteps
<1> QED
  BY <1>1, <1>3, <1>4, <1>6, OwnerGoto

\* A step of a setup request or a query.
LEMMA OwnerSetupSteps ==
  ASSUME IInv, OwnerInv, NEW t \in Task, SetupExec(t) \/ SetupSave(t)
  PROVE  OwnerInv'
<1>1. task[t].pc \in Holding
  BY DEF SetupExec, SetupSave, At, Holding, Pc
<1>2. task[t].rec \in InstanceRecord
  BY <1>1, Held
<1>3. CASE SetupExec(t)
  BY <1>1, <1>2, <1>3, OwnerKept, OwnerGoto, OwnerFinish DEF SetupExec, Writes
<1>4. CASE SetupSave(t)
  BY <1>1, <1>4, SaveWrites, OwnerGoto, OwnerFinish DEF SetupSave
<1> QED
  BY <1>3, <1>4

LEMMA OwnerSetupView ==
  ASSUME IInv, OwnerInv, NEW t \in Task, SetupView(t)
  PROVE  OwnerInv'
<1> DEFINE i == task[t].id
           y == [task[t] EXCEPT !.pc = "inspect", !.todo = [NoRecords EXCEPT ![i] = store[i]]]
<1>1. task[t] \in TaskState /\ i \in Id
  BY DEF IInv, TypeOK, SetupView, At, Sound
<1>2. /\ y.rec = task[t].rec /\ y.id = i /\ y.kind = task[t].kind /\ y.caller = task[t].caller
      /\ \A j \in Id : y.todo[j] # NoRecord => j = i /\ y.todo[j] = store[i]
  BY <1>1 DEF TaskState, NoRecords
<1>3. task' = [task EXCEPT ![t] = y]
  BY DEF SetupView, IInv, TypeOK, TaskState
<1>4. Writes(task[t])
  BY DEF SetupView, Writes, storeVars
<1> HIDE DEF y
<1>5. Passes(task[t], y)
  BY <1>1, <1>2 DEF Passes, Known
<1> QED
  BY <1>3, <1>4, <1>5, OwnerStep

\* The next copy of a query, or the answer.
LEMMA OwnerNextView ==
  ASSUME IInv, OwnerInv, NEW t \in Task, NEW i \in Id, NextView(t, i), Writes(task[t])
  PROVE  OwnerInv'
<1> DEFINE rest == [task[t].todo EXCEPT ![i] = NoRecord]
           y == [task[t] EXCEPT !.pc = "inspect", !.rec = NoRecord, !.todo = rest]
<1>1. task[t] \in TaskState /\ Acts(task[t])
  BY DEF IInv, TypeOK, OwnerInv
<1>2. CASE rest = NoRecords
  <2>1. Finish(t)
    BY <1>2 DEF NextView, Finish
  <2> QED
    BY <2>1, OwnerFinish
<1>3. CASE rest # NoRecords
  <2>1. task' = [task EXCEPT ![t] = y]
    BY <1>3 DEF NextView, IInv, TypeOK, TaskState
  <2>2. /\ y.rec = NoRecord /\ y.id = task[t].id /\ y.kind = task[t].kind
        /\ y.caller = task[t].caller
        /\ \A j \in Id : y.todo[j] # NoRecord => y.todo[j] = task[t].todo[j]
    BY <1>1 DEF TaskState
  <2> HIDE DEF y
  <2>3. Passes(task[t], y)
    BY <1>1, <2>2 DEF Passes, Known, Acts
  <2> QED
    BY <2>1, <2>3, OwnerStep
<1> QED
  BY <1>2, <1>3

\* The copy of i, refreshed, is in the handler's hands.
LEMMA OwnerHolds ==
  ASSUME IInv, OwnerInv, NEW t \in Task, NEW i \in Id, NEW r, NEW pc,
         task' = [task EXCEPT ![t].pc = pc, ![t].id = i, ![t].rec = r],
         UNCHANGED storeVars, Known(task[t], i, r.owner),
         task[t].kind \in Acting => i = task[t].id
  PROVE  OwnerInv'
<1> DEFINE y == [task[t] EXCEPT !.pc = pc, !.id = i, !.rec = r]
<1>1. task[t] \in TaskState /\ Acts(task[t])
  BY DEF IInv, TypeOK, OwnerInv
<1>2. /\ y.rec = r /\ y.id = i /\ y.todo = task[t].todo
      /\ y.kind = task[t].kind /\ y.caller = task[t].caller
  BY <1>1 DEF TaskState
<1>3. task' = [task EXCEPT ![t] = y]
  BY DEF IInv, TypeOK, TaskState
<1> HIDE DEF y
<1>4. Passes(task[t], y)
  BY <1>1, <1>2 DEF Passes, Known, Acts
<1> QED
  BY <1>3, <1>4, OwnerStep DEF Writes

LEMMA OwnerRefreshed ==
  ASSUME IInv, OwnerInv, NEW t \in Task, NEW i \in Id, NEW r, Refreshed(t, i, r),
         UNCHANGED storeVars, Known(task[t], i, r.owner),
         task[t].kind \in Acting => i = task[t].id
  PROVE  OwnerInv'
<1>1. Writes(task[t])
  BY DEF Writes
<1> QED
  BY <1>1, OwnerNextView, OwnerHolds DEF Refreshed

LEMMA OwnerInspect ==
  ASSUME IInv, OwnerInv, NEW t \in Task, Inspect(t)
  PROVE  OwnerInv'
<1>1. UNCHANGED storeVars
  BY DEF Inspect, storeVars
<1>2. PICK i \in Id :
        /\ task[t].todo[i] # NoRecord
        /\ \E r : /\ \/ r = Seen(task[t].todo[i], ctr[i].status)
                    \/ r = Missing(task[t].todo[i])
                    \/ r = Failed(task[t].todo[i], "docker")
                 /\ \/ Refreshed(t, i, r)
                    \/ task' = [task EXCEPT ![t].pc = "refresh_port", ![t].id = i, ![t].rec = r]
  BY DEF Inspect
<1>3. task[t].todo[i] \in InstanceRecord
  BY <1>2 DEF IInv, TypeOK, TaskState, MaybeRecord
<1>4. PICK r :
        /\ r.owner = task[t].todo[i].owner
        /\ \/ Refreshed(t, i, r)
           \/ task' = [task EXCEPT ![t].pc = "refresh_port", ![t].id = i, ![t].rec = r]
  BY <1>2, <1>3, OwnerKept
<1>5. Known(task[t], i, r.owner) /\ (task[t].kind \in Acting => i = task[t].id)
  BY <1>2, <1>4 DEF Known, OwnerInv, Acts
<1> QED
  BY <1>1, <1>4, <1>5, OwnerRefreshed, OwnerHolds

LEMMA OwnerInspectPort ==
  ASSUME IInv, OwnerInv, NEW t \in Task, InspectPort(t)
  PROVE  OwnerInv'
<1> DEFINE i == task[t].id
           r == [task[t].rec EXCEPT !.ui_host_port = ctr[i].port]
<1>1. task[t].pc \in Holding
  BY DEF InspectPort, At, Holding, Pc
<1>2. i \in Id /\ task[t].rec \in InstanceRecord /\ task[t].rec # NoRecord
  BY <1>1, Held, NoRecordAssumption
<1>3. Known(task[t], i, r.owner) /\ UNCHANGED storeVars
  BY <1>2, OwnerKept DEF Known, InspectPort
<1>4. CASE Finish(t)
  BY <1>3, <1>4, OwnerFinish DEF Writes
<1>5. CASE Refreshed(t, i, r)
  BY <1>2, <1>3, <1>5, OwnerRefreshed
<1> QED
  BY <1>4, <1>5 DEF InspectPort

LEMMA OwnerRefreshSave ==
  ASSUME IInv, OwnerInv, NEW t \in Task, RefreshSave(t)
  PROVE  OwnerInv'
<1>1. task[t].pc \in Holding
  BY DEF RefreshSave, At, Holding, Pc
<1>2. Writes(task[t]) /\ task[t].id \in Id
  BY <1>1, SaveWrites, Held DEF RefreshSave
<1> QED
  BY <1>2, OwnerNextView, OwnerFinish DEF RefreshSave

\* A new handler.
LEMMA OwnerRequests ==
  ASSUME IInv, OwnerInv, NEW t \in Task, Requests(t)
  PROVE  OwnerInv'
<1>1. UNCHANGED storeVars
  BY DEF Requests, BeginCreate, BeginJob, BeginSetup, Query, BeginQuery, storeVars
<1>2. ASSUME NEW i \in Id, NEW o \in Owner, BeginCreate(t, i, o)
      PROVE  OwnerInv'
  BY <1>1, <1>2, OwnerBegin DEF BeginCreate, Acting
<1>3. ASSUME NEW i \in Id, NEW o \in Owner, NEW kind, BeginJob(t, kind, i, o)
      PROVE  OwnerInv'
  BY <1>1, <1>3, OwnerBegin DEF BeginJob, MayBegin
<1>4. ASSUME NEW i \in Id, NEW o \in Owner, BeginSetup(t, i, o)
      PROVE  OwnerInv'
  <2>1. store[i] \in InstanceRecord
    BY <1>4 DEF BeginSetup, IInv, TypeOK, Store!TypeOK, Store!Map
  <2>2. SetupAwaitsUser(store[i]).owner = store[i].owner
    BY <2>1, OwnerKept
  <2> QED
    BY <1>1, <1>4, <2>2, OwnerBegin DEF BeginSetup
<1>5. ASSUME NEW scope, BeginQuery(t, scope)
      PROVE  OwnerInv'
  <2> DEFINE copies == [i \in Id |-> IF i \in scope THEN store[i] ELSE NoRecord]
             y == [IdleTask EXCEPT !.kind = "query", !.pc = "inspect", !.todo = copies]
  <2>1. y.rec = NoRecord /\ y.kind \notin Acting
    BY DEF IdleTask, Acting
  <2>2. \A i \in Id : y.todo[i] # NoRecord => y.todo[i] = store[i]
    BY DEF IdleTask
  <2>3. task' = [task EXCEPT ![t] = y]
    BY <1>5 DEF BeginQuery
  <2> HIDE DEF y
  <2>4. Passes(task[t], y)
    BY <2>1, <2>2 DEF Passes, Known
  <2> QED
    BY <1>1, <2>3, <2>4, OwnerStep DEF Writes
<1> QED
  BY <1>2, <1>3, <1>4, <1>5 DEF Requests, Query

-----------------------------------------------------------------------------

LEMMA OwnerInit ==
  ASSUME Init
  PROVE  OwnerInv
<1>1. \A i \in Id, m \in Maps : m[i] = NoRecord
  BY DEF Init, Store!Init, Store!EmptyMap, Maps
<1>2. \A t \in Task : /\ task[t].rec = NoRecord /\ task[t].kind \notin Acting
                      /\ \A i \in Id : task[t].todo[i] = NoRecord
  BY DEF Init, IdleTask, Acting, NoRecords
<1>3. \A i \in Id : Owned(i, NoOwner)
  BY <1>1, <1>2 DEF Owned, OwnedBy
<1> QED
  BY <1>2, <1>3 DEF OwnerInv, Acts

LEMMA OwnerNext ==
  ASSUME IInv, OwnerInv, [Next]_vars
  PROVE  OwnerInv'
<1>1. ASSUME NEW t \in Task, Requests(t)
      PROVE  OwnerInv'
  BY <1>1, OwnerRequests
<1>2. ASSUME NEW t \in Task, Progress(t)
      PROVE  OwnerInv'
  BY <1>2, OwnerCreateSteps, OwnerJobSteps, OwnerSetupSteps, OwnerSetupView, OwnerInspect,
     OwnerInspectPort, OwnerRefreshSave DEF Progress, HttpSteps
<1>3. CASE Environment
  <2>1. CASE \E i \in Id : OutsideChange(i)
    BY <2>1, OwnerStays DEF OutsideChange
  <2>2. CASE Restart \/ Reboot
    BY <2>2, OwnerRestart DEF Restart, Reboot
  <2> QED
    BY <1>3, <2>1, <2>2 DEF Environment
<1>4. CASE UNCHANGED vars
  BY <1>4, OwnerStays DEF vars
<1> QED
  BY <1>1, <1>2, <1>3, <1>4 DEF Next

\* "Caller ownership validation on all lifecycle operations": for any number of
\* handlers that overlap, fail, and are cut off by crashes, the owner that
\* get_owned_instance found at the beginning is the owner in the store until the
\* handler returns.
THEOREM OwnershipHolds == Spec => []OnlyOwnerActs
<1>1. Init => OwnerInv
  BY OwnerInit
<1>2. IInv /\ OwnerInv /\ [Next]_vars => OwnerInv'
  BY OwnerNext
<1>3. OwnerInv => OnlyOwnerActs
  BY DEF OwnerInv, Acts, Acting, OnlyOwnerActs
<1>4. Spec => []IInv
  BY Invariance
<1> QED
  BY <1>1, <1>2, <1>3, <1>4, PTL DEF Spec

-----------------------------------------------------------------------------
(* III. No container without a record                                      *)

Before == {"docker_create", "inspect_port", "first_save", "cleanup"}
After == {"docker_start", "inspect_started", "auto_setup", "final_save"}

Stage(x) ==
    /\ x.pc = "docker_create" => x.kind = "create"
    /\ x.kind = "create" =>
        \/ x.pc \in Before
        \/ x.pc \in After /\ x.id \in Id /\ store[x.id] # NoRecord

StageNext(x) ==
    /\ x.pc = "docker_create" => x.kind = "create"
    /\ x.kind = "create" =>
        \/ x.pc \in Before
        \/ x.pc \in After /\ x.id \in Id /\ store'[x.id] # NoRecord

AtWork(i) == \E t \in Task : task[t].kind = "create" /\ task[t].id = i

Accounted ==
    /\ \A t \in Task : Stage(task[t])
    /\ \A i \in Id : Present(i) => store[i] # NoRecord \/ AtWork(i)

Fault == {"docker", "crash", "power"}

\* What is left of a bound is never more than the bound.
Bounded == \A class \in Fault : 0 <= budget[class] /\ budget[class] <= Budget[class]

CleanInv == Bounded /\ (OnlySavesFailed => Accounted)

\* No record is lost, and no container appears.
Grows ==
    /\ \A i \in Id : store[i] # NoRecord => store'[i] # NoRecord
    /\ \A i \in Id : PresentNext(i) => Present(i)

-----------------------------------------------------------------------------
(* Bounds *)

LEMMA SpendOne ==
  ASSUME TypeOK, Bounded, NEW class \in BudgetClass, Spend(class)
  PROVE  Bounded' /\ (OnlySavesFailed' => OnlySavesFailed /\ class \notin Fault)
<1>1. budget \in [BudgetClass -> Int] /\ Fault \subseteq BudgetClass
  BY DEF TypeOK, Fault, BudgetClass
<1>2. Budget \in [BudgetClass -> Int]
  BY LifecycleAssumption
<1>3. budget[class] \in Int /\ budget[class] # 0
      /\ budget' = [budget EXCEPT ![class] =
            IF budget[class] < 0 THEN budget[class] ELSE budget[class] - 1]
  BY <1>1 DEF Spend
<1>4. \A c \in Fault : c # class => budget'[c] = budget[c]
  BY <1>1, <1>3
<1>5. ASSUME class \in Fault
      PROVE  budget'[class] = budget[class] - 1 /\ budget[class] > 0
             /\ budget[class] <= Budget[class] /\ Budget[class] \in Int
  BY <1>1, <1>2, <1>3, <1>5 DEF Bounded
<1>6. Bounded'
  <2>1. ASSUME NEW c \in Fault PROVE 0 <= budget'[c] /\ budget'[c] <= Budget[c]
    <3>1. CASE c = class
      BY <1>3, <1>5, <3>1
    <3>2. CASE c # class
      BY <1>4, <3>2 DEF Bounded
    <3> QED
      BY <3>1, <3>2
  <2> QED
    BY <2>1 DEF Bounded
<1>7. ASSUME OnlySavesFailed'
      PROVE  class \notin Fault
  <2>1. SUFFICES ASSUME class \in Fault PROVE FALSE
    OBVIOUS
  <2>2. budget'[class] = Budget[class]
    BY <1>7, <2>1 DEF OnlySavesFailed, Fault
  <2> QED
    BY <1>3, <1>5, <2>1, <2>2
<1>8. ASSUME OnlySavesFailed'
      PROVE  OnlySavesFailed
  BY <1>4, <1>7, <1>8 DEF OnlySavesFailed, Fault
<1> QED
  BY <1>6, <1>7, <1>8

\* Every step spends from at most one bound.
LEMMA Spending ==
  ASSUME Next
  PROVE  UNCHANGED budget \/ \E class \in BudgetClass : Spend(class)
<1> USE DEF BudgetClass
<1>1. ASSUME NEW t \in Task, Requests(t)
      PROVE  \E class \in BudgetClass : Spend(class)
  BY <1>1 DEF Requests, BeginCreate, BeginJob, BeginSetup, Query, BeginQuery
<1>2. ASSUME NEW t \in Task, CreateSteps(t)
      PROVE  UNCHANGED budget \/ \E class \in BudgetClass : Spend(class)
  BY <1>2 DEF CreateSteps, DockerCreate, InspectNewPort, FirstSave, Cleanup, DockerFault,
              Save, SaveFails
<1>3. ASSUME NEW t \in Task, JobSteps(t)
      PROVE  UNCHANGED budget \/ \E class \in BudgetClass : Spend(class)
  BY <1>3 DEF JobSteps, DockerStart, InspectStarted, AutoSetupExec, DockerStop, DockerRemove,
              FinalSave, DockerFault, Save, SaveFails
<1>4. ASSUME NEW t \in Task, HttpSteps(t)
      PROVE  UNCHANGED budget \/ \E class \in BudgetClass : Spend(class)
  BY <1>4 DEF HttpSteps, SetupExec, SetupSave, SetupView, Inspect, InspectPort, RefreshSave,
              DockerFault, Save, SaveFails
<1>5. CASE Environment
  BY <1>5 DEF Environment, OutsideChange, Restart, Reboot
<1> QED
  BY <1>1, <1>2, <1>3, <1>4, <1>5 DEF Next, Progress

-----------------------------------------------------------------------------
(* Handlers *)

\* A task x goes on as y.  A create that ends must leave a record, or no
\* container.
HandsOver(x, y) ==
    /\ StageNext(y)
    /\ \A i \in Id : store[i] # NoRecord => store'[i] # NoRecord
    /\ \A i \in Id : PresentNext(i) =>
        \/ Present(i)
        \/ y.kind = "create" /\ y.id = i
    /\ x.kind = "create" =>
        \/ y.kind = "create" /\ y.id = x.id
        \/ PresentNext(x.id) => store'[x.id] # NoRecord

LEMMA CleanStep ==
  ASSUME IInv, Accounted, NEW t \in Task, NEW y, task' = [task EXCEPT ![t] = y],
         HandsOver(task[t], y)
  PROVE  Accounted'
<1> USE DEF HandsOver
<1>1. \A u \in Task : task'[u] = IF u = t THEN y ELSE task[u]
  BY DEF IInv, TypeOK
<1>2. ASSUME NEW u \in Task PROVE Stage(task[u])'
  <2>1. StageNext(task'[u])
    <3>1. CASE u = t
      BY <1>1, <3>1
    <3>2. CASE u # t
      BY <1>1, <3>2 DEF Accounted, Stage, StageNext
    <3> QED
      BY <3>1, <3>2
  <2> QED
    BY <2>1 DEF Stage, StageNext
<1>3. ASSUME NEW i \in Id, PresentNext(i), store'[i] = NoRecord PROVE AtWork(i)'
  <2>1. CASE y.kind = "create" /\ y.id = i
    BY <1>1, <2>1 DEF AtWork
  <2>2. CASE Present(i)
    <3>1. PICK u \in Task : task[u].kind = "create" /\ task[u].id = i
      BY <1>3, <2>2 DEF Accounted, AtWork
    <3>2. CASE u = t
      BY <1>1, <1>3, <3>1, <3>2 DEF AtWork
    <3>3. CASE u # t
      BY <1>1, <3>1, <3>3 DEF AtWork
    <3> QED
      BY <3>2, <3>3
  <2> QED
    BY <1>3, <2>1, <2>2
<1> QED
  BY <1>2, <1>3 DEF Accounted, Present, PresentNext

LEMMA CleanGoto ==
  ASSUME IInv, Accounted, NEW t \in Task, task[t].pc \in Holding, NEW pc, NEW r,
         Goto(t, pc, r), Grows, pc # "docker_create",
         task[t].kind = "create" =>
            \/ pc \in Before
            \/ pc \in After /\ store'[task[t].id] # NoRecord
  PROVE  Accounted'
<1> DEFINE y == [task[t] EXCEPT !.pc = pc, !.rec = r]
<1>1. task[t] \in TaskState /\ task[t].id \in Id
  BY Held
<1>2. y.pc = pc /\ y.id = task[t].id /\ y.kind = task[t].kind
  BY <1>1 DEF TaskState
<1>3. task' = [task EXCEPT ![t] = y]
  BY DEF Goto, IInv, TypeOK, TaskState
<1> HIDE DEF y
<1>4. StageNext(y)
  BY <1>1, <1>2 DEF StageNext
<1>5. HandsOver(task[t], y)
  BY <1>2, <1>4 DEF HandsOver, Grows
<1> QED
  BY <1>3, <1>5, CleanStep

LEMMA CleanFinish ==
  ASSUME IInv, Accounted, NEW t \in Task, Finish(t), Grows,
         task[t].kind = "create" /\ PresentNext(task[t].id) => store'[task[t].id] # NoRecord
  PROVE  Accounted'
<1>1. StageNext(IdleTask) /\ IdleTask.kind # "create"
  BY DEF StageNext, IdleTask
<1>2. HandsOver(task[t], IdleTask)
  BY <1>1 DEF HandsOver, Grows
<1> QED
  BY <1>2, CleanStep DEF Finish

\* A save adds a record; a failed one takes none away.
LEMMA SaveGrows ==
  ASSUME IInv, NEW t \in Task, task[t].pc \in Holding
  PROVE  LET i == task[t].id r == task[t].rec IN
         /\ Save(i, r) => store'[i] # NoRecord
         /\ Save(i, r) \/ SaveFails(i, r) =>
                \A j \in Id : store[j] # NoRecord => store'[j] # NoRecord
<1>1. task[t].id \in Id /\ task[t].rec # NoRecord
  BY Held, NoRecordAssumption
<1>2. store \in [Id -> InstanceRecord \cup {NoRecord}]
  BY DEF IInv, TypeOK, Store!TypeOK, Store!Map
<1> QED
  BY <1>1, <1>2 DEF Save, SaveFails, Store!Put, Store!Expose, storeVars

\* The daemon commands of a handler.
LEMMA CommandGrows ==
  ASSUME IInv, NEW i \in Id, UNCHANGED storeVars,
         DaemonStart(i) \/ DaemonStop(i) \/ DaemonRemove(i) \/ Outside(i) \/ UNCHANGED ctr
  PROVE  Grows
  BY DaemonSteps DEF IInv, TypeOK, Grows, storeVars

LEMMA QuietGrows ==
  ASSUME IInv, UNCHANGED <<ctr, storeVars>>
  PROVE  Grows
  BY DEF Grows, storeVars, Present, PresentNext

LEMMA BeforeStages ==
  \A pc \in {"first_save", "cleanup"} : pc \in Before /\ pc # "docker_create"
  BY DEF Before

LEMMA CleanCreate ==
  ASSUME IInv, Accounted, ~DockerFault, NEW t \in Task, CreateSteps(t)
  PROVE  Accounted'
<1>1. CASE DockerCreate(t)
  <2> DEFINE y == [task[t] EXCEPT !.pc = IF task[t].id \in PublishesUi THEN "inspect_port"
                                         ELSE "first_save",
                                  !.rec = Created(task[t].id, task[t].caller)]
  <2>1. /\ task[t] \in TaskState /\ task[t].pc = "docker_create" /\ task[t].id \in Id
        /\ Stage(task[t])
    BY <1>1 DEF IInv, TypeOK, DockerCreate, At, Sound, Accounted
  <2>2. /\ y.pc \in Before \ {"docker_create"} /\ y.id = task[t].id
        /\ y.kind = task[t].kind /\ task[t].kind = "create"
    BY <2>1 DEF TaskState, Before, Stage
  <2>3. task' = [task EXCEPT ![t] = y]
    BY <1>1 DEF DockerCreate, Goto, IInv, TypeOK, TaskState
  <2>4. \A i \in Id : PresentNext(i) => Present(i) \/ i = task[t].id
    BY <1>1, <2>1 DEF DockerCreate, DaemonCreate, Present, PresentNext, IInv, TypeOK, DaemonTypeOK
  <2> HIDE DEF y
  <2>5. store' = store
    BY <1>1 DEF DockerCreate, storeVars
  <2>6. HandsOver(task[t], y)
    BY <2>2, <2>4, <2>5 DEF HandsOver, StageNext
  <2> QED
    BY <2>3, <2>6, CleanStep
<1>2. CASE InspectNewPort(t)
  <2>1. task[t].pc \in Holding /\ Grows
    BY <1>2, QuietGrows DEF InspectNewPort, At, Holding, Pc
  <2>2. CASE \E r : Goto(t, "first_save", r)
    BY <2>1, <2>2, BeforeStages, CleanGoto
  <2>3. CASE ~Present(task[t].id) /\ Finish(t)
    <3>1. ~PresentNext(task[t].id)
      BY <2>1, <2>3, Held DEF Grows
    <3> QED
      BY <2>1, <2>3, <3>1, CleanFinish
  <2> QED
    BY <1>2, <2>2, <2>3 DEF InspectNewPort
<1>3. CASE FirstSave(t)
  <2>1. task[t].pc \in Holding
    BY <1>3 DEF FirstSave, At, Holding, Pc
  <2>2. /\ \A j \in Id : store[j] # NoRecord => store'[j] # NoRecord
        /\ Save(task[t].id, task[t].rec) => store'[task[t].id] # NoRecord
    BY <1>3, <2>1, SaveGrows DEF FirstSave
  <2>3. Grows
    BY <1>3, <2>2 DEF Grows, FirstSave, Present, PresentNext
  <2>4. CASE Goto(t, "cleanup", task[t].rec)
    BY <2>1, <2>3, <2>4, BeforeStages, CleanGoto
  <2>5. CASE store'[task[t].id] # NoRecord /\ Goto(t, "docker_start", task[t].rec)
    BY <2>1, <2>3, <2>5, CleanGoto DEF After
  <2>6. CASE store'[task[t].id] # NoRecord /\ Finish(t)
    BY <2>3, <2>6, CleanFinish
  <2> QED
    BY <1>3, <2>2, <2>4, <2>5, <2>6 DEF FirstSave
<1>4. CASE Cleanup(t)
  <2>1. task[t].id \in Id
    BY <1>4, Held DEF Cleanup, At, Holding, Pc
  <2>2. Grows /\ ~PresentNext(task[t].id)
    BY <1>4, <2>1, CommandGrows, DaemonSteps DEF Cleanup, IInv, TypeOK
  <2> QED
    BY <1>4, <2>2, CleanFinish DEF Cleanup
<1> QED
  BY <1>1, <1>2, <1>3, <1>4 DEF CreateSteps

LEMMA CleanJob ==
  ASSUME IInv, Accounted, NEW t \in Task, JobSteps(t)
  PROVE  Accounted'
<1>1. task[t].pc \in Holding /\ task[t].pc \notin Before
  BY DEF JobSteps, DockerStart, InspectStarted, AutoSetupExec, DockerStop, DockerRemove,
         FinalSave, At, Holding, Pc, Before
<1>2. task[t].kind = "create" => store[task[t].id] # NoRecord
  BY <1>1 DEF Accounted, Stage
<1>3. CASE FinalSave(t)
  <2>1. \A j \in Id : store[j] # NoRecord => store'[j] # NoRecord
    BY <1>1, <1>3, SaveGrows DEF FinalSave
  <2>2. Grows
    BY <1>3, <2>1 DEF Grows, FinalSave, Present, PresentNext
  <2> QED
    BY <1>1, <1>2, <1>3, <2>2, Held, CleanFinish DEF FinalSave, Grows
<1>4. ASSUME ~FinalSave(t)
      PROVE  Grows /\ store' = store
  <2>1. UNCHANGED storeVars
    BY <1>4 DEF JobSteps, DockerStart, InspectStarted, AutoSetupExec, DockerStop, DockerRemove,
                storeVars
  <2>2. \/ DaemonStart(task[t].id) \/ DaemonStop(task[t].id) \/ DaemonRemove(task[t].id)
        \/ UNCHANGED ctr
    BY <1>4 DEF JobSteps, DockerStart, InspectStarted, AutoSetupExec, DockerStop, DockerRemove
  <2> QED
    BY <1>1, <2>1, <2>2, Held, CommandGrows DEF storeVars
<1>5. ASSUME ~FinalSave(t)
      PROVE  \E r : \/ Goto(t, "inspect_started", r)
                    \/ Goto(t, "auto_setup", r)
                    \/ Goto(t, "final_save", r)
  BY <1>5 DEF JobSteps, DockerStart, InspectStarted, AutoSetupExec, DockerStop, DockerRemove
<1>6. \A pc \in {"inspect_started", "auto_setup", "final_save"} :
        pc \in After /\ pc # "docker_create"
  BY DEF After
<1>7. ASSUME ~FinalSave(t)
      PROVE  Accounted'
  <2>1. PICK r : \/ Goto(t, "inspect_started", r)
                \/ Goto(t, "auto_setup", r)
                \/ Goto(t, "final_save", r)
    BY <1>5, <1>7
  <2>2. PICK pc \in {"inspect_started", "auto_setup", "final_save"} : Goto(t, pc, r)
    BY <2>1
  <2> QED
    BY <1>1, <1>2, <1>4, <1>6, <1>7, <2>2, CleanGoto
<1> QED
  BY <1>3, <1>7

-----------------------------------------------------------------------------
(* Requests; none of them is a create that has begun. *)

LEMMA CleanOther ==
  ASSUME IInv, Accounted, NEW t \in Task, task[t].kind # "create", Grows,
         NEW y, task' = [task EXCEPT ![t] = y], y.kind # "create", y.pc # "docker_create"
  PROVE  Accounted'
<1>1. HandsOver(task[t], y)
  BY DEF HandsOver, StageNext, Grows
<1> QED
  BY <1>1, CleanStep

LEMMA CleanNextView ==
  ASSUME IInv, Accounted, NEW t \in Task, task[t].kind # "create", Grows,
         NEW i, NextView(t, i)
  PROVE  Accounted'
<1> DEFINE rest == [task[t].todo EXCEPT ![i] = NoRecord]
           y == [task[t] EXCEPT !.pc = "inspect", !.rec = NoRecord, !.todo = rest]
<1>1. task[t] \in TaskState
  BY DEF IInv, TypeOK
<1>2. IdleTask.kind # "create" /\ IdleTask.pc # "docker_create"
  BY DEF IdleTask
<1>3. y.kind # "create" /\ y.pc # "docker_create"
  BY <1>1 DEF TaskState
<1>4. task' = [task EXCEPT ![t] = IF rest = NoRecords THEN IdleTask ELSE y]
  BY DEF NextView, IInv, TypeOK, TaskState
<1> HIDE DEF y, rest
<1> QED
  BY <1>2, <1>3, <1>4, CleanOther

LEMMA CleanHolds ==
  ASSUME IInv, Accounted, NEW t \in Task, task[t].kind # "create", Grows,
         NEW pc, NEW i, NEW r, pc # "docker_create",
         task' = [task EXCEPT ![t].pc = pc, ![t].id = i, ![t].rec = r]
  PROVE  Accounted'
<1> DEFINE y == [task[t] EXCEPT !.pc = pc, !.id = i, !.rec = r]
<1>1. task[t] \in TaskState
  BY DEF IInv, TypeOK
<1>2. y.kind # "create" /\ y.pc # "docker_create"
  BY <1>1 DEF TaskState
<1>3. task' = [task EXCEPT ![t] = y]
  BY DEF IInv, TypeOK, TaskState
<1> HIDE DEF y
<1> QED
  BY <1>2, <1>3, CleanOther

LEMMA CleanRefreshed ==
  ASSUME IInv, Accounted, NEW t \in Task, task[t].kind # "create", Grows,
         NEW i, NEW r, Refreshed(t, i, r)
  PROVE  Accounted'
<1>1. CASE NextView(t, i)
  BY <1>1, CleanNextView
<1>2. CASE task' = [task EXCEPT ![t].pc = "refresh_save", ![t].id = i, ![t].rec = r]
  BY <1>2, CleanHolds
<1> QED
  BY <1>1, <1>2 DEF Refreshed

LEMMA CleanHttp ==
  ASSUME IInv, Accounted, NEW t \in Task, HttpSteps(t)
  PROVE  Accounted'
<1>1. task[t].kind # "create"
  <2>1. task[t].pc \notin Before \cup After
    BY DEF HttpSteps, SetupExec, SetupSave, SetupView, Inspect, InspectPort, RefreshSave, At,
           Before, After
  <2> QED
    BY <2>1 DEF Accounted, Stage
<1>2. Grows
  <2>1. ctr' = ctr
    BY DEF HttpSteps, SetupExec, SetupSave, SetupView, Inspect, InspectPort, RefreshSave
  <2>2. \/ UNCHANGED storeVars
        \/ /\ task[t].pc \in Holding
           /\ Save(task[t].id, task[t].rec) \/ SaveFails(task[t].id, task[t].rec)
    BY DEF HttpSteps, SetupExec, SetupSave, SetupView, Inspect, InspectPort, RefreshSave, At,
           Holding, Pc
  <2>3. CASE UNCHANGED storeVars
    BY <2>1, <2>3, QuietGrows
  <2>4. CASE /\ task[t].pc \in Holding
             /\ Save(task[t].id, task[t].rec) \/ SaveFails(task[t].id, task[t].rec)
    BY <2>1, <2>4, SaveGrows DEF Grows, Present, PresentNext
  <2> QED
    BY <2>2, <2>3, <2>4
<1>3. ASSUME Finish(t)
      PROVE  Accounted'
  BY <1>1, <1>2, <1>3, CleanFinish
<1>4. CASE SetupExec(t) \/ SetupSave(t)
  <2>1. task[t].pc \in Holding
    BY <1>4 DEF SetupExec, SetupSave, At, Holding, Pc
  <2>2. Finish(t) \/ \E pc \in {"setup_save", "setup_view"} : \E r : Goto(t, pc, r)
    BY <1>4 DEF SetupExec, SetupSave
  <2> QED
    BY <1>1, <1>2, <1>3, <2>1, <2>2, CleanGoto
<1>5. CASE SetupView(t)
  <2> DEFINE y == [task[t] EXCEPT !.pc = "inspect",
                                  !.todo = [NoRecords EXCEPT ![task[t].id] = store[task[t].id]]]
  <2>1. task[t] \in TaskState
    BY DEF IInv, TypeOK
  <2>2. y.kind # "create" /\ y.pc # "docker_create"
    BY <1>1, <2>1 DEF TaskState
  <2>3. task' = [task EXCEPT ![t] = y]
    BY <1>5 DEF SetupView, IInv, TypeOK, TaskState
  <2> HIDE DEF y
  <2> QED
    BY <1>1, <1>2, <2>2, <2>3, CleanOther
<1>6. CASE Inspect(t)
  <2>1. \E i, r : \/ Refreshed(t, i, r)
                 \/ task' = [task EXCEPT ![t].pc = "refresh_port", ![t].id = i, ![t].rec = r]
    BY <1>6 DEF Inspect
  <2> QED
    BY <1>1, <1>2, <2>1, CleanRefreshed, CleanHolds
<1>7. CASE InspectPort(t)
  <2>1. Finish(t) \/ \E i, r : Refreshed(t, i, r)
    BY <1>7 DEF InspectPort
  <2> QED
    BY <1>1, <1>2, <1>3, <2>1, CleanRefreshed
<1>8. CASE RefreshSave(t)
  <2>1. Finish(t) \/ \E i : NextView(t, i)
    BY <1>8 DEF RefreshSave
  <2> QED
    BY <1>1, <1>2, <1>3, <2>1, CleanNextView
<1> QED
  BY <1>4, <1>5, <1>6, <1>7, <1>8 DEF HttpSteps

\* A new handler; its slot was idle.
LEMMA CleanRequests ==
  ASSUME IInv, Accounted, NEW t \in Task, Requests(t)
  PROVE  Accounted'
<1>1. Grows
  <2>1. UNCHANGED <<ctr, storeVars>>
    BY DEF Requests, BeginCreate, BeginJob, BeginSetup, Query, BeginQuery, storeVars
  <2> QED
    BY <2>1, QuietGrows
<1>2. task[t].kind # "create"
  <2>1. task[t].pc \notin Before \cup After
    BY DEF Requests, BeginCreate, BeginJob, BeginSetup, Query, BeginQuery, Begin, Idle, Before,
           After
  <2> QED
    BY <2>1 DEF Accounted, Stage
<1>3. ASSUME NEW kind, NEW pc, NEW i, NEW o, NEW r, Begin(t, kind, pc, i, o, r),
             kind = "create" <=> pc = "docker_create"
      PROVE  Accounted'
  <2> DEFINE y == [kind |-> kind, pc |-> pc, id |-> i, caller |-> o, rec |-> r,
                   todo |-> NoRecords]
  <2>1. HandsOver(task[t], y)
    BY <1>1, <1>2, <1>3 DEF HandsOver, StageNext, Before, Grows
  <2> QED
    BY <1>3, <2>1, CleanStep DEF Begin
<1>4. ASSUME NEW i \in Id, NEW o \in Owner, BeginCreate(t, i, o)
      PROVE  Accounted'
  BY <1>3, <1>4 DEF BeginCreate
<1>5. ASSUME NEW i \in Id, NEW o \in Owner, NEW kind \in {"start", "stop", "delete"},
             BeginJob(t, kind, i, o)
      PROVE  Accounted'
  <2>1. kind # "create" /\ FirstPc(kind) # "docker_create"
    BY <1>5 DEF FirstPc
  <2> QED
    BY <1>3, <1>5, <2>1 DEF BeginJob
<1>6. ASSUME NEW i \in Id, NEW o \in Owner, BeginSetup(t, i, o)
      PROVE  Accounted'
  BY <1>3, <1>6 DEF BeginSetup
<1>7. ASSUME NEW scope, BeginQuery(t, scope)
      PROVE  Accounted'
  <2> DEFINE y == [IdleTask EXCEPT !.kind = "query", !.pc = "inspect",
                     !.todo = [i \in Id |-> IF i \in scope THEN store[i] ELSE NoRecord]]
  <2>1. y.kind # "create" /\ y.pc # "docker_create"
    BY DEF IdleTask
  <2>2. task' = [task EXCEPT ![t] = y]
    BY <1>7 DEF BeginQuery
  <2> HIDE DEF y
  <2> QED
    BY <1>1, <1>2, <2>1, <2>2, CleanOther
<1> QED
  BY <1>4, <1>5, <1>6, <1>7 DEF Requests, Query

-----------------------------------------------------------------------------

LEMMA CleanNext ==
  ASSUME IInv, CleanInv, [Next]_vars
  PROVE  CleanInv'
<1>1. CASE UNCHANGED vars
  BY <1>1 DEF vars, storeVars, CleanInv, Bounded, OnlySavesFailed, Accounted, Stage, AtWork,
              Present
<1>2. CASE Next
  <2>1. /\ Bounded'
        /\ OnlySavesFailed' =>
             /\ OnlySavesFailed
             /\ ~DockerFault /\ ~Spend("crash") /\ ~Spend("power")
    <3>1. ASSUME NEW class \in BudgetClass, Spend(class)
          PROVE  Bounded' /\ (OnlySavesFailed' => OnlySavesFailed /\ class \notin Fault)
      BY <3>1, SpendOne DEF IInv, CleanInv
    <3>2. Fault \subseteq BudgetClass
      BY DEF Fault, BudgetClass
    <3>3. OnlySavesFailed' => ~DockerFault /\ ~Spend("crash") /\ ~Spend("power")
      BY <3>1, <3>2 DEF DockerFault, Fault
    <3>4. CASE UNCHANGED budget
      BY <3>3, <3>4 DEF CleanInv, Bounded, OnlySavesFailed
    <3>5. CASE \E class \in BudgetClass : Spend(class)
      BY <3>1, <3>3, <3>5
    <3> QED
      BY <1>2, <3>4, <3>5, Spending
  <2>2. ASSUME OnlySavesFailed'
        PROVE  Accounted'
    <3>1. Accounted /\ ~DockerFault /\ ~Spend("crash") /\ ~Spend("power")
      BY <2>1, <2>2 DEF CleanInv
    <3>2. ASSUME NEW t \in Task, Requests(t) \/ Progress(t)
          PROVE  Accounted'
      BY <3>1, <3>2, CleanRequests, CleanCreate, CleanJob, CleanHttp DEF Progress
    <3>3. ASSUME NEW i \in Id, OutsideChange(i)
          PROVE  Accounted'
      <4>1. Grows
        BY <3>3, CommandGrows DEF OutsideChange
      <4>2. store' = store /\ task' = task
        BY <3>3 DEF OutsideChange, storeVars
      <4> QED
        BY <3>1, <4>1, <4>2 DEF Accounted, Stage, AtWork, Grows, Present, PresentNext
    <3>4. ~Restart /\ ~Reboot
      BY <3>1 DEF Restart, Reboot
    <3> QED
      BY <1>2, <3>2, <3>3, <3>4 DEF Next, Environment
  <2> QED
    BY <2>1, <2>2 DEF CleanInv
<1> QED
  BY <1>1, <1>2

\* While nothing but saves fails, create_instance leaves no container behind:
\* when its own save fails it removes the container again, and any other handler
\* finds a record of the containers it works on.  (With a bound below zero, which
\* stands for none, nothing tells that a fault has happened.)
THEOREM NothingIsOrphaned ==
  ASSUME \A class \in Fault : Budget[class] >= 0
  PROVE  Spec => []NoOrphanContainer
<1>1. Init => CleanInv
  <2> SUFFICES ASSUME Init PROVE CleanInv
    OBVIOUS
  <2>1. Bounded
    BY LifecycleAssumption DEF Init, Bounded, Fault, BudgetClass
  <2>2. \A t \in Task : Stage(task[t])
    BY DEF Init, IdleTask, Stage
  <2>3. \A i \in Id : ~Present(i)
    BY DEF Init, DaemonInit, Absent, Present
  <2> QED
    BY <2>1, <2>2, <2>3 DEF CleanInv, Accounted
<1>2. IInv /\ CleanInv /\ [Next]_vars => CleanInv'
  BY CleanNext
<1>3. CleanInv => NoOrphanContainer
  BY DEF CleanInv, Accounted, AtWork, NoOrphanContainer
<1>4. Spec => []IInv
  BY Invariance
<1> QED
  BY <1>1, <1>2, <1>3, <1>4, PTL DEF Spec

-----------------------------------------------------------------------------
(* IV. The job table                                                       *)

NoOverlap == \A t, u \in Task : t = u

\* From one lifecycle state to the next by a row of the table, or not at all.
Row(s, u) ==
    \/ u = s
    \/ s = "none" /\ u = "stopped"
    \/ s = "stopped" /\ u \in {"running", "deleted"}
    \/ s = "running" /\ u \in {"stopped", "deleted"}

\* Map n is at most one row ahead of m.
OneRow(m, n) ==
    \A i \in Id :
        /\ Row(StatusOf(m[i]), StatusOf(n[i]))
        /\ \A j \in Id : StatusOf(m[i]) # StatusOf(n[i]) /\ j # i
                => StatusOf(m[j]) = StatusOf(n[j])

\* At stage pc of a handler, the record says s and the handler's copy says u.
Expected(pc, s, u) ==
    /\ pc \in {"inspect_port", "first_save"} => s = "none" /\ u = "stopped"
    /\ pc \in {"docker_start", "inspect_started", "auto_setup"} =>
         s = "stopped" /\ u = "stopped"
    /\ pc = "docker_stop" => s = "running" /\ u = "running"
    /\ pc = "docker_rm" => s \in {"stopped", "running"} /\ u = s
    /\ pc = "setup_exec" => u = s
    /\ pc \in {"final_save", "setup_save", "refresh_port", "refresh_save"} => Row(s, u)

Viewing == {"inspect", "refresh_port", "refresh_save"}

\* What task x holds fits the map m; the copies that a query has still to
\* refresh say what m says.
InStep(x, m) ==
    /\ x.pc \in Holding => Expected(x.pc, StatusOf(m[x.id]), StatusOf(x.rec))
    /\ x.pc \in Viewing =>
        \A i \in Id : x.todo[i] # NoRecord => StatusOf(x.todo[i]) = StatusOf(m[i])

TableInv ==
    /\ OneRow(store, file)
    /\ \A t \in Task : InStep(task[t], store)

\* Task x leaves the store alone, or saves a copy that is a row ahead, or fails to.
Saves(x) ==
    \/ UNCHANGED storeVars
    \/ /\ x.id \in Id
       /\ Row(StatusOf(store[x.id]), StatusOf(x.rec))
       /\ Store!Put(x.id, x.rec) \/ Store!Expose(x.id, x.rec)

\* What every step does, besides keeping TableInv.
Advances ==
    /\ OneRow(store, store')
    /\ OneRow(store', file')
    /\ \A t \in Task : InStep(task'[t], store')

-----------------------------------------------------------------------------
(* Records *)

LEMMA Statuses ==
  ASSUME NEW r \in InstanceRecord, NEW i \in Id
  PROVE  /\ StatusOf(r) = r.state /\ r.state \in InstanceState
         /\ \A why \in LastError : StatusOf(Failed(r, why)) = r.state
         /\ \A st \in ContainerStatus :
              /\ StatusOf(Stabilized(r, st)) = r.state
              /\ Row(r.state, StatusOf(Seen(r, st)))
         /\ StatusOf(SetupRunning(r)) = r.state
         /\ StatusOf(SetupAwaitsUser(r)) = r.state
         /\ StatusOf(SetupFailed(r)) = r.state
         /\ StatusOf(Stopped(r)) = "stopped"
         /\ StatusOf(Deleted(r)) = "deleted"
         /\ Row(r.state, StatusOf(Missing(r)))
         /\ \A t \in Task : StatusOf(Started(t, r)) = "running"
         /\ \A p \in Port \cup {NoPort} : StatusOf([r EXCEPT !.ui_host_port = p]) = r.state
         /\ \A o \in Owner : StatusOf(Created(i, o)) = "stopped"
<1>1. \A q \in InstanceRecord : StatusOf(q) = q.state
  BY NoRecordAssumption DEF StatusOf
<1>2. r.state \in InstanceState
  BY DEF InstanceRecord
<1>3. \A why : Failed(r, why).state = r.state
  BY DEF InstanceRecord, Failed
<1>4. \A st : Stabilized(r, st).state = r.state
  BY DEF InstanceRecord, Stabilized
<1>5. \A st : Row(r.state, Seen(r, st).state)
  <2>1. \A st : Seen(r, st).state = IF r.state = "deleted" THEN r.state
                                   ELSE IF st = "running" THEN "running" ELSE "stopped"
    BY DEF InstanceRecord, Seen
  <2> QED
    BY <1>2, <2>1 DEF Row, InstanceState
<1>6. /\ SetupRunning(r).state = r.state
      /\ SetupAwaitsUser(r).state = r.state
      /\ SetupFailed(r).state = r.state
  BY DEF InstanceRecord, SetupRunning, SetupAwaitsUser, SetupFailed
<1>7. /\ Stopped(r).state = "stopped"
      /\ Deleted(r).state = "deleted"
  BY DEF InstanceRecord, Stopped, Deleted
<1>8. Row(r.state, Missing(r).state)
  <2>1. Missing(r).state = IF r.state = "deleted" THEN r.state ELSE "stopped"
    BY DEF InstanceRecord, Missing
  <2> QED
    BY <1>2, <2>1 DEF Row, InstanceState
<1>9. \A t \in Task : Started(t, r).state = "running"
  BY DEF InstanceRecord, Started
<1>10. \A p : [r EXCEPT !.ui_host_port = p].state = r.state
  BY DEF InstanceRecord
<1>11. \A o \in Owner : Created(i, o).state = "stopped"
  BY DEF Created
<1>12. \A o \in Owner : Created(i, o) \in InstanceRecord
  BY RecordTypes
<1>13. \A why \in LastError : StatusOf(Failed(r, why)) = r.state
  BY <1>1, <1>3, RecordTypes
<1>14. \A st \in ContainerStatus : StatusOf(Stabilized(r, st)) = r.state
  BY <1>1, <1>4, RecordTypes
<1>15. \A st \in ContainerStatus : Row(r.state, StatusOf(Seen(r, st)))
  BY <1>1, <1>5, RecordTypes
<1>16. /\ StatusOf(SetupRunning(r)) = r.state
       /\ StatusOf(SetupAwaitsUser(r)) = r.state
       /\ StatusOf(SetupFailed(r)) = r.state
       /\ StatusOf(Stopped(r)) = "stopped"
       /\ StatusOf(Deleted(r)) = "deleted"
       /\ Row(r.state, StatusOf(Missing(r)))
  BY <1>1, <1>6, <1>7, <1>8, RecordTypes
<1>17. \A t \in Task : StatusOf(Started(t, r)) = "running"
  BY <1>1, <1>9, RecordTypes
<1>18. \A p \in Port \cup {NoPort} : StatusOf([r EXCEPT !.ui_host_port = p]) = r.state
  BY <1>1, <1>10, RecordTypes
<1>19. \A o \in Owner : StatusOf(Created(i, o)) = "stopped"
  BY <1>1, <1>11, <1>12
<1> QED
  BY <1>1, <1>2, <1>13, <1>14, <1>15, <1>16, <1>17, <1>18, <1>19

-----------------------------------------------------------------------------
(* How handlers go on. *)

\* The only handler goes on as y.
LEMMA TableStep ==
  ASSUME IInv, NoOverlap, TableInv, NEW t \in Task, NEW y, task' = [task EXCEPT ![t] = y],
         Saves(task[t]), InStep(y, store')
  PROVE  Advances
<1>1. Store!TypeOK /\ task \in [Task -> TaskState]
  BY DEF IInv, TypeOK
<1>2. \A u \in Task : InStep(task'[u], store')
  BY <1>1 DEF NoOverlap
<1>3. \A m : OneRow(m, m)
  BY DEF OneRow, Row
<1>4. CASE UNCHANGED storeVars
  <2>1. store' = store /\ file' = file
    BY <1>4 DEF storeVars
  <2> QED
    BY <1>2, <1>3, <2>1 DEF Advances, TableInv
<1>5. ASSUME NEW i \in Id, NEW r, Row(StatusOf(store[i]), StatusOf(r))
      PROVE  OneRow(store, [store EXCEPT ![i] = r])
  <2>1. \A j \in Id : [store EXCEPT ![i] = r][j] = IF j = i THEN r ELSE store[j]
    BY <1>1 DEF Store!TypeOK, Store!Map
  <2> QED
    BY <1>5, <2>1 DEF OneRow, Row
<1>6. ASSUME NEW i \in Id, NEW r, Row(StatusOf(store[i]), StatusOf(r)),
             Store!Put(i, r) \/ Store!Expose(i, r)
      PROVE  OneRow(store, store') /\ OneRow(store', file')
  BY <1>3, <1>5, <1>6 DEF Store!Put, Store!Expose
<1> QED
  BY <1>2, <1>4, <1>6 DEF Saves, Advances

LEMMA TableFinish ==
  ASSUME IInv, NoOverlap, TableInv, NEW t \in Task, Finish(t), Saves(task[t])
  PROVE  Advances
<1>1. InStep(IdleTask, store')
  BY DEF InStep, IdleTask, Holding, Viewing
<1>2. task' = [task EXCEPT ![t] = IdleTask]
  BY DEF Finish
<1> QED
  BY <1>1, <1>2, TableStep

LEMMA TableGoto ==
  ASSUME IInv, NoOverlap, TableInv, NEW t \in Task, NEW pc, NEW r, Goto(t, pc, r),
         pc \notin Viewing, Saves(task[t]),
         Expected(pc, StatusOf(store'[task[t].id]), StatusOf(r))
  PROVE  Advances
<1> DEFINE y == [task[t] EXCEPT !.pc = pc, !.rec = r]
<1>1. task[t] \in TaskState
  BY DEF IInv, TypeOK
<1>2. y.pc = pc /\ y.rec = r /\ y.id = task[t].id
  BY <1>1 DEF TaskState
<1>3. task' = [task EXCEPT ![t] = y]
  BY DEF Goto, IInv, TypeOK, TaskState
<1> HIDE DEF y
<1>4. InStep(y, store')
  BY <1>2 DEF InStep
<1> QED
  BY <1>3, <1>4, TableStep

\* A handler that holds a copy is where it is expected to be.
LEMMA TableHeld ==
  ASSUME IInv, TableInv, NEW t \in Task, task[t].pc \in Holding
  PROVE  /\ task[t].id \in Id /\ task[t].rec \in InstanceRecord
         /\ StatusOf(task[t].rec) = task[t].rec.state
         /\ Expected(task[t].pc, StatusOf(store[task[t].id]), StatusOf(task[t].rec))
<1>1. task[t].id \in Id /\ task[t].rec \in InstanceRecord
  BY Held
<1> QED
  BY <1>1, Statuses DEF TableInv, InStep

Saving == {"first_save", "final_save", "setup_save", "refresh_save"}

\* A save moves the record by a row, a failed one does not move it.
LEMMA TableSaves ==
  ASSUME IInv, TableInv, NEW t \in Task, task[t].pc \in Saving,
         Save(task[t].id, task[t].rec) \/ SaveFails(task[t].id, task[t].rec)
  PROVE  /\ Saves(task[t])
         /\ Save(task[t].id, task[t].rec) =>
              /\ store'[task[t].id] = task[t].rec
              /\ \A j \in Id : j # task[t].id => store'[j] = store[j]
<1>1. task[t].pc \in Holding
  BY DEF Saving, Holding, Pc
<1>2. task[t].id \in Id
  BY <1>1, Held
<1>3. Row(StatusOf(store[task[t].id]), StatusOf(task[t].rec))
  BY <1>1, TableHeld DEF Expected, Saving, Row
<1>4. store \in [Id -> InstanceRecord \cup {NoRecord}]
  BY DEF IInv, TypeOK, Store!TypeOK, Store!Map
<1>5. Saves(task[t])
  BY <1>2, <1>3 DEF Saves, Save, SaveFails
<1> QED
  BY <1>2, <1>4, <1>5 DEF Save, Store!Put

-----------------------------------------------------------------------------
(* The steps. *)

LEMMA CreatedType ==
  ASSUME NEW i \in Id, NEW o \in Owner
  PROVE  Created(i, o) \in InstanceRecord
  BY DEF Created, InstanceRecord, InstanceState, ContainerStatus, SetupStatus, LastError

LEMMA TableCreate ==
  ASSUME IInv, NoOverlap, TableInv, NEW t \in Task, CreateSteps(t)
  PROVE  Advances
<1> DEFINE i == task[t].id
<1>1. CASE DockerCreate(t)
  <2>1. UNCHANGED storeVars /\ store' = store /\ task[t].pc = "docker_create"
    BY <1>1 DEF DockerCreate, At, storeVars
  <2>2. i \in Id /\ task[t].caller \in Owner /\ store[i] = NoRecord
    BY <2>1 DEF IInv, Sound, Good, Creating, Maps
  <2>3. CASE Finish(t)
    BY <2>1, <2>3, TableFinish DEF Saves
  <2>4. ASSUME NEW pc \in {"inspect_port", "first_save"}, Goto(t, pc, Created(i, task[t].caller))
        PROVE  Advances
    <3>1. Created(i, task[t].caller) \in InstanceRecord
      BY <2>2, CreatedType
    <3>2. StatusOf(Created(i, task[t].caller)) = "stopped" /\ StatusOf(store'[i]) = "none"
      BY <2>1, <2>2, <3>1, Statuses DEF StatusOf
    <3>3. Expected(pc, StatusOf(store'[i]), StatusOf(Created(i, task[t].caller)))
      BY <3>2 DEF Expected
    <3>4. Saves(task[t]) /\ pc \notin Viewing
      BY <2>1 DEF Saves, Viewing
    <3> QED
      BY <2>4, <3>3, <3>4, TableGoto
  <2> QED
    BY <1>1, <2>3, <2>4 DEF DockerCreate
<1>2. CASE InspectNewPort(t)
  <2> DEFINE r == [task[t].rec EXCEPT !.ui_host_port = ctr[i].port]
  <2>1. UNCHANGED storeVars /\ store' = store /\ task[t].pc = "inspect_port"
    BY <1>2 DEF InspectNewPort, At, storeVars
  <2>2. task[t].pc \in Holding
    BY <2>1 DEF Holding, Pc
  <2>3. /\ i \in Id /\ task[t].rec \in InstanceRecord
        /\ StatusOf(store[i]) = "none" /\ task[t].rec.state = "stopped"
    BY <2>1, <2>2, TableHeld DEF Expected
  <2>4. ctr[i].port \in Port \cup {NoPort}
    BY <2>3 DEF IInv, TypeOK, DaemonTypeOK, Container
  <2>5. StatusOf(r) = "stopped"
    BY <2>3, <2>4, Statuses
  <2>6. Saves(task[t])
    BY <2>1 DEF Saves
  <2> HIDE DEF r
  <2>7. Expected("first_save", StatusOf(store'[i]), StatusOf(r))
    BY <2>1, <2>3, <2>5 DEF Expected
  <2>8. Goto(t, "first_save", r) \/ Finish(t)
    BY <1>2 DEF InspectNewPort, r
  <2> QED
    BY <2>6, <2>7, <2>8, TableGoto, TableFinish DEF Viewing
<1>3. CASE FirstSave(t)
  <2> DEFINE r == task[t].rec
  <2>1. task[t].pc \in Holding /\ task[t].pc \in Saving /\ task[t].pc = "first_save"
    BY <1>3 DEF FirstSave, At, Holding, Pc, Saving
  <2>2. StatusOf(r) = "stopped"
    BY <2>1, TableHeld DEF Expected
  <2>3. /\ Saves(task[t])
        /\ Save(i, r) => store'[i] = r
    BY <1>3, <2>1, TableSaves DEF FirstSave
  <2>4. CASE Save(i, r) /\ Goto(t, "docker_start", r)
    <3>1. Expected("docker_start", StatusOf(store'[i]), StatusOf(r))
      BY <2>2, <2>3, <2>4 DEF Expected
    <3> QED
      BY <2>3, <2>4, <3>1, TableGoto DEF Viewing
  <2>5. CASE Goto(t, "cleanup", r)
    <3>1. Expected("cleanup", StatusOf(store'[i]), StatusOf(r))
      BY DEF Expected
    <3> QED
      BY <2>3, <2>5, <3>1, TableGoto DEF Viewing
  <2> QED
    BY <1>3, <2>3, <2>4, <2>5, TableFinish DEF FirstSave
<1>4. CASE Cleanup(t)
  BY <1>4, TableFinish DEF Cleanup, Saves
<1> QED
  BY <1>1, <1>2, <1>3, <1>4 DEF CreateSteps

\* A handler whose copy is where the record is, goes on to save one a row ahead.
LEMMA TableAhead ==
  ASSUME IInv, NoOverlap, TableInv, NEW t \in Task, task[t].pc \in Holding, UNCHANGED storeVars,
         NEW pc \in {"final_save", "setup_save"}, NEW r, Goto(t, pc, r),
         Row(StatusOf(store[task[t].id]), StatusOf(r))
  PROVE  Advances
<1>1. store' = store /\ Saves(task[t])
  BY DEF storeVars, Saves
<1>2. Expected(pc, StatusOf(store'[task[t].id]), StatusOf(r))
  BY <1>1 DEF Expected
<1> QED
  BY <1>1, <1>2, TableGoto DEF Viewing

\* An auto-start, or a start job.
LEMMA TableStart ==
  ASSUME IInv, NoOverlap, TableInv, NEW t \in Task,
         DockerStart(t) \/ InspectStarted(t) \/ AutoSetupExec(t)
  PROVE  Advances
<1> DEFINE i == task[t].id
           r == task[t].rec
           seen == Stabilized(r, ctr[i].status)
<1>1. /\ UNCHANGED storeVars /\ store' = store
      /\ task[t].pc \in {"docker_start", "inspect_started", "auto_setup"}
  BY DEF DockerStart, InspectStarted, AutoSetupExec, At, storeVars
<1>2. task[t].pc \in Holding
  BY <1>1 DEF Holding, Pc
<1>3. i \in Id /\ r \in InstanceRecord /\ StatusOf(store[i]) = "stopped" /\ r.state = "stopped"
      /\ StatusOf(r) = "stopped"
  BY <1>1, <1>2, TableHeld DEF Expected
<1>4. Saves(task[t])
  BY <1>1 DEF Saves
<1>5. StatusOf(Failed(r, "startup")) = "stopped"
  BY <1>3, Statuses DEF LastError
<1>6. \A q \in InstanceRecord :
        /\ StatusOf(Started(t, q)) = "running"
        /\ StatusOf(Started(t, SetupAwaitsUser(q))) = "running"
        /\ StatusOf(Started(t, SetupRunning(q))) = "running"
        /\ StatusOf(Started(t, SetupFailed(q))) = "running"
  BY <1>3, Statuses, RecordTypes
<1>7. ASSUME NEW q, Goto(t, "final_save", q), StatusOf(q) \in {"stopped", "running"}
      PROVE  Advances
  <2>1. Row(StatusOf(store[i]), StatusOf(q))
    BY <1>3, <1>7 DEF Row
  <2> QED
    BY <1>1, <1>2, <1>7, <2>1, TableAhead
<1>8. ASSUME NEW pc \in {"inspect_started", "auto_setup"}, NEW q, Goto(t, pc, q),
             StatusOf(q) = "stopped"
      PROVE  Advances
  <2>1. Expected(pc, StatusOf(store'[i]), StatusOf(q))
    BY <1>1, <1>3, <1>8 DEF Expected
  <2> QED
    BY <1>4, <1>8, <2>1, TableGoto DEF Viewing
<1>9. CASE DockerStart(t)
  BY <1>3, <1>5, <1>7, <1>8, <1>9 DEF DockerStart
<1>10. CASE InspectStarted(t)
  <2>1. Present(i) => ctr[i].status \in ContainerStatus
    BY <1>3 DEF IInv, TypeOK, DaemonTypeOK, Container, Present, ContainerStatus
  <2>2. Present(i) => seen \in InstanceRecord /\ StatusOf(seen) = "stopped"
    BY <1>3, <2>1, Statuses, RecordTypes
  <2>3. Running(i) => Present(i)
    BY DEF Running, Present
  <2> HIDE DEF seen
  <2>4. Present(i) => StatusOf(Started(t, seen)) = "running"
                      /\ StatusOf(Started(t, SetupAwaitsUser(seen))) = "running"
    BY <1>6, <2>2
  <2>5. \/ Goto(t, "final_save", Failed(r, "startup"))
        \/ Present(i) /\ Goto(t, "final_save", seen)
        \/ Running(i) /\ Goto(t, "auto_setup", seen)
        \/ Running(i) /\ Goto(t, "final_save", Started(t, SetupAwaitsUser(seen)))
        \/ Running(i) /\ Goto(t, "final_save", Started(t, seen))
    BY <1>10 DEF InspectStarted, seen
  <2> QED
    BY <1>5, <1>7, <1>8, <2>2, <2>3, <2>4, <2>5
<1>11. CASE AutoSetupExec(t)
  BY <1>3, <1>6, <1>7, <1>11 DEF AutoSetupExec
<1> QED
  BY <1>9, <1>10, <1>11

LEMMA TableStopDelete ==
  ASSUME IInv, NoOverlap, TableInv, NEW t \in Task, DockerStop(t) \/ DockerRemove(t)
  PROVE  Advances
<1> DEFINE i == task[t].id
           r == task[t].rec
<1>1. /\ UNCHANGED storeVars
      /\ task[t].pc = IF DockerStop(t) THEN "docker_stop" ELSE "docker_rm"
  BY DEF DockerStop, DockerRemove, At
<1>2. task[t].pc \in Holding
  BY <1>1 DEF Holding, Pc
<1>3. i \in Id /\ r \in InstanceRecord /\ StatusOf(store[i]) = r.state
      /\ (DockerStop(t) => r.state = "running")
      /\ r.state \in {"stopped", "running"}
  BY <1>1, <1>2, TableHeld DEF Expected
<1>4. /\ StatusOf(Failed(r, "docker")) = r.state
      /\ StatusOf(Stopped(r)) = "stopped" /\ StatusOf(Deleted(r)) = "deleted"
  BY <1>3, Statuses DEF LastError
<1>5. /\ Row(StatusOf(store[i]), StatusOf(Failed(r, "docker")))
      /\ DockerStop(t) => Row(StatusOf(store[i]), StatusOf(Stopped(r)))
      /\ Row(StatusOf(store[i]), StatusOf(Deleted(r)))
  BY <1>3, <1>4 DEF Row
<1>6. \/ Goto(t, "final_save", Failed(r, "docker"))
      \/ DockerStop(t) /\ Goto(t, "final_save", Stopped(r))
      \/ Goto(t, "final_save", Deleted(r))
  BY DEF DockerStop, DockerRemove
<1> QED
  BY <1>1, <1>2, <1>5, <1>6, TableAhead

LEMMA TableFinalSave ==
  ASSUME IInv, NoOverlap, TableInv, NEW t \in Task, FinalSave(t)
  PROVE  Advances
<1>1. task[t].pc \in Saving
  BY DEF FinalSave, At, Saving
<1> QED
  BY <1>1, TableSaves, TableFinish DEF FinalSave

LEMMA TableSetup ==
  ASSUME IInv, NoOverlap, TableInv, NEW t \in Task, SetupExec(t) \/ SetupSave(t) \/ SetupView(t)
  PROVE  Advances
<1> DEFINE i == task[t].id
           r == task[t].rec
<1>1. CASE SetupExec(t)
  <2>1. UNCHANGED storeVars /\ task[t].pc = "setup_exec" /\ Saves(task[t])
    BY <1>1 DEF SetupExec, At, Saves
  <2>2. task[t].pc \in Holding
    BY <2>1 DEF Holding, Pc
  <2>3. i \in Id /\ r \in InstanceRecord /\ StatusOf(store[i]) = r.state
    BY <2>1, <2>2, TableHeld DEF Expected
  <2>4. Row(StatusOf(store[i]), StatusOf(SetupRunning(r)))
    BY <2>3, Statuses DEF Row
  <2>5. Goto(t, "setup_save", SetupRunning(r)) \/ Finish(t)
    BY <1>1 DEF SetupExec
  <2> QED
    BY <2>1, <2>2, <2>4, <2>5, TableAhead, TableFinish
<1>2. CASE SetupSave(t)
  <2>1. task[t].pc \in Saving
    BY <1>2 DEF SetupSave, At, Saving
  <2>2. Saves(task[t])
    BY <1>2, <2>1, TableSaves DEF SetupSave
  <2>3. Expected("setup_view", StatusOf(store'[i]), StatusOf(NoRecord)) /\ "setup_view" \notin Viewing
    BY DEF Expected, Viewing
  <2>4. Goto(t, "setup_view", NoRecord) \/ Finish(t)
    BY <1>2 DEF SetupSave
  <2> QED
    BY <2>2, <2>3, <2>4, TableGoto, TableFinish
<1>3. CASE SetupView(t)
  <2> DEFINE y == [task[t] EXCEPT !.pc = "inspect", !.todo = [NoRecords EXCEPT ![i] = store[i]]]
  <2>1. task[t] \in TaskState /\ store' = store /\ Saves(task[t])
    BY <1>3 DEF IInv, TypeOK, SetupView, storeVars, Saves
  <2>2. /\ y.pc = "inspect"
        /\ \A j \in Id : y.todo[j] # NoRecord => y.todo[j] = store[j]
    BY <2>1 DEF TaskState, NoRecords
  <2>3. task' = [task EXCEPT ![t] = y]
    BY <1>3 DEF SetupView, IInv, TypeOK, TaskState
  <2> HIDE DEF y
  <2>4. InStep(y, store')
    BY <2>1, <2>2 DEF InStep, Holding
  <2> QED
    BY <2>1, <2>3, <2>4, TableStep
<1> QED
  BY <1>1, <1>2, <1>3

\* The copies that a query holds say what the store says.
LEMMA TableView ==
  ASSUME IInv, TableInv, NEW t \in Task, task[t].pc \in Viewing, NEW i \in Id,
         task[t].todo[i] # NoRecord
  PROVE  /\ task[t].todo[i] \in InstanceRecord
         /\ StatusOf(store[i]) = task[t].todo[i].state
<1>1. task[t].todo[i] \in InstanceRecord
  BY DEF IInv, TypeOK, TaskState, MaybeRecord
<1>2. StatusOf(task[t].todo[i]) = task[t].todo[i].state
  BY <1>1, Statuses
<1> QED
  BY <1>1, <1>2 DEF TableInv, InStep

LEMMA TableNextView ==
  ASSUME IInv, NoOverlap, TableInv, NEW t \in Task, task[t].pc \in Viewing, NEW i \in Id,
         NextView(t, i), Saves(task[t]), \A j \in Id : j # i => store'[j] = store[j]
  PROVE  Advances
<1> DEFINE rest == [task[t].todo EXCEPT ![i] = NoRecord]
           y == [task[t] EXCEPT !.pc = "inspect", !.rec = NoRecord, !.todo = rest]
<1>1. task[t] \in TaskState
  BY DEF IInv, TypeOK
<1>2. CASE rest = NoRecords
  <2>1. Finish(t)
    BY <1>2 DEF NextView, Finish
  <2> QED
    BY <2>1, TableFinish
<1>3. CASE rest # NoRecords
  <2>1. task' = [task EXCEPT ![t] = y]
    BY <1>3 DEF NextView, IInv, TypeOK, TaskState
  <2>2. /\ y.pc = "inspect"
        /\ \A j \in Id : y.todo[j] # NoRecord => j # i /\ y.todo[j] = task[t].todo[j]
    BY <1>1 DEF TaskState
  <2> HIDE DEF y
  <2>3. InStep(y, store')
    BY <2>2 DEF InStep, Holding, TableInv
  <2> QED
    BY <2>1, <2>3, TableStep
<1> QED
  BY <1>2, <1>3

\* The copy of i, refreshed, is in the handler's hands.
LEMMA TableHolds ==
  ASSUME IInv, NoOverlap, TableInv, NEW t \in Task, task[t].pc \in Viewing, NEW i \in Id,
         UNCHANGED storeVars, NEW r, NEW pc \in {"refresh_port", "refresh_save"},
         task' = [task EXCEPT ![t].pc = pc, ![t].id = i, ![t].rec = r],
         Row(StatusOf(store[i]), StatusOf(r))
  PROVE  Advances
<1> DEFINE y == [task[t] EXCEPT !.pc = pc, !.id = i, !.rec = r]
<1>1. task[t] \in TaskState /\ store' = store /\ Saves(task[t])
  BY DEF IInv, TypeOK, storeVars, Saves
<1>2. y.pc = pc /\ y.id = i /\ y.rec = r /\ y.todo = task[t].todo
  BY <1>1 DEF TaskState
<1>3. task' = [task EXCEPT ![t] = y]
  BY DEF IInv, TypeOK, TaskState
<1>4. Expected(pc, StatusOf(store'[i]), StatusOf(r))
  BY <1>1 DEF Expected
<1>5. \A j \in Id : task[t].todo[j] # NoRecord => StatusOf(task[t].todo[j]) = StatusOf(store'[j])
  BY <1>1 DEF TableInv, InStep
<1> HIDE DEF y
<1>6. InStep(y, store')
  BY <1>2, <1>4, <1>5 DEF InStep
<1> QED
  BY <1>1, <1>3, <1>6, TableStep

LEMMA TableRefreshed ==
  ASSUME IInv, NoOverlap, TableInv, NEW t \in Task, task[t].pc \in Viewing, NEW i \in Id,
         UNCHANGED storeVars, NEW r, Refreshed(t, i, r), Row(StatusOf(store[i]), StatusOf(r))
  PROVE  Advances
<1>1. Saves(task[t]) /\ \A j \in Id : store'[j] = store[j]
  BY DEF Saves, storeVars
<1> QED
  BY <1>1, TableNextView, TableHolds DEF Refreshed

LEMMA TableInspect ==
  ASSUME IInv, NoOverlap, TableInv, NEW t \in Task, Inspect(t)
  PROVE  Advances
<1>1. UNCHANGED storeVars /\ task[t].pc \in Viewing
  BY DEF Inspect, storeVars, At, Viewing
<1>2. PICK i \in Id :
        /\ task[t].todo[i] # NoRecord
        /\ \E r : /\ \/ Present(i) /\ r = Seen(task[t].todo[i], ctr[i].status)
                    \/ r = Missing(task[t].todo[i])
                    \/ r = Failed(task[t].todo[i], "docker")
                 /\ \/ Refreshed(t, i, r)
                    \/ task' = [task EXCEPT ![t].pc = "refresh_port", ![t].id = i, ![t].rec = r]
  BY DEF Inspect
<1> DEFINE copy == task[t].todo[i]
<1>3. copy \in InstanceRecord /\ StatusOf(store[i]) = copy.state
  BY <1>1, <1>2, TableView
<1>4. Present(i) => ctr[i].status \in ContainerStatus
  BY DEF IInv, TypeOK, DaemonTypeOK, Container, Present, ContainerStatus
<1>5. /\ Present(i) => Row(StatusOf(store[i]), StatusOf(Seen(copy, ctr[i].status)))
      /\ Row(StatusOf(store[i]), StatusOf(Missing(copy)))
      /\ StatusOf(Failed(copy, "docker")) = StatusOf(store[i])
  BY <1>3, <1>4, Statuses DEF LastError
<1>6. Row(StatusOf(store[i]), StatusOf(Failed(copy, "docker")))
  BY <1>5 DEF Row
<1>7. PICK r :
        /\ Row(StatusOf(store[i]), StatusOf(r))
        /\ \/ Refreshed(t, i, r)
           \/ task' = [task EXCEPT ![t].pc = "refresh_port", ![t].id = i, ![t].rec = r]
  BY <1>2, <1>5, <1>6
<1> QED
  BY <1>1, <1>7, TableRefreshed, TableHolds

LEMMA TableInspectPort ==
  ASSUME IInv, NoOverlap, TableInv, NEW t \in Task, InspectPort(t)
  PROVE  Advances
<1> DEFINE i == task[t].id
           r == [task[t].rec EXCEPT !.ui_host_port = ctr[i].port]
<1>1. /\ UNCHANGED storeVars /\ Saves(task[t])
      /\ task[t].pc = "refresh_port" /\ task[t].pc \in Viewing /\ task[t].pc \in Holding
  BY DEF InspectPort, At, Viewing, Holding, Pc, Saves
<1>2. /\ i \in Id /\ task[t].rec \in InstanceRecord
      /\ StatusOf(task[t].rec) = task[t].rec.state
      /\ Row(StatusOf(store[i]), StatusOf(task[t].rec))
  BY <1>1, TableHeld DEF Expected
<1>3. ctr[i].port \in Port \cup {NoPort}
  BY <1>2 DEF IInv, TypeOK, DaemonTypeOK, Container
<1>4. StatusOf(r) = StatusOf(task[t].rec)
  BY <1>2, <1>3, Statuses
<1>5. Refreshed(t, i, r) \/ Finish(t)
  BY DEF InspectPort
<1> HIDE DEF r
<1> QED
  BY <1>1, <1>2, <1>4, <1>5, TableRefreshed, TableFinish

LEMMA TableRefreshSave ==
  ASSUME IInv, NoOverlap, TableInv, NEW t \in Task, RefreshSave(t)
  PROVE  Advances
<1>1. task[t].pc \in Saving /\ task[t].pc \in Viewing /\ task[t].pc \in Holding
  BY DEF RefreshSave, At, Saving, Viewing, Holding, Pc
<1>2. /\ task[t].id \in Id /\ Saves(task[t])
      /\ Save(task[t].id, task[t].rec) =>
           \A j \in Id : j # task[t].id => store'[j] = store[j]
  BY <1>1, TableSaves, Held DEF RefreshSave
<1> QED
  BY <1>1, <1>2, TableNextView, TableFinish DEF RefreshSave

\* A new handler begins where the record is.
LEMMA TableBegin ==
  ASSUME IInv, NoOverlap, TableInv, NEW t \in Task, NEW kind, NEW pc, NEW i \in Id, NEW o, NEW r,
         Begin(t, kind, pc, i, o, r), UNCHANGED storeVars, pc \notin Viewing,
         Expected(pc, StatusOf(store[i]), StatusOf(r))
  PROVE  Advances
<1> DEFINE y == [kind |-> kind, pc |-> pc, id |-> i, caller |-> o, rec |-> r, todo |-> NoRecords]
<1>1. store' = store /\ Saves(task[t])
  BY DEF storeVars, Saves
<1>2. InStep(y, store')
  BY <1>1 DEF InStep
<1> QED
  BY <1>1, <1>2, TableStep DEF Begin

LEMMA TableRequests ==
  ASSUME IInv, NoOverlap, TableInv, NEW t \in Task, Requests(t)
  PROVE  Advances
<1>1. UNCHANGED storeVars
  BY DEF Requests, BeginCreate, BeginJob, BeginSetup, Query, BeginQuery, storeVars
<1>2. ASSUME NEW i \in Id, NEW o \in Owner, BeginCreate(t, i, o)
      PROVE  Advances
  <2>1. Expected("docker_create", StatusOf(store[i]), StatusOf(NoRecord))
    BY DEF Expected
  <2> QED
    BY <1>1, <1>2, <2>1, TableBegin DEF BeginCreate, Viewing
<1>3. ASSUME NEW i \in Id, NEW r, store[i] # NoRecord, r = store[i]
      PROVE  r \in InstanceRecord /\ StatusOf(store[i]) = r.state
  <2>1. store[i] \in InstanceRecord
    BY <1>3 DEF IInv, TypeOK, Store!TypeOK, Store!Map
  <2> QED
    BY <1>3, <2>1, Statuses
<1>4. ASSUME NEW i \in Id, NEW o \in Owner, NEW kind \in {"start", "stop", "delete"},
             BeginJob(t, kind, i, o)
      PROVE  Advances
  <2>1. /\ store[i] # NoRecord
        /\ \/ kind = "start" /\ store[i].state = "stopped"
           \/ kind = "stop" /\ store[i].state = "running"
           \/ kind = "delete" /\ store[i].state # "deleted"
        /\ Begin(t, kind, FirstPc(kind), i, o, store[i])
    BY <1>4 DEF BeginJob, MayBegin
  <2>2. StatusOf(store[i]) = store[i].state /\ store[i].state \in InstanceState
    BY <1>3, <2>1, Statuses
  <2>3. FirstPc(kind) = IF kind = "start" THEN "docker_start"
                        ELSE IF kind = "stop" THEN "docker_stop" ELSE "docker_rm"
    BY DEF FirstPc
  <2>4. Expected(FirstPc(kind), StatusOf(store[i]), StatusOf(store[i]))
    BY <2>1, <2>2, <2>3 DEF Expected, InstanceState
  <2>5. FirstPc(kind) \notin Viewing
    BY <2>3 DEF Viewing
  <2> QED
    BY <1>1, <2>1, <2>4, <2>5, TableBegin
<1>5. ASSUME NEW i \in Id, NEW o \in Owner, BeginSetup(t, i, o)
      PROVE  Advances
  <2>1. store[i] # NoRecord
    BY <1>5 DEF BeginSetup
  <2>2. StatusOf(SetupAwaitsUser(store[i])) = StatusOf(store[i])
    BY <1>3, <2>1, Statuses
  <2>3. /\ Expected("setup_exec", StatusOf(store[i]), StatusOf(store[i]))
        /\ Expected("setup_save", StatusOf(store[i]), StatusOf(SetupAwaitsUser(store[i])))
        /\ "setup_exec" \notin Viewing /\ "setup_save" \notin Viewing
    BY <2>2 DEF Expected, Row, Viewing
  <2>4. \/ Begin(t, "setup", "setup_exec", i, o, store[i])
        \/ Begin(t, "setup", "setup_save", i, o, SetupAwaitsUser(store[i]))
    BY <1>5 DEF BeginSetup
  <2> QED
    BY <1>1, <2>3, <2>4, TableBegin
<1>6. ASSUME NEW scope, BeginQuery(t, scope)
      PROVE  Advances
  <2> DEFINE copies == [i \in Id |-> IF i \in scope THEN store[i] ELSE NoRecord]
             y == [IdleTask EXCEPT !.kind = "query", !.pc = "inspect", !.todo = copies]
  <2>1. store' = store /\ Saves(task[t])
    BY <1>1 DEF storeVars, Saves
  <2>2. y.pc = "inspect" /\ \A i \in Id : y.todo[i] # NoRecord => y.todo[i] = store[i]
    BY DEF IdleTask
  <2>3. task' = [task EXCEPT ![t] = y]
    BY <1>6 DEF BeginQuery
  <2> HIDE DEF y
  <2>4. InStep(y, store')
    BY <2>1, <2>2 DEF InStep, Holding
  <2> QED
    BY <2>1, <2>3, <2>4, TableStep
<1> QED
  BY <1>2, <1>4, <1>5, <1>6 DEF Requests, Query

-----------------------------------------------------------------------------
(* The invariant, and the job table *)

\* A new process serves the file, and has no handlers.
LEMMA TableRestart ==
  ASSUME TableInv, Restart
  PROVE  Advances
<1>1. store' = file /\ file' = file
  BY DEF Restart, Store!ProcessRestart
<1>2. OneRow(store, store') /\ OneRow(store', file')
  BY <1>1 DEF TableInv, OneRow, Row
<1>3. \A t \in Task : task'[t] = IdleTask
  BY DEF Restart
<1>4. \A t \in Task : InStep(task'[t], store')
  BY <1>3 DEF InStep, IdleTask, Holding, Viewing
<1> QED
  BY <1>2, <1>4 DEF Advances

LEMMA TableNext ==
  ASSUME IInv, NoOverlap, TableInv, budget["power"] = 0, [Next]_vars
  PROVE  Advances /\ budget'["power"] = 0
<1>1. ASSUME UNCHANGED <<store, file, task>>
      PROVE  Advances
  <2>1. \A m : OneRow(m, m)
    BY DEF OneRow, Row
  <2> QED
    BY <1>1, <2>1 DEF TableInv, Advances
<1>2. ASSUME NEW t \in Task, Requests(t) \/ Progress(t)
      PROVE  Advances
  BY <1>2, TableRequests, TableCreate, TableStart, TableStopDelete, TableFinalSave, TableSetup,
     TableInspect, TableInspectPort, TableRefreshSave DEF Progress, JobSteps, HttpSteps
<1>3. ASSUME NEW i \in Id, OutsideChange(i)
      PROVE  Advances
  BY <1>1, <1>3 DEF OutsideChange, storeVars
<1>4. ~Spend("power")
  BY DEF Spend
<1>5. Advances
  BY <1>1, <1>2, <1>3, <1>4, TableRestart DEF Next, Environment, Reboot, vars, storeVars
<1>6. ASSUME NEW class \in BudgetClass, Spend(class)
      PROVE  budget'["power"] = 0
  <2>1. budget \in [BudgetClass -> Int] /\ "power" \in BudgetClass /\ class # "power"
    BY <1>4, <1>6 DEF IInv, TypeOK, BudgetClass
  <2> QED
    BY <1>6, <2>1 DEF Spend
<1>7. budget'["power"] = 0
  BY <1>6, Spending DEF vars
<1> QED
  BY <1>5, <1>7

\* Two maps that are at most a row apart are a step of the contract apart.
LEMMA RowOfTable ==
  ASSUME OneRow(store, store')
  PROVE  [Contract!Next]_[i \in Id |-> StatusOf(store[i])]
<1> DEFINE was == [i \in Id |-> StatusOf(store[i])]
           is == [i \in Id |-> StatusOf(store'[i])]
<1>1. CASE \A i \in Id : StatusOf(store[i]) = StatusOf(store'[i])
  BY <1>1
<1>2. ASSUME NEW i \in Id, StatusOf(store[i]) # StatusOf(store'[i])
      PROVE  Contract!Next
  <2>1. \A j \in Id : j # i => StatusOf(store[j]) = StatusOf(store'[j])
    BY <1>2 DEF OneRow
  <2>2. is = [was EXCEPT ![i] = StatusOf(store'[i])] /\ was[i] = StatusOf(store[i])
    BY <2>1
  <2>3. Row(was[i], StatusOf(store'[i])) /\ was[i] # StatusOf(store'[i])
    BY <1>2, <2>2 DEF OneRow
  <2> HIDE DEF was, is
  <2>4. \/ was[i] \in {"none"} /\ StatusOf(store'[i]) = "stopped"
        \/ was[i] \in {"stopped"} /\ StatusOf(store'[i]) = "running"
        \/ was[i] \in {"running"} /\ StatusOf(store'[i]) = "stopped"
        \/ was[i] \in {"stopped", "running"} /\ StatusOf(store'[i]) = "deleted"
    BY <2>3 DEF Row
  <2>5. \E j \in Id :
          \/ was[j] \in {"none"} /\ is = [was EXCEPT ![j] = "stopped"]
          \/ was[j] \in {"stopped"} /\ is = [was EXCEPT ![j] = "running"]
          \/ was[j] \in {"running"} /\ is = [was EXCEPT ![j] = "stopped"]
          \/ was[j] \in {"stopped", "running"} /\ is = [was EXCEPT ![j] = "deleted"]
    BY <2>2, <2>4
  <2> QED
    BY <2>5 DEF Contract!Next, Contract!Move, was, is
<1> QED
  BY <1>1, <1>2

\* At first, memory and disk are the same map and no handler is at work.
LEMMA TableInit ==
  ASSUME Init, Budget["power"] = 0
  PROVE  TableInv /\ budget["power"] = 0
<1>1. store = file
  BY DEF Init, Store!Init
<1>2. OneRow(store, file)
  BY <1>1 DEF OneRow, Row
<1>3. \A t \in Task : InStep(task[t], store)
  BY DEF Init, InStep, IdleTask, Holding, Viewing
<1>4. budget["power"] = 0
  BY DEF Init
<1> QED
  BY <1>2, <1>3, <1>4 DEF TableInv

\* The job table of ARCHITECTURE.md: while handlers do not overlap, whatever
\* docker commands and saves fail, the process is restarted, and containers are
\* changed from outside, the served map moves by one row of the table at a time.
\* (A power loss is excepted: the disk may come back with an older file.)
THEOREM ContractKept ==
  ASSUME NoOverlap, Budget["power"] = 0
  PROVE  Spec => KeepsContract
<1> DEFINE Inv == TableInv /\ budget["power"] = 0
<1>1. Init => Inv
  BY TableInit
<1>2. Init => Contract!Init
  BY DEF Init, Store!Init, Store!EmptyMap, Contract!Init, StatusOf
<1>3. IInv /\ Inv /\ [Next]_vars
        => Inv' /\ [Contract!Next]_[i \in Id |-> StatusOf(store[i])]
  <2> SUFFICES ASSUME IInv, Inv, [Next]_vars
               PROVE  Inv' /\ [Contract!Next]_[i \in Id |-> StatusOf(store[i])]
    OBVIOUS
  <2>1. Advances /\ budget'["power"] = 0
    BY TableNext
  <2>2. TableInv'
    BY <2>1 DEF Advances, TableInv, InStep, OneRow
  <2> QED
    BY <2>1, <2>2, RowOfTable DEF Advances
<1>4. Spec => []IInv
  BY Invariance
<1> HIDE DEF Inv
<1> QED
  BY <1>1, <1>2, <1>3, <1>4, PTL DEF Spec, KeepsContract, Contract!Spec

\* "The record is kept for audit purposes but marked as deleted" (lifecycle.rs):
\* it holds as long as handlers do not overlap, whatever else fails.  What lets a
\* deleted record come back is the overlap alone.
THEOREM DeletedFinalAlone ==
  ASSUME NoOverlap, Budget["power"] = 0
  PROVE  Spec => DeletedIsFinal
<1> DEFINE Inv == TableInv /\ budget["power"] = 0
<1>1. Init => Inv
  BY TableInit
<1>2. IInv /\ Inv /\ [Next]_vars
        => Inv' /\ (\A i \in Id : IsDeleted(store[i]) => IsDeleted(store'[i]))
  <2> SUFFICES ASSUME IInv, Inv, [Next]_vars
               PROVE  Inv' /\ \A i \in Id : IsDeleted(store[i]) => IsDeleted(store'[i])
    OBVIOUS
  <2>1. Advances /\ budget'["power"] = 0
    BY TableNext
  <2>2. TableInv'
    BY <2>1 DEF Advances, TableInv, InStep, OneRow
  <2>3. \A i \in Id : Row(StatusOf(store[i]), StatusOf(store'[i]))
    BY <2>1 DEF Advances, OneRow
  <2>4. \A i \in Id : IsDeleted(store[i]) => IsDeleted(store'[i])
    BY <2>3 DEF Row, StatusOf, IsDeleted
  <2> QED
    BY <2>1, <2>2, <2>4
<1>3. Spec => []IInv
  BY Invariance
<1> HIDE DEF Inv
<1> QED
  BY <1>1, <1>2, <1>3, PTL DEF Spec, DeletedIsFinal

=============================================================================
