------------------------- MODULE InstanceStoreProofs -------------------------
(***************************************************************************)
(* Proofs about InstanceStore: type correctness, that instances.json is    *)
(* never torn, that acknowledged writes survive every crash, and that the  *)
(* store implements DurableMap.                                            *)
(***************************************************************************)
EXTENDS InstanceStore, TLAPS

\* Only the thread that holds the mutex is inside insert(); what it is about to
\* write is memory plus its own record, which counts as begun.
WriterInv ==
    \A t \in Thread : pc[t] # "idle" =>
        /\ lock = t
        /\ arg[t] \in Key \X Val
        /\ mem \in Map
        /\ next[t] = [mem EXCEPT ![arg[t][1]] = arg[t][2]]
        /\ arg[t][2] \in since[arg[t][1]]

\* How far the disk is at each stage of the insert.
StageInv ==
    \A t \in Thread :
        /\ pc[t] \in {"synced", "renamed", "dirsynced"} => dataSynced[t]
        /\ pc[t] \in {"renamed", "dirsynced"} => file = next[t]
        /\ pc[t] = "dirsynced" => durable = {next[t]}

FileInv == file \in durable

IInv == TypeOK /\ WriterInv /\ StageInv /\ FileInv /\ NoTornFile

LEMMA EmptyMapType == EmptyMap \in Map
  BY DEF EmptyMap, Map

LEMMA InitIInv == Init => IInv
  BY EmptyMapType, StoreAssumption
     DEF Init, IInv, TypeOK, WriterInv, StageInv, FileInv, NoTornFile,
         Content, Stage, NoArg

\* The steps inside the critical section that change neither map nor disk.
LEMMA TmpFileStep ==
  ASSUME IInv, NEW t \in Thread,
         CreateTmp(t) \/ WriteTmp(t) \/ SyncTmp(t)
  PROVE  IInv'
<1> USE DEF IInv, Goto, CreateTmp, WriteTmp, SyncTmp, diskVars, history
<1>1. TypeOK'
  BY DEF TypeOK, Stage
<1>2. WriterInv'
  BY DEF TypeOK, WriterInv
<1>3. StageInv'
  BY DEF TypeOK, WriterInv, StageInv
<1>4. FileInv' /\ NoTornFile'
  BY DEF FileInv, NoTornFile
<1> QED BY <1>1, <1>2, <1>3, <1>4

LEMMA AcquireStep ==
  ASSUME IInv, NEW t \in Thread, NEW k \in Key, NEW v \in Val, Acquire(t, k, v)
  PROVE  IInv'
<1> USE DEF IInv, Goto, Acquire, diskVars
<1>0. mem \in Map
  BY DEF TypeOK, Content
<1>1. [mem EXCEPT ![k] = v] \in Map
  BY <1>0 DEF Map
<1>2. TypeOK'
  BY <1>1 DEF TypeOK, Stage
<1>3. \A s \in Thread : s # t => pc[s] = "idle"
  BY StoreAssumption DEF WriterInv, TypeOK
<1>4. WriterInv'
  BY <1>0, <1>1, <1>3 DEF WriterInv, TypeOK
<1>5. StageInv'
  BY <1>3 DEF StageInv, TypeOK
<1>6. FileInv' /\ NoTornFile'
  BY DEF FileInv, NoTornFile
<1> QED BY <1>2, <1>4, <1>5, <1>6

LEMMA RenameStep ==
  ASSUME IInv, NEW t \in Thread, Rename(t) \/ SyncDir(t)
  PROVE  IInv'
<1> USE DEF IInv, Goto, Rename, SyncDir, history
<1>1. dataSynced[t] /\ next[t] \in Map /\ next[t] # Torn
  BY StoreAssumption DEF StageInv, TypeOK
<1>2. \A s \in Thread : s # t => pc[s] = "idle"
  BY DEF WriterInv, TypeOK
<1>3. TypeOK'
  BY <1>1 DEF TypeOK, Stage, Content
<1>4. WriterInv'
  BY <1>2 DEF WriterInv, TypeOK
<1>5. StageInv'
  BY <1>1, <1>2 DEF StageInv, TypeOK
<1>6. FileInv' /\ NoTornFile'
  BY <1>1 DEF FileInv, NoTornFile, StageInv
<1> QED BY <1>3, <1>4, <1>5, <1>6

LEMMA ReturnStep ==
  ASSUME IInv, NEW t \in Thread, Commit(t) \/ Fail(t)
  PROVE  IInv'
<1> USE DEF IInv, Return, Commit, Fail, diskVars, history
<1>1. \A s \in Thread : s # t => pc[s] = "idle"
  BY DEF WriterInv, TypeOK
<1>2. Commit(t) => arg[t][1] \in Key /\ arg[t][2] \in Val
  BY DEF WriterInv
<1>3. TypeOK'
  <2>1. pc' \in [Thread -> Stage] /\ lock' \in Thread \cup {NoThread}
    BY DEF TypeOK, Stage
  <2>2. arg' \in [Thread -> (Key \X Val) \cup {NoArg}]
    BY DEF TypeOK
  <2>3. next' \in [Thread -> Map] /\ dataSynced' \in [Thread -> BOOLEAN]
    BY EmptyMapType DEF TypeOK
  <2>4. mem' \in Content /\ file' \in Content /\ durable' \in SUBSET Content
    BY DEF TypeOK, Content
  <2>5. faults' \in Nat
    BY DEF TypeOK
  <2>6. acked' \in [Key -> Val \cup {NoVal}] /\ since' \in [Key -> SUBSET Val]
    BY <1>2 DEF TypeOK
  <2> HIDE DEF IInv, Return, Commit, Fail
  <2> QED BY <2>1, <2>2, <2>3, <2>4, <2>5, <2>6 DEF TypeOK
<1>4. WriterInv' /\ StageInv'
  BY <1>1 DEF WriterInv, StageInv, TypeOK
<1>5. FileInv' /\ NoTornFile'
  BY StoreAssumption DEF FileInv, NoTornFile, TypeOK
<1> QED BY <1>3, <1>4, <1>5

LEMMA CrashStep ==
  ASSUME IInv, ProcessCrash \/ PowerLoss
  PROVE  IInv'
<1> USE DEF IInv, Reopen, ProcessCrash, PowerLoss, diskVars, history
<1>1. TypeOK'
  <2>1. pc' \in [Thread -> Stage] /\ lock' \in Thread \cup {NoThread}
    BY DEF TypeOK, Stage
  <2>2. arg' \in [Thread -> (Key \X Val) \cup {NoArg}]
    BY DEF TypeOK
  <2>3. next' \in [Thread -> Map] /\ dataSynced' \in [Thread -> BOOLEAN]
    BY EmptyMapType DEF TypeOK
  <2>4. mem' \in Content /\ file' \in Content /\ durable' \in SUBSET Content
    BY EmptyMapType DEF TypeOK, Content
  <2>5. faults' \in Nat
    BY DEF TypeOK
  <2>6. UNCHANGED <<acked, since>>
    OBVIOUS
  <2> HIDE DEF IInv, Reopen, ProcessCrash, PowerLoss
  <2> QED BY <2>1, <2>2, <2>3, <2>4, <2>5, <2>6 DEF TypeOK, IInv
<1>2. WriterInv' /\ StageInv'
  BY DEF WriterInv, StageInv
<1>3. FileInv' /\ NoTornFile'
  BY EmptyMapType, StoreAssumption DEF FileInv, NoTornFile
<1> QED BY <1>1, <1>2, <1>3

LEMMA NextIInv == IInv /\ [Next]_vars => IInv'
<1> SUFFICES ASSUME IInv, [Next]_vars PROVE IInv'
  OBVIOUS
<1>1. CASE UNCHANGED vars
  BY <1>1 DEF IInv, TypeOK, WriterInv, StageInv, FileInv, NoTornFile, vars,
              diskVars, history
<1>2. CASE Next
  BY <1>2, TmpFileStep, AcquireStep, RenameStep, ReturnStep, CrashStep DEF Next
<1> QED BY <1>1, <1>2

LEMMA IInvAlways == Spec => []IInv
  BY InitIInv, NextIInv, PTL DEF Spec

-----------------------------------------------------------------------------
\* The store's variables keep their types.
THEOREM StoreTypeOK == Spec => []TypeOK
  BY IInvAlways, PTL DEF IInv

\* No restart ever meets a half-written instances.json: sync before rename.
THEOREM NeverTorn == Spec => []NoTornFile
  BY IInvAlways, PTL DEF IInv

-----------------------------------------------------------------------------
(* Acknowledged writes *)

LEMMA AckedInit == Init => AckedWriteSurvives
  BY DEF Init, AckedWriteSurvives, EmptyMap

\* The one step that forgets values (since[k] becomes empty) is the one after
\* which only the acknowledged map is left, in memory and on disk.
LEMMA AckedStep ==
  ASSUME StateDirDurable
  PROVE  IInv /\ AckedWriteSurvives /\ [Next]_vars => AckedWriteSurvives'
<1> SUFFICES ASSUME IInv, AckedWriteSurvives, [Next]_vars
             PROVE  AckedWriteSurvives'
  OBVIOUS
<1>1. CASE UNCHANGED vars
  BY <1>1 DEF AckedWriteSurvives, vars, diskVars, history
<1>2. ASSUME NEW t \in Thread, NEW k \in Key, NEW v \in Val, Acquire(t, k, v)
      PROVE  AckedWriteSurvives'
  BY <1>2 DEF AckedWriteSurvives, Acquire, diskVars, IInv, TypeOK
<1>3. ASSUME NEW t \in Thread, CreateTmp(t) \/ WriteTmp(t) \/ SyncTmp(t) \/ Fail(t)
      PROVE  AckedWriteSurvives'
  BY <1>3 DEF AckedWriteSurvives, CreateTmp, WriteTmp, SyncTmp, Fail,
              diskVars, history
<1>4. ASSUME NEW t \in Thread, pc[t] # "idle"
      PROVE  \A k \in Key : next[t][k] \in {acked[k]} \cup since[k]
  <2>1. /\ mem \in Map /\ mem # Torn
        /\ next[t] = [mem EXCEPT ![arg[t][1]] = arg[t][2]]
        /\ arg[t][2] \in since[arg[t][1]]
    BY <1>4 DEF IInv, WriterInv, NoTornFile
  <2>2. \A k \in Key : mem[k] \in {acked[k]} \cup since[k]
    BY <2>1 DEF AckedWriteSurvives
  <2> QED BY <2>1, <2>2 DEF Map
<1>5. ASSUME NEW t \in Thread, Rename(t) \/ SyncDir(t)
      PROVE  AckedWriteSurvives'
  <2>1. pc[t] # "idle" /\ dataSynced[t]
    BY <1>5 DEF Rename, SyncDir, Goto, IInv, StageInv
  <2>2. /\ durable' \cup {file', mem'} \subseteq durable \cup {file, mem, next[t]}
        /\ UNCHANGED history
    BY <1>5, <2>1 DEF Rename, SyncDir
  <2> QED BY <1>4, <2>1, <2>2 DEF AckedWriteSurvives, history
<1>6. ASSUME NEW t \in Thread, Commit(t)
      PROVE  AckedWriteSurvives'
  <2>1. durable' \cup {file', mem'} = {next[t]}
    BY <1>6 DEF Commit, IInv, StageInv, diskVars
  <2>2. /\ arg[t] \in Key \X Val
        /\ next[t] = [mem EXCEPT ![arg[t][1]] = arg[t][2]]
        /\ mem \in Map
    BY <1>6 DEF Commit, IInv, WriterInv
  <2>3. \A k \in Key : next[t][k] \in {acked'[k]} \cup since'[k]
    <3> TAKE k \in Key
    <3>1. CASE k = arg[t][1]
      BY <1>6, <2>2, <3>1 DEF Commit, IInv, TypeOK, Map
    <3>2. CASE k # arg[t][1]
      BY <1>4, <1>6, <2>2, <3>2 DEF Commit, IInv, TypeOK, Map
    <3> QED BY <3>1, <3>2
  <2> QED BY <2>1, <2>3 DEF AckedWriteSurvives
<1>7. CASE ProcessCrash \/ PowerLoss
  <2>1. /\ durable' \cup {file', mem'} \subseteq durable \cup {file}
        /\ UNCHANGED history
    BY <1>7 DEF ProcessCrash, PowerLoss, Reopen, diskVars
  <2> QED BY <2>1 DEF AckedWriteSurvives, history
<1> QED
  BY <1>1, <1>2, <1>3, <1>5, <1>6, <1>7 DEF Next

\* An insert that returned Ok is never undone by a crash: every map that a
\* restart, or a power loss, can load has its value or a newer one, provided
\* the state directory itself was on disk before.
THEOREM AckedWritesSurvive ==
  ASSUME StateDirDurable
  PROVE  Spec => []AckedWriteSurvives
  BY AckedInit, AckedStep, IInvAlways, PTL DEF Spec

-----------------------------------------------------------------------------
(* Refinement *)

LEMMA PromiseInit == Init => Promise!Init
  BY DEF Init, Promise!Init, served, EmptyMap, Promise!EmptyMap

\* A rename exposes the new map, the directory sync makes it the only one;
\* every other step of an insert is invisible.
LEMMA PromiseStep ==
  ASSUME StateDirDurable
  PROVE  IInv /\ IInv' /\ [Next]_vars => [Promise!Next]_(Promise!vars)
<1> SUFFICES ASSUME IInv, IInv', [Next]_vars
             PROVE  [Promise!Next]_(Promise!vars)
  OBVIOUS
<1>0. durable \cup {file} = durable /\ (durable \cup {file})' = durable'
  BY DEF IInv, FileInv
<1>a. ASSUME NEW t \in Thread, pc[t] # "idle"
      PROVE  \A s \in Thread : s # t => pc[s] = "idle"
  BY <1>a DEF IInv, WriterInv
<1>1. CASE UNCHANGED vars
  BY <1>1 DEF vars, diskVars, history, Promise!vars, served
<1>2. ASSUME NEW t \in Thread,
             \/ \E k \in Key, v \in Val : Acquire(t, k, v)
             \/ CreateTmp(t) \/ WriteTmp(t) \/ SyncTmp(t) \/ Fail(t)
      PROVE  UNCHANGED Promise!vars
  <2>1. UNCHANGED <<mem, file, durable>>
    BY <1>2 DEF Acquire, CreateTmp, WriteTmp, SyncTmp, Fail, diskVars
  <2>2. \A s \in Thread : pc[s] # "dirsynced" /\ pc'[s] # "dirsynced"
    <3>1. CASE pc[t] = "idle"
      BY <1>2, <3>1, StoreAssumption
         DEF Acquire, CreateTmp, WriteTmp, SyncTmp, Fail, Goto, IInv, WriterInv,
             TypeOK
    <3>2. CASE pc[t] # "idle"
      BY <1>2, <1>a, <3>2
         DEF Acquire, CreateTmp, WriteTmp, SyncTmp, Fail, Return, Goto, IInv,
             TypeOK
    <3> QED BY <3>1, <3>2
  <2> QED BY <2>1, <2>2 DEF Promise!vars, served
<1>3. ASSUME NEW t \in Thread, pc[t] # "idle"
      PROVE  /\ arg[t][1] \in Key /\ arg[t][2] \in Val
             /\ next[t] = [mem EXCEPT ![arg[t][1]] = arg[t][2]]
  BY <1>3 DEF IInv, WriterInv
<1>4. ASSUME NEW t \in Thread, Rename(t)
      PROVE  Promise!Next
  <2>1. pc[t] = "synced" /\ dataSynced[t]
    BY <1>4 DEF Rename, Goto, IInv, StageInv
  <2>2. served = mem /\ served' = mem
    BY <1>4, <1>a, <2>1 DEF Rename, Goto, served, IInv, TypeOK
  <2>3. file' = next[t] /\ durable' = durable \cup {next[t]}
    BY <1>4, <2>1 DEF Rename
  <2>4. Promise!Expose(arg[t][1], arg[t][2])
    BY <1>0, <1>3, <2>1, <2>2, <2>3 DEF Promise!Expose
  <2> QED BY <1>3, <2>1, <2>4 DEF Promise!Next
<1>5. ASSUME NEW t \in Thread, SyncDir(t)
      PROVE  Promise!Next
  <2>1. pc[t] = "renamed" /\ dataSynced[t] /\ file = next[t]
    BY <1>5 DEF SyncDir, Goto, IInv, StageInv
  <2>2. served = mem /\ served' = next[t]
    BY <1>5, <1>a, <2>1 DEF SyncDir, Goto, served, IInv, TypeOK
  <2>3. file' = next[t] /\ durable' = {next[t]}
    BY <1>5, <2>1 DEF SyncDir
  <2>4. Promise!Put(arg[t][1], arg[t][2])
    BY <1>0, <1>3, <2>1, <2>2, <2>3 DEF Promise!Put
  <2> QED BY <1>3, <2>1, <2>4 DEF Promise!Next
<1>6. ASSUME NEW t \in Thread, Commit(t)
      PROVE  UNCHANGED Promise!vars
  <2>1. file = next[t] /\ served = file
    BY <1>6 DEF Commit, IInv, StageInv, served
  <2>2. \A s \in Thread : pc'[s] = "idle"
    BY <1>6, <1>a DEF Commit, Return, IInv, TypeOK
  <2>3. served' = next[t]
    BY <1>6, <2>2 DEF Commit, served
  <2> QED BY <1>6, <2>1, <2>3 DEF Commit, diskVars, Promise!vars
<1>7. CASE ProcessCrash
  <2>1. served' = file
    BY <1>7 DEF ProcessCrash, Reopen, served
  <2>2. Promise!ProcessRestart
    BY <1>7, <2>1 DEF ProcessCrash, diskVars, Promise!ProcessRestart
  <2> QED BY <2>2 DEF Promise!Next
<1>8. CASE PowerLoss
  <2>1. PICK m \in durable : Reopen(m) /\ file' = m /\ durable' = {m}
    BY <1>8 DEF PowerLoss
  <2>2. served' = m
    BY <2>1 DEF Reopen, served
  <2>3. Promise!PowerLoss
    BY <1>0, <2>1, <2>2 DEF Promise!PowerLoss
  <2> QED BY <2>3 DEF Promise!Next
<1> QED
  BY <1>1, <1>2, <1>4, <1>5, <1>6, <1>7, <1>8 DEF Next

\* The mutex-and-rename store is a DurableMap: its clients may forget about
\* temporary files, syncs and the mutex.
THEOREM StoreRefinesDurableMap ==
  ASSUME StateDirDurable
  PROVE  Spec => ImplementsDurableMap
<1>1. Spec => []IInv
  BY IInvAlways
<1>2. QED
  BY <1>1, PromiseInit, PromiseStep, PTL DEF Spec, ImplementsDurableMap, Promise!Spec
=============================================================================
