---------------------------- MODULE InstanceStore ----------------------------
(***************************************************************************)
(* The file-backed instance store of openclaw-sandbox-blueprint-lib        *)
(* (state.rs): a Mutex around the map, and an insert that, while holding   *)
(* the mutex, writes the whole next map to a temporary file, syncs it,     *)
(* renames it over instances.json, syncs the directory and only then       *)
(* installs the map in memory.  Every file operation may fail (the insert  *)
(* returns Err and drops the guard), the process may be killed and the     *)
(* machine may lose power between any two of them.                         *)
(*                                                                         *)
(* A rename whose directory was not synced may or may not be found after a *)
(* power loss; a renamed file whose data was not synced may come back      *)
(* Torn.  uuid-named temporary files never clash and are never read, so    *)
(* only the writer's own is represented (by pc and dataSynced).            *)
(***************************************************************************)

EXTENDS Naturals

CONSTANTS
    Key, Val, NoVal,    \* instance ids, records, "no record"
    Thread, NoThread,   \* threads of the node that call save_instance
    Torn,               \* content of a file whose data never reached the disk
    StateDirDurable,    \* the state directory existed before the first insert
    MaxFaults           \* bound: failed file operations and crashes

Map == [Key -> Val \cup {NoVal}]
EmptyMap == [k \in Key |-> NoVal]

ASSUME StoreAssumption ==
    /\ NoVal \notin Val
    /\ NoThread \notin Thread
    /\ Torn \notin Map
    /\ StateDirDurable \in BOOLEAN
    /\ MaxFaults \in Nat

VARIABLES
    lock,       \* thread inside InstanceStore::insert's critical section
    pc,         \* stage of each thread's insert
    arg,        \* what each thread inserts: <<key, record>>
    next,       \* the cloned and updated map of each insert
    dataSynced, \* file.sync_all() has returned for the thread's temporary file
    mem,        \* *map, what get() and list() answer from
    file,       \* content of instances.json as the operating system shows it
    durable,    \* contents that instances.json may have after a power loss
    faults,     \* failures so far
    (* history, for the properties only *)
    acked,      \* last value per key whose insert returned Ok
    since       \* values per key whose insert began after that

diskVars == <<file, durable>>
history == <<acked, since>>
vars == <<lock, pc, arg, next, dataSynced, mem, file, durable, faults, history>>

Content == Map \cup {Torn}
NoArg == <<>>
Stage == {"idle", "locked", "created", "written", "synced",
          "renamed", "dirsynced"}

TypeOK ==
    /\ lock \in Thread \cup {NoThread}
    /\ pc \in [Thread -> Stage]
    /\ arg \in [Thread -> (Key \X Val) \cup {NoArg}]
    /\ next \in [Thread -> Map]
    /\ dataSynced \in [Thread -> BOOLEAN]
    /\ mem \in Content
    /\ file \in Content
    /\ durable \in SUBSET Content
    /\ faults \in Nat
    /\ acked \in [Key -> Val \cup {NoVal}]
    /\ since \in [Key -> SUBSET Val]

Init ==
    /\ lock = NoThread
    /\ pc = [t \in Thread |-> "idle"]
    /\ arg = [t \in Thread |-> NoArg]
    /\ next = [t \in Thread |-> EmptyMap]
    /\ dataSynced = [t \in Thread |-> FALSE]
    /\ mem = EmptyMap
    /\ file = EmptyMap
    /\ durable = {EmptyMap}
    /\ faults = 0
    /\ acked = [k \in Key |-> NoVal]
    /\ since = [k \in Key |-> {}]

-----------------------------------------------------------------------------
(* InstanceStore::insert and InstanceStore::persist *)

Goto(t, from, to) ==
    /\ pc[t] = from
    /\ pc' = [pc EXCEPT ![t] = to]

\* insert() returns, with Ok or with Err, and drops the guard.
Return(t) ==
    /\ pc' = [pc EXCEPT ![t] = "idle"]
    /\ lock' = NoThread
    /\ arg' = [arg EXCEPT ![t] = NoArg]
    /\ next' = [next EXCEPT ![t] = EmptyMap]
    /\ dataSynced' = [dataSynced EXCEPT ![t] = FALSE]

\* Mutant: the insert keeps the record and loses its key.
AcquireForgetsKey(t, k, v) ==
    /\ Goto(t, "idle", "locked")
    /\ lock = NoThread
    /\ mem # Torn
    /\ lock' = t
    /\ arg' = [arg EXCEPT ![t] = <<v>>]
    /\ next' = [next EXCEPT ![t] = [mem EXCEPT ![k] = v]]
    /\ since' = [since EXCEPT ![k] = @ \cup {v}]
    /\ UNCHANGED <<dataSynced, mem, diskVars, faults, acked>>

\* self.inner.lock(), map.clone() and next.insert(id, record).  A torn file
\* would leave store() with an error and no map to lock.
Acquire(t, k, v) ==
    /\ Goto(t, "idle", "locked")
    /\ lock = NoThread
    /\ mem # Torn
    /\ lock' = t
    /\ arg' = [arg EXCEPT ![t] = <<k, v>>]
    /\ next' = [next EXCEPT ![t] = [mem EXCEPT ![k] = v]]
    /\ since' = [since EXCEPT ![k] = @ \cup {v}]
    /\ UNCHANGED <<dataSynced, mem, diskVars, faults, acked>>

CreateTmp(t) ==
    /\ Goto(t, "locked", "created")
    /\ UNCHANGED <<lock, arg, next, dataSynced, mem, diskVars, faults, history>>

WriteTmp(t) ==
    /\ Goto(t, "created", "written")
    /\ UNCHANGED <<lock, arg, next, dataSynced, mem, diskVars, faults, history>>

\* Mutant: no file.sync_all().
SyncTmpSkipped(t) ==
    /\ Goto(t, "written", "synced")
    /\ UNCHANGED <<lock, arg, next, dataSynced, mem, diskVars, faults, history>>

SyncTmp(t) ==
    /\ Goto(t, "written", "synced")
    /\ dataSynced' = [dataSynced EXCEPT ![t] = TRUE]
    /\ UNCHANGED <<lock, arg, next, mem, diskVars, faults, history>>

\* The file is replaced at once for every reader; whether a power loss finds
\* the old or the new entry is open until the directory is synced.
Rename(t) ==
    /\ Goto(t, "synced", "renamed")
    /\ file' = next[t]
    /\ durable' = durable \cup {IF dataSynced[t] THEN next[t] ELSE Torn}
    /\ UNCHANGED <<lock, arg, next, dataSynced, mem, faults, history>>

\* Mutant: the directory is not synced.
SyncDirSkipped(t) ==
    /\ Goto(t, "renamed", "dirsynced")
    /\ UNCHANGED <<lock, arg, next, dataSynced, mem, diskVars, faults, history>>

SyncDir(t) ==
    /\ Goto(t, "renamed", "dirsynced")
    /\ durable' = {IF dataSynced[t] THEN next[t] ELSE Torn}
    /\ UNCHANGED <<lock, arg, next, dataSynced, mem, file, faults, history>>

\* *map = next; the guard is dropped and insert() returns Ok.
Commit(t) ==
    /\ pc[t] = "dirsynced"
    /\ Return(t)
    /\ mem' = next[t]
    /\ acked' = [acked EXCEPT ![arg[t][1]] = arg[t][2]]
    /\ since' = [since EXCEPT ![arg[t][1]] = {}]
    /\ UNCHANGED <<diskVars, faults>>

\* Mutant: *map = next comes first, an error leaves it behind.
FailAfterInstall(t) ==
    /\ faults < MaxFaults
    /\ pc[t] \in {"locked", "created", "written", "synced", "renamed"}
    /\ Return(t)
    /\ faults' = faults + 1
    /\ mem' = next[t]
    /\ UNCHANGED <<diskVars, history>>

\* Any of the operations returns an error: `?` leaves insert(), memory keeps
\* the old map.
Fail(t) ==
    /\ faults < MaxFaults
    /\ pc[t] \in {"locked", "created", "written", "synced", "renamed"}
    /\ Return(t)
    /\ faults' = faults + 1
    /\ UNCHANGED <<mem, diskVars, history>>

-----------------------------------------------------------------------------
(* Crashes, and InstanceStore::open of the next process *)

Reopen(content) ==
    /\ faults < MaxFaults
    /\ mem' = content
    /\ lock' = NoThread
    /\ pc' = [t \in Thread |-> "idle"]
    /\ arg' = [t \in Thread |-> NoArg]
    /\ next' = [t \in Thread |-> EmptyMap]
    /\ dataSynced' = [t \in Thread |-> FALSE]
    /\ faults' = faults + 1
    /\ UNCHANGED history

ProcessCrash ==
    /\ Reopen(file)
    /\ UNCHANGED diskVars

\* create_dir_all() never syncs the parent of a directory it creates, so a
\* state directory the node created itself may be gone with everything in it.
PowerLoss ==
    \E content \in durable \cup (IF StateDirDurable THEN {} ELSE {EmptyMap}) :
        /\ Reopen(content)
        /\ file' = content
        /\ durable' = {content}

Next ==
    \/ \E t \in Thread :
        \/ \E k \in Key, v \in Val : Acquire(t, k, v)
        \/ CreateTmp(t) \/ WriteTmp(t) \/ SyncTmp(t)
        \/ Rename(t) \/ SyncDir(t) \/ Commit(t) \/ Fail(t)
    \/ ProcessCrash
    \/ PowerLoss

Spec == Init /\ [][Next]_vars

-----------------------------------------------------------------------------
(* Properties *)

\* Whatever goes wrong and whenever, the file that a restart opens parses:
\* the sync before the rename keeps torn content out of instances.json.
NoTornFile == Torn \notin durable \cup {file, mem}

\* "All writes persist to disk immediately": once an insert has returned Ok,
\* every map a restart or a power loss can bring back holds that value, or one
\* whose insert began later, and so does every map served from memory.
AckedWriteSurvives ==
    \A m \in durable \cup {file, mem} : m # Torn =>
        \A k \in Key : m[k] \in {acked[k]} \cup since[k]

(***************************************************************************)
(* Refinement.  Between the directory sync and the assignment to *map the  *)
(* mutex hides the old map, and a crash brings the new one: the insert has *)
(* taken effect.                                                           *)
(***************************************************************************)
served ==
    IF \E t \in Thread : pc[t] = "dirsynced" THEN file ELSE mem

Promise == INSTANCE DurableMap
    WITH mem <- served, survivors <- durable \cup {file}

\* Memory and disk move together as DurableMap says.
ImplementsDurableMap == Promise!Spec

=============================================================================
