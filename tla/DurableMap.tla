----------------------------- MODULE DurableMap -----------------------------
(***************************************************************************)
(* What the instance store promises to the rest of the node: a map from    *)
(* instance ids to records that is updated one key at a time, served from  *)
(* memory, and read back from one file after a restart.                    *)
(*                                                                         *)
(*   mem        the map that get() and list() answer from                  *)
(*   file       what a restarted process would load now                    *)
(*   survivors  what a load could find after a power loss: file, and older *)
(*              or half-committed versions whose directory entry was not   *)
(*              synced yet                                                 *)
(*                                                                         *)
(* InstanceStore implements this; ClawLifecycle uses it as its store.      *)
(***************************************************************************)

CONSTANTS
    Key,     \* instance ids
    Val,     \* records
    NoVal    \* no record for the key; its users assume that it is none of Val

VARIABLES mem, file, survivors

vars == <<mem, file, survivors>>

Map == [Key -> Val \cup {NoVal}]
EmptyMap == [k \in Key |-> NoVal]

TypeOK ==
    /\ mem \in Map
    /\ file \in Map
    /\ survivors \in SUBSET Map
    /\ file \in survivors

\* A missing file is read as the empty map.
Init ==
    /\ mem = EmptyMap
    /\ file = EmptyMap
    /\ survivors = {EmptyMap}

\* An insert that has replaced the file but has not returned, or that failed
\* after replacing it: memory is as before, a restart may see the new record.
Expose(k, v) ==
    /\ file' = [mem EXCEPT ![k] = v]
    /\ survivors' = survivors \cup {file'}
    /\ UNCHANGED mem

\* A successful insert: nothing but the new map can be found any more.
Put(k, v) ==
    /\ mem' = [mem EXCEPT ![k] = v]
    /\ file' = mem'
    /\ survivors' = {mem'}

\* The process dies and a new one loads the file.
ProcessRestart ==
    /\ mem' = file
    /\ UNCHANGED <<file, survivors>>

\* The machine dies; the disk comes back with one of the survivors.
PowerLoss ==
    \E m \in survivors :
        /\ mem' = m
        /\ file' = m
        /\ survivors' = {m}

Next ==
    \/ \E k \in Key, v \in Val : Expose(k, v) \/ Put(k, v)
    \/ ProcessRestart
    \/ PowerLoss

Spec == Init /\ [][Next]_vars

=============================================================================
