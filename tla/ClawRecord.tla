----------------------------- MODULE ClawRecord -----------------------------
(***************************************************************************)
(* The instance record of state.rs and what the Docker adapter of          *)
(* runtime_adapter.rs writes into it.  Kept are the fields that decide     *)
(* what the handlers do next or that a query serves about the runtime;     *)
(* names, images, urls, tokens and timestamps are left out.                *)
(***************************************************************************)

CONSTANTS
    Id,                \* instance ids (uuids)
    Owner,             \* wallet addresses of callers
    Port, NoPort,      \* host ports Docker publishes on; None
    NoRecord,          \* the store has no record for an id
    HasSetupCommand,   \* instances whose variant has a setup command
    PublishesUi        \* instances whose variant publishes a UI port

ASSUME RecordAssumption ==
    /\ NoPort \notin Port
    /\ HasSetupCommand \subseteq Id
    /\ PublishesUi \subseteq Id

InstanceState == {"stopped", "running", "deleted"}

\* `docker inspect` answers, plus what the adapter writes itself.
ContainerStatus == {"created", "running", "exited", "paused", "missing", "deleted"}

SetupStatus == {"none", "pending", "awaiting_user", "running", "failed", "deleted"}

\* last_error, by the operation that set it.
LastError == {"none", "startup", "setup", "docker"}

InstanceRecord ==
    [state : InstanceState, owner : Owner, container_status : ContainerStatus,
     setup_status : SetupStatus, last_error : LastError,
     ui_host_port : Port \cup {NoPort}]

ASSUME NoRecordAssumption == NoRecord \notin InstanceRecord

-----------------------------------------------------------------------------
(* The record after each outcome *)

\* create_instance: the container exists and was never started.
Created(i, o) ==
    [state |-> "stopped", owner |-> o, container_status |-> "created",
     setup_status |-> IF i \in HasSetupCommand THEN "pending" ELSE "none",
     last_error |-> "none", ui_host_port |-> NoPort]

Failed(r, why) == [r EXCEPT !.last_error = why]

\* on_start_instance once inspect has answered st.
Stabilized(r, st) ==
    [r EXCEPT !.container_status = st,
              !.last_error = IF st = "running" THEN "none" ELSE "startup"]

SetupDue(r) == r.setup_status \in {"pending", "awaiting_user"}

SetupRunning(r) == [r EXCEPT !.setup_status = "running", !.last_error = "none"]

SetupAwaitsUser(r) ==
    [r EXCEPT !.setup_status = "awaiting_user", !.last_error = "none"]

SetupFailed(r) == [r EXCEPT !.setup_status = "failed", !.last_error = "setup"]

\* Mutant: the container status is taken for the lifecycle state.
StoppedAsExited(r) == [r EXCEPT !.state = "exited", !.container_status = "exited"]

Stopped(r) ==
    [r EXCEPT !.state = "stopped", !.container_status = "exited",
              !.setup_status = IF @ \in {"running", "failed"} THEN "pending" ELSE @,
              !.last_error = "none"]

Deleted(r) ==
    [r EXCEPT !.state = "deleted", !.container_status = "deleted",
              !.setup_status = "deleted", !.last_error = "none"]

\* Mutant: only a running container moves the state.
SeenKeepsState(r, st) ==
    [r EXCEPT !.state = IF st = "running" THEN "running" ELSE @,
              !.container_status = st, !.last_error = "none"]

\* refresh_instance when inspect has answered st.
Seen(r, st) ==
    [r EXCEPT !.state = IF @ = "deleted" THEN @
                        ELSE IF st = "running" THEN "running" ELSE "stopped",
              !.container_status = st,
              !.last_error = "none"]

\* Mutant: a deleted record is treated like any other.
MissingForgetsDeleted(r) ==
    [r EXCEPT !.container_status = "missing", !.state = "stopped",
              !.last_error = "docker"]

\* refresh_instance when the error names a missing container.
Missing(r) ==
    IF r.state = "deleted"
    THEN [r EXCEPT !.container_status = "deleted", !.setup_status = "deleted",
                   !.last_error = "docker"]
    ELSE [r EXCEPT !.container_status = "missing", !.state = "stopped",
                   !.last_error = "docker"]

=============================================================================
