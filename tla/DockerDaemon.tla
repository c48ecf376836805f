---------------------------- MODULE DockerDaemon ----------------------------
(***************************************************************************)
(* The Docker daemon as the adapter uses it through the docker CLI: one    *)
(* container per instance (runtime_adapter.rs keeps its id in the record   *)
(* and never creates a second one), with the host port that                *)
(* `-p 127.0.0.1::<port>` publishes.  Docker picks that port when a        *)
(* container starts and gives it back when it stops.  External.            *)
(***************************************************************************)
EXTENDS ClawRecord

VARIABLE ctr    \* ctr[i]: the container of instance i

Container ==
    [status : {"absent", "created", "running", "exited", "paused"},
     port : Port \cup {NoPort}]

DaemonTypeOK == ctr \in [Id -> Container]

Absent == [status |-> "absent", port |-> NoPort]

DaemonInit == ctr = [i \in Id |-> Absent]

Present(i) == ctr[i].status # "absent"
Running(i) == ctr[i].status = "running"

FreePorts == Port \ {ctr[i].port : i \in Id}

PortsFor(i) == IF i \in PublishesUi THEN FreePorts ELSE {NoPort}

\* docker create
DaemonCreate(i) ==
    ctr' = [ctr EXCEPT ![i] = [status |-> "created", port |-> NoPort]]

\* docker start; a container that runs already is left alone.
CanStart(i) ==
    \/ Running(i)
    \/ ctr[i].status \in {"created", "exited"} /\ PortsFor(i) # {}

DaemonStart(i) ==
    \/ Running(i) /\ UNCHANGED ctr
    \/ /\ ctr[i].status \in {"created", "exited"}
       /\ \E p \in PortsFor(i) :
            ctr' = [ctr EXCEPT ![i] = [status |-> "running", port |-> p]]

\* docker stop; a container that does not run is left alone.
DaemonStop(i) ==
    ctr' = [ctr EXCEPT ![i] =
                IF @.status \in {"running", "paused"}
                THEN [status |-> "exited", port |-> NoPort] ELSE @]

\* docker rm -f
DaemonRemove(i) == ctr' = [ctr EXCEPT ![i] = Absent]

\* What happens to a container behind the node's back: its process exits, or
\* somebody starts, pauses, unpauses or removes it with the docker CLI.
Outside(i) ==
    \/ Running(i) /\ DaemonStop(i)
    \/ ~Running(i) /\ DaemonStart(i)
    \/ Running(i) /\ ctr' = [ctr EXCEPT ![i].status = "paused"]
    \/ ctr[i].status = "paused" /\ ctr' = [ctr EXCEPT ![i].status = "running"]
    \/ Present(i) /\ DaemonRemove(i)

\* A reboot leaves no container running; nothing sets a restart policy.
DaemonReboot ==
    ctr' = [i \in Id |-> IF ctr[i].status \in {"running", "paused"}
                         THEN [status |-> "exited", port |-> NoPort] ELSE ctr[i]]

=============================================================================
