--------------------------- MODULE DockerAdapter ---------------------------
(***************************************************************************)
(* The Docker adapter (internal/sut/adapter.go) and the part of the Docker *)
(* daemon it drives.  One adapter object serves one sandbox: a container   *)
(* and a workspace volume that share its name.                             *)
(*                                                                         *)
(* Every docker command the adapter runs is a step of its own: between the *)
(* command and its outcome other processes move.  A command that fails, or *)
(* that is killed at its deadline, may already have had its effect in the  *)
(* daemon, so a failing step chooses what the daemon did.                  *)
(***************************************************************************)
CONSTANTS Names,   \* names of containers; the volume of a container has its name
          NoName   \* the empty name

ASSUME NoNameAssumption == NoName \notin Names

VARIABLES
  adapter,       \* the fields name and created of the adapter object
  call,          \* the docker command in progress, "idle" between calls
  containerErr,  \* Destroy's local: the outcome of docker rm
  reply,         \* what the last call of the adapter returned, "none" during it
  container,     \* daemon: the containers; "foreign" ones were there before
  volume         \* daemon: the named volumes

adapterVars == <<adapter, call, containerErr, reply, container, volume>>

Errors == {"error", "deadline"}
Outcomes == {"nil"} \cup Errors
Ours == {"created", "running"}
FreshAdapter == [name |-> NoName, created |-> FALSE]

AdapterTypeOK ==
  /\ adapter \in [name: Names \cup {NoName}, created: BOOLEAN]
  /\ call \in {"idle", "create", "start", "undoContainer", "undoVolume",
               "exec", "removeContainer", "removeVolume"}
  /\ containerErr \in Outcomes
  /\ reply \in Outcomes \cup {"none"}
  /\ container \in [Names -> {"absent", "foreign"} \cup Ours]
  /\ volume \in [Names -> {"absent", "foreign", "own"}]

AdapterInit ==
  /\ adapter = FreshAdapter
  /\ call = "idle" /\ containerErr = "nil" /\ reply = "none"
  /\ container \in [Names -> {"absent", "foreign"}]
  /\ volume \in [Names -> {"absent", "foreign"}]

Returns(outcome) == call' = "idle" /\ reply' = outcome
Runs(command) == call' = command /\ reply' = "none"

-----------------------------------------------------------------------------
(* Create: docker create, docker start, and the undo of a failed start. *)

AdapterCreate(n) ==
  /\ call = "idle"
  /\ \/ /\ adapter.created \/ adapter.name # NoName
        /\ Returns("error") /\ UNCHANGED adapter
     \/ /\ ~adapter.created /\ adapter.name = NoName
        /\ adapter' = [adapter EXCEPT !.name = n]
        /\ \/ Runs("create")
           \/ Returns("error")    \* the task directory has no absolute path
  /\ UNCHANGED <<containerErr, container, volume>>

Mounted(n) == [volume EXCEPT ![n] = IF @ = "absent" THEN "own" ELSE @]

DockerCreated ==
  /\ call = "create" /\ container[adapter.name] = "absent"
  /\ volume' = Mounted(adapter.name)
  /\ container' = [container EXCEPT ![adapter.name] = "created"]
  /\ adapter' = [adapter EXCEPT !.created = TRUE]
  /\ Runs("start")
  /\ UNCHANGED containerErr

(* Mistake: created is set before docker create has succeeded. *)
CreateFailsAsCreated ==
  /\ call = "create"
  /\ adapter' = [adapter EXCEPT !.created = TRUE]
  /\ Returns("error")
  /\ UNCHANGED <<containerErr, container, volume>>

(* A name that is taken is refused without an effect; any other failure may*)
(* leave the volume, or the volume and the container, behind.              *)
DockerCreateFails ==
  /\ call = "create"
  /\ \/ UNCHANGED <<container, volume>>
     \/ /\ container[adapter.name] = "absent"
        /\ volume' = Mounted(adapter.name)
        /\ container' \in {container, [container EXCEPT ![adapter.name] = "created"]}
  /\ adapter' = [adapter EXCEPT !.name = NoName]
  /\ Returns("error")
  /\ UNCHANGED containerErr

DockerStarted ==
  /\ call = "start"
  /\ container' = [container EXCEPT ![adapter.name] = "running"]
  /\ Returns("nil")
  /\ UNCHANGED <<adapter, containerErr, volume>>

(* Mistake: the error of docker start is dropped. *)
StartFailsSilently ==
  /\ call = "start"
  /\ Returns("nil")
  /\ UNCHANGED <<adapter, containerErr, container, volume>>

DockerStartFails ==
  /\ call = "start"
  /\ container' \in {container, [container EXCEPT ![adapter.name] = "running"]}
  /\ Runs("undoContainer")
  /\ UNCHANGED <<adapter, containerErr, volume>>

(* docker rm -f and docker volume rm: success means removed, a failure may *)
(* or may not have removed.  A volume in use by a container is kept.       *)
RemoveContainer(outcome) ==
  \/ container' = [container EXCEPT ![adapter.name] = "absent"]
  \/ outcome # "nil" /\ UNCHANGED container

RemoveVolume(outcome) ==
  \/ /\ container[adapter.name] = "absent" /\ volume[adapter.name] # "absent"
     /\ volume' = [volume EXCEPT ![adapter.name] = "absent"]
  \/ outcome # "nil" /\ UNCHANGED volume

(* The undo ignores both outcomes and forgets the sandbox. *)
UndoContainer ==
  /\ call = "undoContainer"
  /\ \E outcome \in Outcomes : RemoveContainer(outcome)
  /\ Runs("undoVolume")
  /\ UNCHANGED <<adapter, containerErr, volume>>

UndoVolume ==
  /\ call = "undoVolume"
  /\ \E outcome \in Outcomes : RemoveVolume(outcome)
  /\ adapter' = FreshAdapter
  /\ Returns("error")
  /\ UNCHANGED <<containerErr, container>>

-----------------------------------------------------------------------------
(* Exec. *)

AdapterExec ==
  /\ call = "idle"
  /\ \/ adapter.name = NoName /\ Returns("error")
     \/ adapter.name # NoName /\ Runs("exec")
  /\ UNCHANGED <<adapter, containerErr, container, volume>>

(* Mistake: no timeout. *)
ExecEndsUnbounded(outcome) ==
  /\ call = "exec" /\ outcome = "nil"
  /\ Returns(outcome)
  /\ UNCHANGED <<adapter, containerErr, container, volume>>

(* The attacker is not stopped when docker exec is killed at its deadline. *)
DockerExecEnds(outcome) ==
  /\ call = "exec"
  /\ Returns(outcome)
  /\ UNCHANGED <<adapter, containerErr, container, volume>>

-----------------------------------------------------------------------------
(* Destroy: docker rm -f and docker volume rm under one deadline. *)

AdapterDestroy ==
  /\ call = "idle"
  /\ \/ (adapter.name = NoName \/ ~adapter.created) /\ Returns("nil")
     \/ adapter.name # NoName /\ adapter.created /\ Runs("removeContainer")
  /\ UNCHANGED <<adapter, containerErr, container, volume>>

(* Mistake: docker rm is repeated until it succeeds. *)
DestroyContainerRepeats(outcome) ==
  /\ call = "removeContainer"
  /\ RemoveContainer(outcome)
  /\ containerErr' = outcome
  /\ Runs(IF outcome = "nil" THEN "removeVolume" ELSE "removeContainer")
  /\ UNCHANGED <<adapter, volume>>

DestroyContainer(outcome) ==
  /\ call = "removeContainer"
  /\ RemoveContainer(outcome)
  /\ containerErr' = outcome
  /\ Runs("removeVolume")
  /\ UNCHANGED <<adapter, volume>>

(* Mistakes: the sandbox is forgotten before the error of docker rm is     *)
(* looked at; the error of docker volume rm is dropped.                    *)
DestroyVolumeForgets(outcome) ==
  /\ call = "removeVolume"
  /\ RemoveVolume(outcome)
  /\ Returns(IF containerErr # "nil" THEN containerErr ELSE outcome)
  /\ adapter' = FreshAdapter /\ containerErr' = "nil"
  /\ UNCHANGED container
DestroyVolumeSilently(outcome) ==
  /\ call = "removeVolume"
  /\ RemoveVolume(outcome)
  /\ Returns(containerErr)
  /\ adapter' = IF containerErr = "nil" THEN FreshAdapter ELSE adapter
  /\ containerErr' = "nil"
  /\ UNCHANGED container

(* Once the deadline has passed docker volume rm is not even started. *)
DestroyVolume(outcome) ==
  /\ call = "removeVolume"
  /\ \/ containerErr = "deadline" /\ outcome = "deadline" /\ UNCHANGED volume
     \/ containerErr # "deadline" /\ RemoveVolume(outcome)
  /\ \/ containerErr # "nil" /\ Returns(containerErr) /\ UNCHANGED adapter
     \/ containerErr = "nil" /\ Returns(outcome) /\ adapter' = FreshAdapter
  /\ containerErr' = "nil"
  /\ UNCHANGED container

-----------------------------------------------------------------------------
(* The commands that run under a context with a deadline, and the two that *)
(* run under context.Background().                                         *)
DeadlinedCommand ==
  \/ DockerCreated \/ DockerCreateFails \/ DockerStarted \/ DockerStartFails
  \/ \E outcome \in Outcomes :
       DockerExecEnds(outcome) \/ DestroyContainer(outcome) \/ DestroyVolume(outcome)

UndoCommand == UndoContainer \/ UndoVolume
=============================================================================
