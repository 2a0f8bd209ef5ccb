-------------------------- MODULE RunnerInterrupt --------------------------
(***************************************************************************)
(* A run whose process ends early: cmd/holdout handles no signal, so that  *)
(* an interrupt or a kill stops Run between any two of its steps.  What is *)
(* left is the daemon's: the docker command that was running may still     *)
(* have its effect, sandboxes stay, and their attackers go on until the    *)
(* container's main process, "sleep 3600", ends.                           *)
(***************************************************************************)
EXTENDS Runner

VARIABLE alive   \* the process of holdout run
interruptVars == <<vars, alive>>

InterruptInit == RunnerInit /\ alive = TRUE

Lives == alive /\ RunnerNext /\ UNCHANGED alive

(* The sink's listener and handlers end with the process. *)
Interrupt ==
  /\ alive /\ pc # "returned" /\ alive' = FALSE
  /\ sinkState' = IF sinkState = "serving" THEN "closed" ELSE sinkState
  /\ UNCHANGED <<allowedRuns, events, request, adapterVars, runVars, probeVars>>

LastCommand ==
  /\ ~alive /\ call # "idle" /\ call' = "idle"
  /\ \/ /\ call = "create" /\ container[adapter.name] = "absent"
        /\ volume' = Mounted(adapter.name)
        /\ container' = [container EXCEPT ![adapter.name] = "created"]
     \/ /\ call = "start" /\ UNCHANGED volume
        /\ container' = [container EXCEPT ![adapter.name] = "running"]
     \/ call \in {"removeContainer", "undoContainer"} /\ RemoveContainer("nil") /\ UNCHANGED volume
     \/ call \in {"removeVolume", "undoVolume"} /\ RemoveVolume("nil") /\ UNCHANGED container
  /\ ProbesFollowContainers
  /\ UNCHANGED <<alive, adapter, containerErr, reply, sinkVars, runVars>>

Ends(n) ==
  /\ container' = [container EXCEPT ![n] = "created"]   \* it has run and is not removed
  /\ probe' = [i \in Tasks |-> IF probe[i] = "running" /\ ContainerName(i) = n
                              THEN "exited" ELSE probe[i]]

SleepEnds(n) ==
  /\ ~alive /\ container[n] = "running"
  /\ Ends(n)
  /\ UNCHANGED <<alive, adapter, call, containerErr, reply, volume, sinkVars, runVars, heard>>

OrphanExits(i) == ~alive /\ ProbeExits(i) /\ UNCHANGED alive

InterruptNext ==
  \/ Lives \/ Interrupt \/ LastCommand
  \/ \E n \in Names : SleepEnds(n)
  \/ \E i \in Tasks : OrphanExits(i)

InterruptSpec == InterruptInit /\ [][InterruptNext]_interruptVars

-----------------------------------------------------------------------------
(* An interrupt leaves one sandbox at most of which the results say        *)
(* nothing, that of the task it met: every other container or volume is of *)
(* a task that has an error or a cleanup error on record.                  *)
InterruptLeavesOneSandbox ==
  ~alive =>
    \A n \in Names :
      (container[n] \in Ours \/ volume[n] = "own") =>
        \/ task \in Tasks /\ n = ContainerName(task)
        \/ \E k \in DOMAIN result.tasks :
             n = ContainerName(k) /\ (result.tasks[k].error \/ result.tasks[k].cleanup)

=============================================================================
