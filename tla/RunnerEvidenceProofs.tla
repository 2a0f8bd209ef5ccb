------------------------ MODULE RunnerEvidenceProofs ------------------------
(***************************************************************************)
(* What stands behind a result, for every catalog, every option and every  *)
(* interleaving of the runner with Docker, attackers and handlers: a leak  *)
(* is on record, evidence is of attackers and under run ids of tasks that  *)
(* the run has reached behind the gate, whatever ids attackers present, a  *)
(* breach rests on such evidence, and what an attacker was told is recorded*)
(* under its own run id is counted.                                        *)
(*                                                                         *)
(* LeaksAreReported assumes of the task ids what the runner does not check *)
(* (DistinctNames); the theorems about evidence assume nothing of them.    *)
(***************************************************************************)
EXTENDS RunnerProofs, RunnerInterrupt

LEMMA ResultInvHolds == RunnerSpec => []ResultInv
<1>1. ResultInv => RunTypeInv
  BY DEF ResultInv
<1> QED
  BY <1>1, ResultInvInit, RunTypeInvNext, ResultInvNext, PTL DEF RunnerSpec

(* Ids that differ by more than dashes and case have sandboxes of their own.*)
DistinctNames == \A i, j \in Tasks : ContainerName(i) = ContainerName(j) => i = j

-----------------------------------------------------------------------------
(* The sandbox of the current task, and those of the tasks before it.      *)
(*                                                                         *)
(* Destroy's nil is worth something only where Create's nil came before:   *)
(* StageInv carries the one through Exec to the other.  ProbeInv: attackers*)
(* do not outlive their container.  From them follows that what is left of *)
(* a task is on record (LeakInv), and that a container or volume which is  *)
(* not the current task's is of a task with an error (RemainsInv).         *)

Gone(i) == container[ContainerName(i)] = "absent" /\ volume[ContainerName(i)] = "absent"

StageInv ==
  /\ pc = "creating" => call \in {"idle", "create", "start", "undoContainer", "undoVolume"}
  /\ pc = "creating" /\ (call = "start" \/ (call = "idle" /\ reply = "nil")) =>
       /\ adapter.name = ContainerName(task) /\ adapter.created = TRUE
       /\ container[ContainerName(task)] # "absent"
  /\ pc = "executing" => /\ call \in {"idle", "exec"}
                         /\ adapter.name = ContainerName(task) /\ adapter.created = TRUE
  /\ pc \in {"cleanup", "destroying"} => call \in {"idle", "removeContainer", "removeVolume"}
  /\ pc = "destroying" /\ call = "removeVolume" /\ containerErr = "nil" =>
       container[ContainerName(task)] = "absent"
  /\ pc = "destroying" /\ call = "idle" /\ reply = "nil" => Gone(task)
  /\ pc = "verdict" /\ destroyErr = "nil" => Gone(task)

ProbeInv ==
  /\ \A i \in Tasks : probe[i] = "running" => container[ContainerName(i)] # "absent"
  /\ \A i \in Tasks : i > task => probe[i] = "absent"
  /\ task \in Tasks /\ pc \notin {"executing", "destroying", "verdict"} => probe[task] = "absent"

LeakInv ==
  DistinctNames =>
    \A k \in Tasks : k < task /\ probe[k] # "absent" => result.tasks[k].cleanup \/ Gone(k)

Remains(n) == container[n] \in Ours \/ volume[n] = "own"
OnRecord(n) == \E k \in DOMAIN result.tasks :
                 n = ContainerName(k) /\ (result.tasks[k].error \/ result.tasks[k].cleanup)

RemainsInv ==
  \A n \in Names : Remains(n) => OnRecord(n) \/ (pc \in BehindGate /\ n = ContainerName(task))

SandboxInv == StageInv /\ ProbeInv /\ LeakInv /\ RemainsInv

LEMMA SandboxInvInit == RunnerInit => SandboxInv
<1> SUFFICES ASSUME RunnerInit PROVE SandboxInv
  OBVIOUS
<1>1. /\ pc = "load" /\ task = 1 /\ probe = [i \in Tasks |-> "absent"]
      /\ \A n \in Names : container[n] \in {"absent", "foreign"} /\ volume[n] # "own"
  BY DEF RunnerInit, AdapterInit
<1>2. \A k \in Tasks : ~(k < 1)
  BY CatalogEntry
<1> QED
  BY <1>1, <1>2 DEF SandboxInv, StageInv, ProbeInv, LeakInv, RemainsInv, Remains, Ours

(* What the lemmas below use of the invariants before. *)
LEMMA Known ==
  ASSUME ResultInv
  PROVE  /\ AdapterTypeOK /\ probe \in [Tasks -> {"absent", "running", "exited"}]
         /\ task \in 1..(Len(Catalog) + 1) /\ Tasks = 1..Len(Catalog) /\ Len(Catalog) \in Nat
         /\ pc \in BehindGate => task \in Tasks
         /\ \A i \in Tasks : ContainerName(i) \in Names
         /\ call # "idle" => pc \in Waiting /\ adapter.name = ContainerName(task)
         /\ pc \in Waiting => adapter.name \in {NoName, ContainerName(task)}
         /\ result \in RunResults /\ DOMAIN result.tasks = 1..(task - 1)
<1>1. /\ GateInv /\ RunTypes
  BY DEF ResultInv, RunTypeInv
<1>2. Len(Catalog) \in Nat /\ Tasks = 1..Len(Catalog)
  BY CatalogAssumption, LenProperties DEF Validated, Tasks
<1>3. result.tasks \in Seq(TaskResults(TaskIDs)) /\ Len(result.tasks) = task - 1
  BY <1>1 DEF RunTypes, RunResults, ResultInv
<1>4. DOMAIN result.tasks = 1..(task - 1)
  BY <1>3, LenProperties
<1>5. call # "idle" => pc \in Waiting /\ adapter.name = ContainerName(task)
  BY <1>1, NoNameAssumption DEF GateInv
<1> QED
  BY <1>1, <1>2, <1>4, <1>5, CatalogAssumption DEF GateInv, RunTypes, Validated

(* Steps that leave the sandboxes and the run's place in them alone: those *)
(* outside the loop, and those of the attackers and the sink.              *)
LEMMA QuietStep ==
  ASSUME ResultInv, SandboxInv, UNCHANGED <<adapterVars, task, destroyErr>>,
         result'.tasks = result.tasks,
         pc' = pc \/ (pc \notin BehindGate /\ pc' \notin BehindGate),
         \A i \in Tasks : /\ probe'[i] = "running" => probe[i] = "running"
                          /\ probe[i] = "absent" => probe'[i] = "absent"
  PROVE  SandboxInv'
<1>1. /\ UNCHANGED <<adapter, call, containerErr, reply, container, volume>>
      /\ Gone(task)' <=> Gone(task)
      /\ \A k \in Tasks : Gone(k)' <=> Gone(k)
  BY DEF adapterVars, Gone
<1>2. StageInv'
  BY <1>1 DEF SandboxInv, StageInv, BehindGate
<1>3. ProbeInv'
  BY <1>1 DEF SandboxInv, ProbeInv, BehindGate
<1>4. LeakInv'
  BY <1>1 DEF SandboxInv, LeakInv
<1>5. RemainsInv'
  BY <1>1 DEF SandboxInv, RemainsInv, Remains, OnRecord, Ours, ContainerName, TaskRunID
<1> QED
  BY <1>2, <1>3, <1>4, <1>5 DEF SandboxInv

(* Run's calls: the sandboxes are as before, and only the current task's   *)
(* attacker may start.                                                     *)
LEMMA CallStep ==
  ASSUME ResultInv, SandboxInv, UNCHANGED <<container, volume, task, result>>,
         pc' \in BehindGate, StageInv', ProbeInv',
         \A i \in Tasks : i < task => probe'[i] = probe[i]
  PROVE  SandboxInv'
<1>1. \A k \in Tasks : Gone(k)' <=> Gone(k)
  BY DEF Gone
<1>2. LeakInv'
  BY <1>1 DEF SandboxInv, LeakInv
<1>3. RemainsInv'
  <2>1. pc \in BehindGate \/ ~(pc \in BehindGate)
    OBVIOUS
  <2> QED
    BY <2>1 DEF SandboxInv, RemainsInv, Remains, OnRecord, Ours, ContainerName, TaskRunID
<1> QED
  BY <1>2, <1>3 DEF SandboxInv

LEMMA CallsKeepSandboxInv ==
  ASSUME ResultInv, SandboxInv, RunTask, pc' \in BehindGate
  PROVE  SandboxInv'
<1> USE Known DEF Local, Goes, probeVars, Returns, Runs
<1>1. StageInv /\ ProbeInv
  BY DEF SandboxInv
<1>2. CASE NewTaskAdapter
  <2>1. /\ pc = "loop" /\ pc' = "register" /\ call = "idle"
        /\ UNCHANGED <<container, volume, task, result, probe>>
    BY <1>2 DEF NewTaskAdapter, InLoop, Return, BehindGate, Waiting
  <2>2. StageInv' /\ ProbeInv'
    BY <1>1, <2>1 DEF StageInv, ProbeInv
  <2> QED
    BY <2>1, <2>2, CallStep
<1>3. CASE CreateSandbox
  <2>1. /\ pc = "register" /\ pc' = "creating" /\ call' \in {"idle", "create"}
        /\ reply' # "nil" /\ UNCHANGED <<container, volume, task, result, probe>>
    BY <1>3 DEF CreateSandbox, AdapterCreate
  <2>2. StageInv' /\ ProbeInv'
    BY <1>1, <2>1 DEF StageInv, ProbeInv
  <2> QED
    BY <2>1, <2>2, CallStep
<1>4. CASE CleanUpFailedCreate
  <2>1. /\ pc = "creating" /\ pc' = "cleanup" /\ call' \in {"idle", "removeContainer"}
        /\ UNCHANGED <<container, volume, task, result, probe>>
    BY <1>4 DEF CleanUpFailedCreate, AdapterDestroy
  <2>2. StageInv' /\ ProbeInv'
    BY <1>1, <2>1 DEF StageInv, ProbeInv
  <2> QED
    BY <2>1, <2>2, CallStep
<1>5. CASE StartProbe
  <2>1. /\ pc = "creating" /\ pc' = "executing" /\ call' \in {"idle", "exec"}
        /\ call = "idle" /\ reply = "nil"
        /\ UNCHANGED <<adapter, container, volume, task, result>>
        /\ probe' = [probe EXCEPT ![task] = "running"]
    BY <1>5 DEF StartProbe, AdapterExec
  <2>2. StageInv'
    BY <1>1, <2>1 DEF StageInv
  <2>3. container[ContainerName(task)] # "absent" /\ task \in Tasks
    BY <1>1, <2>1 DEF StageInv, BehindGate
  <2>4. \A i \in Tasks : i # task => probe'[i] = probe[i]
    BY <2>1
  <2>5. ProbeInv'
    BY <1>1, <2>1, <2>3, <2>4 DEF ProbeInv
  <2> QED
    BY <2>1, <2>2, <2>4, <2>5, CallStep
<1>6. CASE DestroySandbox
  <2>1. /\ pc = "executing" /\ pc' = "destroying"
        /\ UNCHANGED <<container, volume, task, result, probe>>
        /\ call' = "removeContainer"
    BY <1>1, <1>6, NoNameAssumption DEF DestroySandbox, AdapterDestroy, StageInv, BehindGate
  <2>2. StageInv' /\ ProbeInv'
    BY <1>1, <2>1 DEF StageInv, ProbeInv
  <2> QED
    BY <2>1, <2>2, CallStep
<1>7. CASE CollectEvents
  <2>1. /\ pc = "destroying" /\ pc' = "verdict" /\ call = "idle" /\ destroyErr' = reply
        /\ UNCHANGED <<container, volume, task, result, probe>>
    BY <1>7 DEF CollectEvents, adapterVars
  <2>2. Gone(task)' <=> Gone(task)
    BY <2>1 DEF Gone
  <2>3. StageInv' /\ ProbeInv'
    BY <1>1, <2>1, <2>2 DEF StageInv, ProbeInv
  <2> QED
    BY <2>1, <2>3, CallStep
<1>8. CASE SkipTask \/ RecordCreateError \/ RecordExecError \/ RunOracle \/ FinishRun
  BY <1>8 DEF SkipTask, RecordCreateError, RecordExecError, RunOracle, FinishRun, Record, Return,
              BehindGate
<1> QED
  BY <1>2, <1>3, <1>4, <1>5, <1>6, <1>7, <1>8 DEF RunTask

-----------------------------------------------------------------------------
(* The commands of Docker. *)

LEMMA CommandIsLocal ==
  ASSUME AdapterTypeOK, adapter.name \in Names, DeadlinedCommand \/ UndoCommand
  PROVE  \A n \in Names \ {adapter.name} : container'[n] = container[n] /\ volume'[n] = volume[n]
<1>1. ASSUME NEW outcome \in Outcomes, DestroyContainer(outcome)
      PROVE  \A n \in Names \ {adapter.name} : container'[n] = container[n] /\ volume'[n] = volume[n]
  BY <1>1, ContainerRemoval DEF DestroyContainer
<1>2. ASSUME NEW outcome \in Outcomes, DestroyVolume(outcome)
      PROVE  \A n \in Names \ {adapter.name} : container'[n] = container[n] /\ volume'[n] = volume[n]
  BY <1>2, VolumeRemoval DEF DestroyVolume
<1>3. CASE UndoCommand
  BY <1>3, ContainerRemoval, VolumeRemoval DEF UndoCommand, UndoContainer, UndoVolume
<1>4. CASE DockerCreated \/ DockerCreateFails \/ DockerStarted \/ DockerStartFails
  BY <1>4 DEF DockerCreated, DockerCreateFails, DockerStarted, DockerStartFails, Mounted,
              AdapterTypeOK
<1>5. ASSUME NEW outcome \in Outcomes, DockerExecEnds(outcome)
      PROVE  \A n \in Names \ {adapter.name} : container'[n] = container[n] /\ volume'[n] = volume[n]
  BY <1>5 DEF DockerExecEnds
<1> QED
  BY <1>1, <1>2, <1>3, <1>4, <1>5 DEF DeadlinedCommand

LEMMA CommandKeepsStage ==
  ASSUME ResultInv, StageInv, DeadlinedCommand \/ UndoCommand,
         UNCHANGED <<pc, task, destroyErr>>
  PROVE  StageInv'
<1> USE Known DEF Returns, Runs
<1> DEFINE n == ContainerName(task)
<1>1. /\ call # "idle" /\ pc \in Waiting /\ task \in Tasks
  BY DEF DeadlinedCommand, UndoCommand, DockerCreated, DockerCreateFails, DockerStarted,
         DockerStartFails, DockerExecEnds, DestroyContainer, DestroyVolume, UndoContainer,
         UndoVolume, Waiting, BehindGate
<1>2. adapter.name = n /\ n \in Names
  BY <1>1
<1> HIDE DEF n
<1>3. CASE DockerCreated
  <2>1. /\ call = "create" /\ call' = "start" /\ pc = "creating"
        /\ container' = [container EXCEPT ![n] = "created"]
        /\ adapter' = [adapter EXCEPT !.created = TRUE]
    BY <1>1, <1>2, <1>3 DEF DockerCreated, StageInv, Waiting
  <2>2. adapter'.name = n /\ adapter'.created = TRUE /\ container'[n] # "absent"
    BY <1>2, <2>1 DEF AdapterTypeOK
  <2> QED
    BY <1>2, <2>1, <2>2 DEF StageInv, n
<1>4. CASE DockerCreateFails
  <2>1. call = "create" /\ call' = "idle" /\ pc = "creating" /\ reply' = "error"
    BY <1>1, <1>4 DEF DockerCreateFails, StageInv, Waiting
  <2> QED
    BY <2>1 DEF StageInv
<1>5. CASE DockerStarted
  <2>1. /\ call = "start" /\ call' = "idle" /\ pc = "creating"
        /\ container' = [container EXCEPT ![n] = "running"] /\ adapter' = adapter
    BY <1>1, <1>2, <1>5 DEF DockerStarted, StageInv, Waiting
  <2>2. container'[n] # "absent"
    BY <1>2, <2>1 DEF AdapterTypeOK
  <2> QED
    BY <1>2, <2>1, <2>2 DEF StageInv, n
<1>6. CASE DockerStartFails
  <2>1. call = "start" /\ call' = "undoContainer" /\ pc = "creating"
    BY <1>1, <1>6 DEF DockerStartFails, StageInv, Waiting
  <2> QED
    BY <2>1 DEF StageInv
<1>7. ASSUME NEW outcome \in Outcomes, DockerExecEnds(outcome) PROVE StageInv'
  <2>1. call = "exec" /\ call' = "idle" /\ pc = "executing" /\ adapter' = adapter
    BY <1>1, <1>7 DEF DockerExecEnds, StageInv, Waiting
  <2> QED
    BY <2>1 DEF StageInv
<1>8. ASSUME NEW outcome \in Outcomes, DestroyContainer(outcome) PROVE StageInv'
  <2>1. /\ call = "removeContainer" /\ call' = "removeVolume" /\ containerErr' = outcome
        /\ pc \in {"cleanup", "destroying"}
    BY <1>1, <1>8 DEF DestroyContainer, StageInv, Waiting
  <2>2. outcome = "nil" => container'[n] = "absent"
    BY <1>2, <1>8, ContainerRemoval DEF DestroyContainer
  <2> QED
    BY <2>1, <2>2 DEF StageInv, n
<1>9. ASSUME NEW outcome \in Outcomes, DestroyVolume(outcome) PROVE StageInv'
  <2>1. /\ call = "removeVolume" /\ call' = "idle" /\ UNCHANGED container
        /\ pc \in {"cleanup", "destroying"}
        /\ reply' = "nil" => containerErr = "nil" /\ outcome = "nil"
    BY <1>1, <1>9 DEF DestroyVolume, StageInv, Waiting
  <2>2. containerErr = "nil" /\ outcome = "nil" => volume'[n] = "absent"
    BY <1>2, <1>9, VolumeRemoval DEF DestroyVolume
  <2> QED
    BY <2>1, <2>2 DEF StageInv, Gone, n
<1>10. CASE UndoCommand
  <2>1. /\ call \in {"undoContainer", "undoVolume"} /\ pc = "creating"
        /\ call' \in {"undoVolume", "idle"} /\ (call' = "idle" => reply' = "error")
    BY <1>1, <1>10 DEF UndoCommand, UndoContainer, UndoVolume, StageInv, Waiting
  <2> QED
    BY <2>1 DEF StageInv
<1> QED
  BY <1>3, <1>4, <1>5, <1>6, <1>7, <1>8, <1>9, <1>10 DEF DeadlinedCommand

LEMMA CommandsKeepSandboxInv ==
  ASSUME ResultInv, SandboxInv, DockerStep \/ DockerUndo
  PROVE  SandboxInv'
<1> USE Known
<1>1. /\ DeadlinedCommand \/ UndoCommand
      /\ ProbesFollowContainers
      /\ UNCHANGED <<pc, task, result, destroyErr>>
  BY DEF DockerStep, DockerUndo, runVars
<1>2. call # "idle" /\ pc \in BehindGate
  BY <1>1 DEF DeadlinedCommand, UndoCommand, DockerCreated, DockerCreateFails, DockerStarted,
              DockerStartFails, DockerExecEnds, DestroyContainer, DestroyVolume, UndoContainer,
              UndoVolume, Waiting, BehindGate
<1>3. \A n \in Names : n # ContainerName(task) =>
        container'[n] = container[n] /\ volume'[n] = volume[n]
  BY <1>1, <1>2, CommandIsLocal
<1>4. StageInv'
  BY <1>1, CommandKeepsStage DEF SandboxInv
<1>5. /\ \A i \in Tasks : probe'[i] = "running" => container'[ContainerName(i)] # "absent"
      /\ \A i \in Tasks : probe[i] = "absent" <=> probe'[i] = "absent"
  BY <1>1 DEF ProbesFollowContainers
<1>6. ProbeInv'
  BY <1>1, <1>2, <1>5 DEF SandboxInv, ProbeInv
<1>7. LeakInv'
  <2> SUFFICES ASSUME DistinctNames, NEW k \in Tasks, k < task, probe'[k] # "absent"
               PROVE  result.tasks[k].cleanup \/ Gone(k)'
    BY <1>1 DEF LeakInv
  <2>1. ContainerName(k) # ContainerName(task) /\ ContainerName(k) \in Names
    BY <1>2 DEF DistinctNames
  <2>2. result.tasks[k].cleanup \/ Gone(k)
    BY <1>5 DEF SandboxInv, LeakInv
  <2> QED
    BY <1>3, <2>1, <2>2 DEF Gone
<1>8. RemainsInv'
  BY <1>1, <1>2, <1>3 DEF SandboxInv, RemainsInv, Remains, OnRecord, Ours, ContainerName, TaskRunID
<1> QED
  BY <1>4, <1>6, <1>7, <1>8 DEF SandboxInv

-----------------------------------------------------------------------------
(* The end of a task. *)

(* What a result gains when a task's is recorded. *)
LEMMA Recorded ==
  ASSUME ResultInv, task \in Tasks, NEW t \in TaskResults(TaskIDs), Record(t)
  PROVE  /\ DOMAIN result.tasks = 1..(task - 1) /\ DOMAIN result'.tasks = 1..task
         /\ result'.tasks[task] = t
         /\ \A k \in 1..(task - 1) : result'.tasks[k] = result.tasks[k]
         /\ task' = task + 1 /\ pc' = "loop"
<1>1. result \in RunResults /\ result.tasks \in Seq(TaskResults(TaskIDs))
  BY DEF ResultInv, RunTypeInv, RunTypes, RunResults
<1>2. result'.tasks = Append(result.tasks, t)
  BY <1>1 DEF Record, RunResults
<1>3. Len(result.tasks) = task - 1 /\ task \in Nat
  BY CatalogEntry DEF ResultInv
<1> QED
  BY <1>1, <1>2, <1>3, AppendProperties, LenProperties DEF Record

LEMMA RecordKeepsSandboxInv ==
  ASSUME ResultInv, SandboxInv, task \in Tasks, NEW t \in TaskResults(TaskIDs), Record(t),
         pc \in BehindGate => t.error \/ t.cleanup \/ Gone(task),
         probe[task] # "absent" => t.cleanup \/ Gone(task)
  PROVE  SandboxInv'
<1> USE Known, Recorded
<1>1. UNCHANGED <<adapter, call, containerErr, reply, container, volume, probe>>
  BY DEF Record, adapterVars, probeVars
<1>2. \A k \in Tasks : Gone(k)' <=> Gone(k)
  BY <1>1 DEF Gone
<1>3. StageInv'
  BY DEF StageInv
<1>4. ProbeInv'
  <2>1. \A i \in Tasks : i \in Nat /\ task \in Nat
    OBVIOUS
  <2> QED
    BY <1>1, <2>1 DEF SandboxInv, ProbeInv
<1>5. LeakInv'
  <2> SUFFICES ASSUME DistinctNames, NEW k \in Tasks, k < task + 1, probe[k] # "absent"
               PROVE  result'.tasks[k].cleanup \/ Gone(k)
    BY <1>1, <1>2 DEF LeakInv
  <2>1. CASE k = task
    BY <2>1
  <2>2. CASE k # task
    <3>1. k < task /\ k \in 1..(task - 1)
      BY <2>2
    <3> QED
      BY <3>1 DEF SandboxInv, LeakInv
  <2> QED
    BY <2>1, <2>2
<1>6. RemainsInv'
  <2> SUFFICES ASSUME NEW n \in Names, Remains(n) PROVE OnRecord(n)'
    BY <1>1 DEF RemainsInv, Remains, Ours
  <2>1. CASE OnRecord(n)
    <3>1. PICK k \in 1..(task - 1) :
            n = ContainerName(k) /\ (result.tasks[k].error \/ result.tasks[k].cleanup)
      BY <2>1 DEF OnRecord
    <3>2. k \in DOMAIN result'.tasks /\ result'.tasks[k] = result.tasks[k]
      BY <3>1
    <3> QED
      BY <3>1, <3>2 DEF OnRecord, ContainerName, TaskRunID
  <2>2. CASE pc \in BehindGate /\ n = ContainerName(task)
    <3>1. ~Gone(task)
      BY <2>2 DEF Gone, Remains, Ours
    <3>2. t.error \/ t.cleanup
      BY <2>2, <3>1
    <3>3. task \in DOMAIN result'.tasks /\ result'.tasks[task] = t
      OBVIOUS
    <3> QED
      BY <2>2, <3>2, <3>3 DEF OnRecord, ContainerName, TaskRunID
  <2> QED
    BY <2>1, <2>2 DEF SandboxInv, RemainsInv
<1> QED
  BY <1>3, <1>4, <1>5, <1>6 DEF SandboxInv

LEMMA VerdictsKeepSandboxInv ==
  ASSUME ResultInv, SandboxInv,
         SkipTask \/ RecordCreateError \/ RecordExecError \/ RunOracle
  PROVE  SandboxInv'
<1> USE Known
<1>1. StageInv /\ ProbeInv /\ execErr \in Outcomes /\ destroyErr \in Outcomes
  BY DEF SandboxInv, ResultInv, RunTypeInv, RunTypes
<1>2. CASE SkipTask
  <2>1. /\ task \in Tasks /\ pc = "loop" /\ Record(SkippedResult(Catalog[task].id))
        /\ SkippedResult(Catalog[task].id) \in TaskResults(TaskIDs)
    BY <1>2, SkippedIsResult DEF SkipTask, InLoop, TaskIDs
  <2>2. probe[task] = "absent" /\ pc \notin BehindGate
    BY <1>1, <2>1 DEF ProbeInv, BehindGate
  <2> QED
    BY <2>1, <2>2, RecordKeepsSandboxInv
<1>3. CASE RecordCreateError
  <2>1. task \in Tasks /\ pc = "cleanup" /\ reply \in Outcomes
    BY <1>3 DEF RecordCreateError, BehindGate, ResultInv, RunTypeInv, Waiting
  <2>2. /\ CreateErrorResult(Catalog[task].id, reply) \in TaskResults(TaskIDs)
        /\ CreateErrorResult(Catalog[task].id, reply).error
    BY <2>1, CreateErrorIsResult DEF TaskIDs, CreateErrorResult
  <2>3. probe[task] = "absent"
    BY <1>1, <2>1 DEF ProbeInv
  <2> QED
    BY <1>3, <2>1, <2>2, <2>3, RecordKeepsSandboxInv DEF RecordCreateError
<1>4. CASE RecordExecError \/ RunOracle
  <2>1. task \in Tasks /\ pc = "verdict" /\ (destroyErr = "nil" => Gone(task))
    BY <1>1, <1>4 DEF RecordExecError, RunOracle, BehindGate, StageInv
  <2>2. Cardinality(evidence) \in Nat
    BY EvidenceCounted DEF ResultInv, RunTypeInv
  <2>3. Catalog[task].id \in TaskIDs /\ Catalog[task].level \in Levels
    BY <2>1, CatalogEntry DEF TaskIDs
  <2>4. \E t \in TaskResults(TaskIDs) : Record(t) /\ (t.cleanup \/ destroyErr = "nil")
    <3>1. CASE RecordExecError
      <4> DEFINE t == ExecErrorResult(Catalog[task].id, execErr, destroyErr, Cardinality(evidence))
      <4>1. Record(t) /\ (t.cleanup \/ destroyErr = "nil")
        BY <3>1 DEF RecordExecError, ExecErrorResult
      <4>2. t \in TaskResults(TaskIDs)
        BY <1>1, <2>2, <2>3, ExecErrorIsResult
      <4> QED
        BY <4>1, <4>2
    <3>2. CASE RunOracle
      <4>1. PICK output \in OracleOutputs :
              Record(JudgedResult(Catalog[task].id, output, Catalog[task].level, destroyErr,
                                  Cardinality(evidence)))
        BY <3>2 DEF RunOracle
      <4> DEFINE t == JudgedResult(Catalog[task].id, output, Catalog[task].level, destroyErr,
                                   Cardinality(evidence))
      <4>2. t.cleanup \/ destroyErr = "nil"
        BY DEF JudgedResult
      <4>3. t \in TaskResults(TaskIDs)
        BY <1>1, <2>2, <2>3, JudgedIsResult
      <4> QED
        BY <4>1, <4>2, <4>3
    <3> QED
      BY <1>4, <3>1, <3>2
  <2> QED
    BY <2>1, <2>4, RecordKeepsSandboxInv
<1> QED
  BY <1>2, <1>3, <1>4

LEMMA SandboxInvNext == ResultInv /\ SandboxInv /\ [RunnerNext]_vars => SandboxInv'
<1> SUFFICES ASSUME ResultInv, SandboxInv, [RunnerNext]_vars PROVE SandboxInv'
  OBVIOUS
<1> USE Known
<1>1. ASSUME NEW failed \in BOOLEAN, Return(failed), pc \notin BehindGate PROVE SandboxInv'
  <2>1. /\ UNCHANGED <<adapterVars, task, destroyErr, probe>> /\ pc' \notin BehindGate
        /\ result'.tasks = result.tasks
    BY <1>1 DEF Return, Local, probeVars, BehindGate, RunResults
  <2> QED
    BY <1>1, <2>1, QuietStep
<1>2. CASE Setup
  <2>1. pc \notin BehindGate
    BY <1>2 DEF Setup, LoadCatalog, ChooseSUT, CheckEnvironment, DescribeSUT, StartEvidence,
                BehindGate
  <2>2. CASE ~Return(TRUE)
    <3>1. /\ UNCHANGED <<adapterVars, task, result, destroyErr, probe>> /\ pc' \notin BehindGate
      BY <1>2, <2>2 DEF Setup, LoadCatalog, ChooseSUT, CheckEnvironment, DescribeSUT,
                        StartEvidence, Goes, Local, probeVars, BehindGate
    <3> QED
      BY <2>1, <3>1, QuietStep
  <2> QED
    BY <1>1, <2>1, <2>2
<1>3. CASE FinishRun \/ (NewTaskAdapter /\ Return(TRUE))
  BY <1>1, <1>3 DEF FinishRun, NewTaskAdapter, InLoop, BehindGate
<1>4. CASE RunTask /\ pc' \in BehindGate
  BY <1>4, CallsKeepSandboxInv
<1>5. CASE SkipTask \/ RecordCreateError \/ RecordExecError \/ RunOracle
  BY <1>5, VerdictsKeepSandboxInv
<1>6. CASE RunTask
  <2>1. \/ SkipTask \/ RecordCreateError \/ RecordExecError \/ RunOracle
        \/ FinishRun \/ (NewTaskAdapter /\ Return(TRUE))
        \/ pc' \in BehindGate
    BY <1>6 DEF RunTask, NewTaskAdapter, CreateSandbox, CleanUpFailedCreate, StartProbe,
                DestroySandbox, CollectEvents, Goes, BehindGate
  <2> QED
    BY <1>3, <1>4, <1>5, <1>6, <2>1
<1>7. CASE DockerStep \/ DockerUndo
  BY <1>7, CommandsKeepSandboxInv
<1>8. CASE \/ ProbeStep \/ Returned \/ UNCHANGED vars
           \/ \E q \in Requests : SinkReceives(q) \/ SinkHandles(q)
  <2>1. /\ UNCHANGED <<adapterVars, pc, task, result, destroyErr>>
        /\ \A i \in Tasks : probe'[i] = probe[i] \/ (probe[i] = "running" /\ probe'[i] = "exited")
    BY <1>8 DEF ProbeStep, ProbeSends, ProbeExits, SinkReceives, SinkHandles, Returned, vars,
                runVars, probeVars
  <2> QED
    BY <2>1, QuietStep
<1> QED
  BY <1>2, <1>6, <1>7, <1>8 DEF RunnerNext, RunnerStep

LEMMA SandboxInvHolds == RunnerSpec => []SandboxInv
BY ResultInvHolds, SandboxInvInit, SandboxInvNext, PTL DEF RunnerSpec

(* Run (runner.go): a container or a volume that outlives its task is on   *)
(* record as a cleanup error, whatever Docker's commands did, for tasks    *)
(* whose ids differ by more than case and dashes.                          *)
THEOREM LeaksAreReported ==
  ASSUME DistinctNames
  PROVE  RunnerSpec => []LeakReported
<1>1. ResultInv /\ SandboxInv => LeakReported
  BY Known DEF SandboxInv, LeakInv, LeakReported, Gone, Ours
<1> QED
  BY <1>1, ResultInvHolds, SandboxInvHolds, PTL

(* Run (runner.go): the tasks run one after another; two sandboxes run at a*)
(* time only when an earlier task has reported an error or failed cleanup. *)
THEOREM OverlapIsReported == RunnerSpec => []SandboxesOverlapOnlyAfterError
<1>1. SandboxInv => SandboxesOverlapOnlyAfterError
  BY DEF SandboxInv, RemainsInv, Remains, OnRecord, SandboxesOverlapOnlyAfterError, Ours
<1> QED
  BY <1>1, SandboxInvHolds, PTL

-----------------------------------------------------------------------------
(* The process ends early.  Until then the run is the one above; from then *)
(* on the results stand still, and the one command that was running acts on*)
(* the current task's sandbox.                                             *)

InterruptInv ==
  /\ alive => ResultInv /\ SandboxInv
  /\ ~alive =>
       /\ AdapterTypeOK
       /\ call # "idle" => task \in Tasks /\ adapter.name = ContainerName(task)
       /\ \A n \in Names : Remains(n) => OnRecord(n) \/ (task \in Tasks /\ n = ContainerName(task))

LEMMA InterruptInvInit == InterruptInit => InterruptInv
BY ResultInvInit, SandboxInvInit DEF InterruptInit, InterruptInv

LEMMA InterruptInvNext == InterruptInv /\ [InterruptNext]_interruptVars => InterruptInv'
<1> SUFFICES ASSUME InterruptInv, [InterruptNext]_interruptVars PROVE InterruptInv'
  OBVIOUS
<1> DEFINE Same == UNCHANGED <<task, result>>
<1>1. CASE alive /\ alive' = alive /\ [RunnerNext]_vars
  <2>1. ResultInv' /\ SandboxInv'
    BY <1>1, RunTypeInvNext, ResultInvNext, SandboxInvNext DEF InterruptInv, ResultInv
  <2> QED
    BY <1>1, <2>1 DEF InterruptInv
<1>2. CASE Interrupt
  <2>1. /\ alive /\ ~alive' /\ UNCHANGED <<adapterVars, runVars>>
    BY <1>2 DEF Interrupt
  <2>2. UNCHANGED <<adapter, call, containerErr, reply, container, volume, pc, task, result>>
    BY <2>1 DEF adapterVars, runVars
  <2>3. ResultInv /\ RemainsInv
    BY <2>1 DEF InterruptInv, SandboxInv
  <2>4. call # "idle" => task \in Tasks /\ adapter.name = ContainerName(task)
    BY <2>3, Known DEF Waiting, BehindGate
  <2>5. \A n \in Names : Remains(n) => OnRecord(n) \/ (task \in Tasks /\ n = ContainerName(task))
    BY <2>3, Known DEF RemainsInv
  <2>6. AdapterTypeOK'
    BY <2>2, <2>3, Known DEF AdapterTypeOK
  <2> QED
    BY <2>1, <2>2, <2>4, <2>5, <2>6
       DEF InterruptInv, Remains, OnRecord, ContainerName, TaskRunID
<1>3. ASSUME ~alive, ~alive', AdapterTypeOK', Same, UNCHANGED adapter, call' \in {call, "idle"},
             \A n \in Names : Remains(n)' => Remains(n) \/ (task \in Tasks /\ n = ContainerName(task))
      PROVE  InterruptInv'
  BY <1>3 DEF InterruptInv, OnRecord, ContainerName, TaskRunID
<1>4. CASE LastCommand
  <2>1. /\ ~alive /\ ~alive' /\ Same /\ UNCHANGED <<adapter, containerErr, reply>>
        /\ call # "idle" /\ call' = "idle"
    BY <1>4 DEF LastCommand, runVars
  <2>2. AdapterTypeOK /\ task \in Tasks /\ adapter.name = ContainerName(task)
    BY <2>1 DEF InterruptInv
  <2>3. adapter.name \in Names
    BY <2>2, CatalogAssumption DEF Validated
  <2>4. /\ AdapterTypeOK'
        /\ \A n \in Names \ {adapter.name} : container'[n] = container[n] /\ volume'[n] = volume[n]
    <3>1. "nil" \in Outcomes
      BY DEF Outcomes
    <3>2. CASE RemoveContainer("nil") /\ UNCHANGED volume
      BY <2>1, <2>2, <2>3, <3>1, <3>2, ContainerRemoval DEF AdapterTypeOK
    <3>3. CASE RemoveVolume("nil") /\ UNCHANGED container
      BY <2>1, <2>2, <2>3, <3>1, <3>3, VolumeRemoval DEF AdapterTypeOK
    <3>4. CASE /\ volume' \in {volume, Mounted(adapter.name)}
               /\ \E state \in Ours : container' = [container EXCEPT ![adapter.name] = state]
      BY <2>1, <2>2, <2>3, <3>4 DEF AdapterTypeOK, Mounted
    <3> QED
      BY <1>4, <3>2, <3>3, <3>4 DEF LastCommand, Ours
  <2>5. ASSUME NEW n \in Names, Remains(n)', n # adapter.name PROVE Remains(n)
    BY <2>4, <2>5 DEF Remains, Ours
  <2> QED
    BY <1>3, <2>1, <2>2, <2>4, <2>5
<1>5. ASSUME NEW m \in Names, SleepEnds(m) PROVE InterruptInv'
  <2>1. /\ ~alive /\ ~alive' /\ Same /\ UNCHANGED <<adapter, containerErr, reply, call, volume>>
        /\ container[m] = "running" /\ container' = [container EXCEPT ![m] = "created"]
    BY <1>5 DEF SleepEnds, Ends, runVars
  <2>2. AdapterTypeOK
    BY <2>1 DEF InterruptInv
  <2>3. AdapterTypeOK' /\ \A n \in Names : Remains(n)' => Remains(n)
    BY <2>1, <2>2 DEF AdapterTypeOK, Remains, Ours
  <2> QED
    BY <1>3, <2>1, <2>3
<1>6. CASE ~alive /\ alive' = alive /\ UNCHANGED <<adapterVars, runVars>>
  <2>1. UNCHANGED <<adapter, call, containerErr, reply, container, volume, task, result>>
    BY <1>6 DEF adapterVars, runVars
  <2>2. AdapterTypeOK' /\ \A n \in Names : Remains(n)' => Remains(n)
    BY <1>6, <2>1 DEF InterruptInv, AdapterTypeOK, Remains, Ours
  <2> QED
    BY <1>3, <1>6, <2>1, <2>2
<1>7. CASE UNCHANGED interruptVars
  BY <1>1, <1>6, <1>7 DEF interruptVars, vars
<1>8. ASSUME NEW i \in Tasks, OrphanExits(i) PROVE InterruptInv'
  BY <1>6, <1>8 DEF OrphanExits, ProbeExits
<1> QED
  BY <1>1, <1>2, <1>4, <1>5, <1>7, <1>8 DEF InterruptNext, Lives

(* A signal or a kill ends Run anywhere (main.go handles none): what it    *)
(* leaves of which the results say nothing is one sandbox at most, that of *)
(* the task it met, whatever that task's last docker command still does.   *)
THEOREM InterruptLeavesOne == InterruptSpec => []InterruptLeavesOneSandbox
<1>1. InterruptInv => InterruptLeavesOneSandbox
  <2> SUFFICES ASSUME InterruptInv, ~alive, NEW n \in Names, Remains(n)
               PROVE  (task \in Tasks /\ n = ContainerName(task)) \/ OnRecord(n)
    BY DEF InterruptLeavesOneSandbox, Remains, OnRecord
  <2> QED
    BY DEF InterruptInv
<1> QED
  BY <1>1, InterruptInvInit, InterruptInvNext, PTL DEF InterruptSpec

-----------------------------------------------------------------------------
(* The evidence. *)

(* What an attacker was told is recorded under its task's run id. *)
SentOf(i) == {q \in heard : q[1] = i /\ Presented(q) = TaskRunID(i)}

(* Requests come from attackers that were started, only a run id of a task *)
(* that was reached behind the gate is registered, and what an attacker    *)
(* heard is the answer to its request.                                     *)
SentInv ==
  /\ \A q \in Requests : request[q].state # "unsent" => probe[q[1]] # "absent"
  /\ \A r \in allowedRuns : \E k \in Tasks : k <= task /\ MayRun(k) /\ r = TaskRunID(k)
  /\ \A q \in heard : q \in Requests /\ Acknowledged(q)

(* What the runner has read of the log, and what it has made of it.  The   *)
(* counts stand still since an attacker that is gone hears nothing more.   *)
CountInv ==
  /\ pc # "verdict" => evidence = {}
  /\ \A i \in evidence : events[i].run = TaskRunID(task)
  /\ pc = "verdict" /\ destroyErr = "nil" =>
       Cardinality(SentOf(task)) <= Cardinality(evidence)
  /\ \A k \in DOMAIN result.tasks :
       "sink_event_count" \in result.tasks[k].evidence /\ ~result.tasks[k].cleanup =>
         probe[k] # "running" /\ Cardinality(SentOf(k)) <= result.tasks[k].events
  /\ \A k \in DOMAIN result.tasks :
       result.tasks[k].status \in BreachStatuses =>
         \E i \in DOMAIN events : events[i].run = TaskRunID(k) /\ events[i].payload[1] <= k

LEMMA EvidenceInvInit == RunnerInit => SentInv /\ CountInv
BY DEF RunnerInit, SinkInit, NoRequest, SentInv, CountInv

(* The log only grows, and what it holds stays. *)
LEMMA LogKept ==
  SinkInv /\ SinkMove => /\ DOMAIN events \subseteq DOMAIN events'
                         /\ \A i \in DOMAIN events : events'[i] = events[i]
<1> SUFFICES ASSUME SinkInv, SinkMove
             PROVE  /\ DOMAIN events \subseteq DOMAIN events'
                    /\ \A i \in DOMAIN events : events'[i] = events[i]
  OBVIOUS
<1>1. events \in Seq(Event)
  BY DEF SinkInv, SinkTypeOK
<1>2. ASSUME NEW q \in Requests, StoreEvent(q)
      PROVE  \A i \in DOMAIN events : events'[i] = events[i]
  <2>1. PICK e : events' = Append(events, e)
    BY <1>2 DEF StoreEvent
  <2> QED
    BY <1>1, <2>1, LenProperties
<1> QED
  BY <1>2, LogGrows DEF SinkMove, StartSink, CloseSink, RegisterRun, SendRequest, BodyEnds, BodyCut,
              HandlerStep, CheckRequest, AcceptEvent, ShowRun, sinkVars

(* A handler keeps the contents of its request, and it acknowledges only   *)
(* what is stored.                                                         *)
LEMMA HandlerKeeps ==
  ASSUME SinkInv, NEW q \in Requests, HandlerStep(q)
  PROVE  /\ request'[q].content = request[q].content
         /\ request[q].state \in {"received", "allowed", "stored"}
         /\ request'[q].state # "unsent"
         /\ request[q].state = "stored" => Acknowledged(q)'
         /\ \A p \in Requests : p # q => request'[p] = request[p]
<1>1. request \in [Requests -> [state: HandlerStates, content: Contents \cup {NoContent},
                                status: Nat, view: SUBSET Nat]]
  BY DEF SinkInv, SinkTypeOK
<1> QED
  BY <1>1 DEF HandlerStep, CheckRequest, StoreEvent, AcceptEvent, ShowRun, Answers, Reaches,
              Acknowledged

(* What an attacker heard of is done with. *)
LEMMA HeardKept ==
  ASSUME SinkInv, SentInv, SinkMove
  PROVE  \A q \in heard : request'[q] = request[q]
<1>1. request \in [Requests -> [state: HandlerStates, content: Contents \cup {NoContent},
                                status: Nat, view: SUBSET Nat]]
  BY DEF SinkInv, SinkTypeOK
<1>2. \A q \in heard : q \in Requests /\ request[q].state = "answered"
  BY DEF SentInv, Acknowledged
<1>3. ASSUME NEW p \in Requests, HandlerStep(p) PROVE \A q \in heard : request'[q] = request[q]
  BY <1>2, <1>3, HandlerKeeps
<1>4. ASSUME NEW p \in Requests, BodyEnds(p) \/ BodyCut(p)
      PROVE  \A q \in heard : request'[q] = request[q]
  BY <1>1, <1>2, <1>4 DEF BodyEnds, BodyCut, Reaches
<1>5. ASSUME NEW p \in Requests, NEW c \in Offered, SendRequest(p, c)
      PROVE  \A q \in heard : request'[q] = request[q]
  BY <1>1, <1>2, <1>5 DEF SendRequest
<1> QED
  BY <1>3, <1>4, <1>5 DEF SinkMove, StartSink, CloseSink, RegisterRun, sinkVars

(* The run does not go back, and no attacker is unstarted. *)
LEMMA RunGoesOn ==
  ASSUME ResultInv, [RunnerNext]_vars
  PROVE  /\ task' \in {task, task + 1}
         /\ \A i \in Tasks : probe[i] # "absent" => probe'[i] # "absent"
<1> USE Known
<1>1. CASE RunnerStep \/ DockerStep \/ DockerUndo \/ Returned \/ UNCHANGED vars
  BY <1>1 DEF RunnerStep, Setup, LoadCatalog, ChooseSUT, CheckEnvironment, DescribeSUT,
              StartEvidence, RunTask, SkipTask, NewTaskAdapter, CreateSandbox, CleanUpFailedCreate,
              RecordCreateError, StartProbe, DestroySandbox, CollectEvents, RecordExecError,
              RunOracle, FinishRun, Return, Record, Goes, Local, probeVars, DockerStep, DockerUndo,
              ProbesFollowContainers, Returned, vars, runVars
<1>2. CASE ProbeStep \/ (\E q \in Requests : SinkReceives(q) \/ SinkHandles(q))
  BY <1>2 DEF ProbeStep, ProbeSends, ProbeExits, SinkReceives, SinkHandles, probeVars, runVars
<1> QED
  BY <1>1, <1>2 DEF RunnerNext

(* Who changes what the sink and the attackers have of a request. *)
LEMMA WhoTouches ==
  ASSUME [RunnerNext]_vars
  PROVE  /\ \/ UNCHANGED request
            \/ \E p \in Requests : HandlerStep(p) \/ BodyEnds(p) \/ BodyCut(p)
            \/ \E p \in Requests, c \in Offered : ProbeSends(p, c)
         /\ UNCHANGED allowedRuns \/ CreateSandbox
         /\ \/ UNCHANGED heard
            \/ \E q \in Requests : /\ HandlerStep(q) /\ request[q].state = "stored"
                                   /\ probe[q[1]] = "running" /\ heard' = heard \cup {q}
<1>1. CASE RunnerStep \/ DockerStep \/ DockerUndo \/ Returned \/ UNCHANGED vars
           \/ (\E i \in Tasks : ProbeExits(i))
  <2>1. UNCHANGED <<request, heard>> /\ (UNCHANGED allowedRuns \/ CreateSandbox)
    BY <1>1 DEF RunnerStep, Setup, LoadCatalog, ChooseSUT, CheckEnvironment, DescribeSUT,
                StartEvidence, StartSink, CloseSink, RegisterRun, RunTask, SkipTask,
                NewTaskAdapter, CreateSandbox, CleanUpFailedCreate, RecordCreateError, StartProbe,
                DestroySandbox, CollectEvents, RecordExecError, RunOracle, FinishRun, Return,
                Record, Goes, Local, probeVars, sinkVars, DockerStep, DockerUndo,
                ProbesFollowContainers, ProbeExits, Returned, vars
  <2> QED
    BY <2>1
<1>2. ASSUME NEW q \in Requests, NEW c \in Offered, ProbeSends(q, c)
      PROVE  UNCHANGED <<allowedRuns, heard>>
  BY <1>2 DEF ProbeSends, SendRequest, probeVars
<1>3. ASSUME NEW q \in Requests, SinkReceives(q)
      PROVE  (BodyEnds(q) \/ BodyCut(q)) /\ UNCHANGED <<allowedRuns, heard>>
  BY <1>3 DEF SinkReceives, BodyEnds, BodyCut, probeVars
<1>4. ASSUME NEW q \in Requests, SinkHandles(q)
      PROVE  /\ HandlerStep(q) /\ UNCHANGED allowedRuns
             /\ heard' = heard \/ (/\ request[q].state = "stored" /\ probe[q[1]] = "running"
                                  /\ heard' = heard \cup {q})
  BY <1>4 DEF SinkHandles, HandlerStep, CheckRequest, StoreEvent, AcceptEvent, ShowRun
<1> QED
  BY <1>1, <1>2, <1>3, <1>4 DEF RunnerNext, ProbeStep

LEMMA SentInvNext == ResultInv /\ SentInv /\ [RunnerNext]_vars => SentInv'
<1> SUFFICES ASSUME ResultInv, SentInv, [RunnerNext]_vars PROVE SentInv'
  OBVIOUS
<1> USE Known, RunGoesOn
<1>1. SinkInv /\ SinkMove /\ heard \subseteq Requests /\ Requests \subseteq Tasks \X Nat
  BY RunnerMovesSink, RequestAssumption DEF ResultInv, RunTypeInv, RunTypes
<1>2. request \in [Requests -> [state: HandlerStates, content: Contents \cup {NoContent},
                                status: Nat, view: SUBSET Nat]]
  BY <1>1 DEF SinkInv, SinkTypeOK
<1>3. ASSUME NEW q \in Requests, request'[q].state # "unsent" PROVE probe'[q[1]] # "absent"
  <2>1. q[1] \in Tasks
    BY <1>1
  <2>2. CASE request[q].state # "unsent"
    BY <2>1, <2>2 DEF SentInv
  <2>3. CASE request'[q] # request[q] /\ request[q].state = "unsent"
    <3>1. ASSUME NEW p \in Requests, HandlerStep(p) PROVE FALSE
      BY <1>1, <2>3, <3>1, HandlerKeeps
    <3>2. ASSUME NEW p \in Requests, BodyEnds(p) \/ BodyCut(p) PROVE FALSE
      BY <1>2, <2>3, <3>2 DEF BodyEnds, BodyCut, Reaches
    <3>3. ASSUME UNCHANGED request PROVE FALSE
      BY <2>3, <3>3
    <3>4. ASSUME NEW p \in Requests, NEW c \in Offered, ProbeSends(p, c) PROVE probe'[q[1]] # "absent"
      BY <1>2, <2>1, <2>3, <3>4 DEF ProbeSends, SendRequest
    <3>5. \/ \E p \in Requests : HandlerStep(p) \/ BodyEnds(p) \/ BodyCut(p)
          \/ \E p \in Requests, c \in Offered : ProbeSends(p, c)
          \/ UNCHANGED request
      BY WhoTouches
    <3> QED
      BY <3>1, <3>2, <3>3, <3>4, <3>5
  <2> QED
    BY <1>3, <2>2, <2>3
<1>4. ASSUME NEW r \in allowedRuns'
      PROVE  \E k \in Tasks : k <= task' /\ MayRun(k) /\ r = TaskRunID(k)
  <2>1. CASE r \in allowedRuns
    BY <2>1 DEF SentInv
  <2>2. CASE CreateSandbox
    <3>1. task \in Tasks /\ MayRun(task)
      BY <2>2 DEF CreateSandbox, ResultInv, RunTypeInv, GateInv, BehindGate
    <3> QED
      BY <2>1, <2>2, <3>1 DEF CreateSandbox, RegisterRun
  <2>3. CASE ~CreateSandbox /\ r \notin allowedRuns
    BY <2>3, WhoTouches
  <2> QED
    BY <2>1, <2>2, <2>3
<1>5. ASSUME NEW q \in heard' PROVE q \in Requests /\ Acknowledged(q)'
  <2>1. CASE q \in heard
    BY <1>1, <2>1, HeardKept DEF SentInv, Acknowledged
  <2>2. CASE q \notin heard
    <3>1. q \in Requests /\ HandlerStep(q) /\ request[q].state = "stored"
      BY <1>5, <2>2, WhoTouches
    <3> QED
      BY <1>1, <3>1, HandlerKeeps
  <2> QED
    BY <2>1, <2>2
<1> QED
  BY <1>3, <1>4, <1>5, GateFixed DEF SentInv, MayRun, TaskRunID

LEMMA SentInvHolds == RunnerSpec => []SentInv
BY ResultInvHolds, EvidenceInvInit, SentInvNext, PTL DEF RunnerSpec

(* What was acknowledged to the attacker is in the log, under the run id it*)
(* presented, once for each request: the events are at least as many.      *)
LEMMA AcknowledgedAreCounted ==
  ASSUME SinkInv, SentInv, NEW k \in Tasks
  PROVE  Cardinality(SentOf(k)) <= Cardinality(EventsOf(TaskRunID(k)))
<1>1. ASSUME NEW q \in SentOf(k)
      PROVE  \E i \in EventsOf(TaskRunID(k)) : events[i].payload = q
  <2>1. q \in Requests /\ Acknowledged(q) /\ Presented(q) = TaskRunID(k)
    BY <1>1 DEF SentOf, SentInv
  <2>2. PICK i \in DOMAIN events : events[i].payload = q /\ events[i].run = Presented(q)
    BY <2>1 DEF SinkInv, EvidenceExactlyOnce, Presented
  <2> QED
    BY <2>1, <2>2 DEF EventsOf
<1> DEFINE f == [q \in SentOf(k) |-> CHOOSE i \in EventsOf(TaskRunID(k)) : events[i].payload = q]
<1>2. \A q \in SentOf(k) : f[q] \in EventsOf(TaskRunID(k)) /\ events[f[q]].payload = q
  BY <1>1
<1>3. f \in Injection(SentOf(k), EventsOf(TaskRunID(k)))
  <2>1. f \in [SentOf(k) -> EventsOf(TaskRunID(k))]
    BY <1>2
  <2> HIDE DEF f
  <2>2. \A p, q \in SentOf(k) : f[p] = f[q] => p = q
    BY <1>2
  <2> QED
    BY <2>1, <2>2 DEF Injection, IsInjective
<1>4. IsFiniteSet(EventsOf(TaskRunID(k)))
  <2>1. IsFiniteSet(DOMAIN events)
    BY LenProperties, FS_Interval DEF SinkInv, SinkTypeOK
  <2> QED
    BY <2>1, FS_Subset DEF EventsOf
<1> HIDE DEF f
<1> QED
  BY <1>3, <1>4, FS_Injection

(* An event comes from an attacker that was started behind the gate. *)
LEMMA EventSender ==
  ASSUME ResultInv, SandboxInv, SentInv, NEW i \in DOMAIN events
  PROVE  LET sender == events[i].payload[1]
         IN  /\ sender \in Tasks /\ sender <= task
             /\ probe[sender] # "absent" /\ MayRun(sender)
<1> USE Known
<1>1. SinkInv
  BY DEF ResultInv, RunTypeInv
<1>2. events[i].payload \in Requests
  <2>1. events \in Seq(Event)
    BY <1>1 DEF SinkInv, SinkTypeOK
  <2>2. events[i] \in Event
    BY <2>1, ElementOfSeq, LenProperties
  <2> QED
    BY <2>2 DEF Event
<1>3. PICK q \in Requests : q = events[i].payload
  BY <1>2
<1>4. request[q].state # "unsent"
  BY <1>1, <1>3 DEF SinkInv, EvidenceExactlyOnce, Acknowledged
<1>5. q[1] \in Tasks /\ probe[q[1]] # "absent"
  BY <1>4, RequestAssumption DEF SentInv
<1>6. q[1] <= task
  BY <1>5 DEF SandboxInv, ProbeInv
<1>7. MayRun(q[1])
  BY <1>5 DEF ResultInv, RunTypeInv, GateInv, SandboxesAuthorised
<1> QED
  BY <1>3, <1>5, <1>6, <1>7

-----------------------------------------------------------------------------
(* The counts. *)

(* Steps after which the results, and the evidence in hand, are the same.  *)
LEMMA CountsKept ==
  ASSUME ResultInv, SandboxInv, SentInv, CountInv, [RunnerNext]_vars,
         UNCHANGED <<task, evidence, destroyErr>>, result'.tasks = result.tasks,
         pc = "verdict" <=> pc' = "verdict",
         \A i \in Tasks : probe'[i] = "running" => probe[i] = "running" \/ i = task,
         pc = "verdict" => \A i \in Tasks : probe'[i] = "running" => probe[i] = "running",
         \A q \in Requests : q \in heard' => q \in heard \/ probe[q[1]] = "running",
         heard \subseteq heard', heard' \subseteq Requests
  PROVE  CountInv'
<1> USE Known
<1>1. /\ \A i \in DOMAIN events : i \in DOMAIN events' /\ events'[i] = events[i]
      /\ evidence \subseteq DOMAIN events
  BY RunnerMovesSink, LogKept DEF ResultInv, RunTypeInv, RunTypes
<1>2. ASSUME NEW k, probe[k] # "running" PROVE SentOf(k)' = SentOf(k)
  <2>1. \A q \in heard : Presented(q)' = Presented(q)
    BY RunnerMovesSink, HeardKept DEF ResultInv, RunTypeInv, Presented
  <2> QED
    BY <1>2, <2>1 DEF SentOf, TaskRunID
<1>3. pc = "verdict" /\ destroyErr = "nil" => probe[task] # "running"
  BY DEF SandboxInv, StageInv, ProbeInv, Gone, BehindGate
<1>4. \A k \in DOMAIN result.tasks : k \in Tasks /\ k # task
  OBVIOUS
<1>5. pc' # "verdict" => evidence' = {}
  BY DEF CountInv
<1>6. \A i \in evidence' : events'[i].run = TaskRunID(task)
  BY <1>1 DEF CountInv
<1>7. pc' = "verdict" /\ destroyErr' = "nil" =>
        Cardinality(SentOf(task)') <= Cardinality(evidence')
  BY <1>2, <1>3 DEF CountInv
<1>8. \A k \in DOMAIN result'.tasks :
        "sink_event_count" \in result'.tasks[k].evidence /\ ~result'.tasks[k].cleanup =>
          probe'[k] # "running" /\ Cardinality(SentOf(k)') <= result'.tasks[k].events
  BY <1>2, <1>4 DEF CountInv
<1>9. \A k \in DOMAIN result'.tasks :
        result'.tasks[k].status \in BreachStatuses =>
          \E i \in DOMAIN events' : events'[i].run = TaskRunID(k) /\ events'[i].payload[1] <= k
  BY <1>1 DEF CountInv
<1> QED
  BY <1>5, <1>6, <1>7, <1>8, <1>9 DEF CountInv, TaskRunID

LEMMA CollectKeepsCounts ==
  ASSUME ResultInv, SandboxInv, SentInv, CountInv, CollectEvents
  PROVE  CountInv'
<1> USE Known
<1>1. /\ task \in Tasks /\ pc' = "verdict" /\ evidence' = EventsOf(TaskRunID(task))
      /\ UNCHANGED <<events, request, task, result, probe, heard>>
  BY DEF CollectEvents, BehindGate, probeVars, sinkVars
<1>2. Cardinality(SentOf(task)) <= Cardinality(EventsOf(TaskRunID(task)))
  BY <1>1, AcknowledgedAreCounted DEF ResultInv, RunTypeInv
<1> QED
  BY <1>1, <1>2 DEF CountInv, SentOf, Presented, EventsOf, TaskRunID

(* A recorded result counts the evidence in hand, and blames it only if    *)
(* there is some.                                                          *)
LEMMA RecordKeepsCounts ==
  ASSUME ResultInv, SandboxInv, SentInv, CountInv, task \in Tasks,
         NEW t \in TaskResults(TaskIDs), Record(t),
         "sink_event_count" \in t.evidence =>
           pc = "verdict" /\ t.events = Cardinality(evidence),
         t.cleanup \/ destroyErr = "nil" \/ pc # "verdict",
         t.status \in BreachStatuses => evidence # {}
  PROVE  CountInv'
<1> USE Known, Recorded
<1>1. /\ UNCHANGED <<events, request, probe, heard>> /\ evidence' = {}
      /\ evidence \subseteq DOMAIN events
  BY DEF Record, probeVars, sinkVars, ResultInv, RunTypeInv, RunTypes
<1>2. \A k \in DOMAIN result'.tasks : k = task \/ (k \in DOMAIN result.tasks
                                                 /\ result'.tasks[k] = result.tasks[k])
  OBVIOUS
<1>3. "sink_event_count" \in t.evidence /\ ~t.cleanup =>
        probe[task] # "running" /\ Cardinality(SentOf(task)) <= t.events
  BY DEF CountInv, SandboxInv, StageInv, ProbeInv, Gone
<1>4. t.status \in BreachStatuses =>
        \E i \in DOMAIN events : events[i].run = TaskRunID(task) /\ events[i].payload[1] <= task
  BY <1>1, EventSender DEF CountInv
<1>5. \A k \in DOMAIN result'.tasks :
        "sink_event_count" \in result'.tasks[k].evidence /\ ~result'.tasks[k].cleanup =>
          probe[k] # "running" /\ Cardinality(SentOf(k)) <= result'.tasks[k].events
  BY <1>2, <1>3 DEF CountInv
<1>6. \A k \in DOMAIN result'.tasks :
        result'.tasks[k].status \in BreachStatuses =>
          \E i \in DOMAIN events : events[i].run = TaskRunID(k) /\ events[i].payload[1] <= k
  BY <1>2, <1>4 DEF CountInv
<1> QED
  BY <1>1, <1>5, <1>6 DEF CountInv, SentOf, Presented, TaskRunID

LEMMA VerdictsKeepCounts ==
  ASSUME ResultInv, SandboxInv, SentInv, CountInv,
         SkipTask \/ RecordCreateError \/ RecordExecError \/ RunOracle
  PROVE  CountInv'
<1> USE Known
<1>1. execErr \in Outcomes /\ destroyErr \in Outcomes
  BY DEF ResultInv, RunTypeInv, RunTypes
<1>2. CASE SkipTask
  <2> DEFINE t == SkippedResult(Catalog[task].id)
  <2>1. task \in Tasks /\ pc # "verdict" /\ Record(t) /\ t \in TaskResults(TaskIDs)
    BY <1>2, SkippedIsResult DEF SkipTask, InLoop, TaskIDs
  <2>2. t.evidence = {} /\ t.status \notin BreachStatuses
    BY DEF SkippedResult, BreachStatuses
  <2> QED
    BY <2>1, <2>2, RecordKeepsCounts
<1>3. CASE RecordCreateError
  <2> DEFINE t == CreateErrorResult(Catalog[task].id, reply)
  <2>1. task \in Tasks /\ pc = "cleanup" /\ reply \in Outcomes /\ Record(t)
    BY <1>3 DEF RecordCreateError, BehindGate, ResultInv, RunTypeInv, Waiting
  <2>2. t \in TaskResults(TaskIDs)
    BY <2>1, CreateErrorIsResult DEF TaskIDs
  <2>3. t.evidence = {} /\ t.status \notin BreachStatuses
    BY DEF CreateErrorResult, BreachStatuses
  <2> QED
    BY <2>1, <2>2, <2>3, RecordKeepsCounts
<1>4. CASE RecordExecError \/ RunOracle
  <2>1. task \in Tasks /\ pc = "verdict"
    BY <1>4 DEF RecordExecError, RunOracle, BehindGate
  <2>2. Cardinality(evidence) \in Nat
    BY EvidenceCounted DEF ResultInv, RunTypeInv
  <2>3. Catalog[task].id \in TaskIDs /\ Catalog[task].level \in Levels
    BY <2>1, CatalogEntry DEF TaskIDs
  <2>4. CASE RecordExecError
    <3> DEFINE t == ExecErrorResult(Catalog[task].id, execErr, destroyErr, Cardinality(evidence))
    <3>1. Record(t) /\ t \in TaskResults(TaskIDs)
      BY <1>1, <2>2, <2>3, <2>4, ExecErrorIsResult DEF RecordExecError
    <3>2. /\ t.events = Cardinality(evidence) /\ t.status \notin BreachStatuses
          /\ t.cleanup \/ destroyErr = "nil"
      BY DEF ExecErrorResult, BreachStatuses
    <3> HIDE DEF t
    <3> QED
      BY <2>1, <3>1, <3>2, RecordKeepsCounts
  <2>5. CASE RunOracle
    <3>1. PICK output \in OracleOutputs :
            Record(JudgedResult(Catalog[task].id, output, Catalog[task].level, destroyErr,
                                Cardinality(evidence)))
      BY <2>5 DEF RunOracle
    <3> DEFINE t == JudgedResult(Catalog[task].id, output, Catalog[task].level, destroyErr,
                                 Cardinality(evidence))
    <3>2. Record(t) /\ t \in TaskResults(TaskIDs)
      BY <1>1, <2>2, <2>3, <3>1, JudgedIsResult
    <3>3. t.events = Cardinality(evidence) /\ (t.cleanup \/ destroyErr = "nil")
      BY DEF JudgedResult
    <3>4. t.status \in BreachStatuses => Cardinality(evidence) # 0
      BY DEF JudgedResult, OracleAccepted, BreachStatuses
    <3>5. t.status \in BreachStatuses => evidence # {}
      BY <3>4, FS_EmptySet
    <3> HIDE DEF t
    <3> QED
      BY <2>1, <3>2, <3>3, <3>5, RecordKeepsCounts
  <2> QED
    BY <1>4, <2>4, <2>5
<1> QED
  BY <1>2, <1>3, <1>4

LEMMA CountInvNext ==
  ResultInv /\ SandboxInv /\ SentInv /\ CountInv /\ [RunnerNext]_vars => CountInv'
<1> SUFFICES ASSUME ResultInv, SandboxInv, SentInv, CountInv, [RunnerNext]_vars PROVE CountInv'
  OBVIOUS
<1> USE Known
<1>1. heard \subseteq Requests
  BY DEF ResultInv, RunTypeInv, RunTypes
<1>2. ASSUME UNCHANGED <<task, evidence, destroyErr, heard>>, result'.tasks = result.tasks,
             pc # "verdict", pc' # "verdict",
             \A i \in Tasks : probe'[i] = "running" => probe[i] = "running" \/ i = task
      PROVE  CountInv'
  BY <1>1, <1>2, CountsKept
<1>3. ASSUME NEW failed \in BOOLEAN, Return(failed), pc # "verdict" PROVE CountInv'
  <2>1. /\ UNCHANGED <<task, evidence, destroyErr, heard, probe>> /\ pc' # "verdict"
        /\ result'.tasks = result.tasks
    BY <1>3 DEF Return, Local, probeVars, RunResults
  <2> QED
    BY <1>2, <1>3, <2>1
<1>4. CASE Setup \/ NewTaskAdapter \/ FinishRun
  <2>1. pc # "verdict"
    BY <1>4 DEF Setup, LoadCatalog, ChooseSUT, CheckEnvironment, DescribeSUT, StartEvidence,
                NewTaskAdapter, InLoop, FinishRun
  <2>2. \/ Return(TRUE) \/ Return(FALSE)
        \/ UNCHANGED <<task, evidence, destroyErr, heard, probe, result>> /\ pc' # "verdict"
    BY <1>4 DEF Setup, LoadCatalog, ChooseSUT, CheckEnvironment, DescribeSUT, StartEvidence,
                NewTaskAdapter, FinishRun, Goes, Local, probeVars
  <2> QED
    BY <1>2, <1>3, <2>1, <2>2
<1>5. CASE CreateSandbox \/ CleanUpFailedCreate \/ StartProbe
  <2>1. /\ UNCHANGED <<task, evidence, destroyErr, heard, result>>
        /\ pc # "verdict" /\ pc' # "verdict"
        /\ probe' \in {probe, [probe EXCEPT ![task] = "running"]}
    BY <1>5 DEF CreateSandbox, CleanUpFailedCreate, StartProbe, Goes, Local, probeVars
  <2> QED
    BY <1>2, <2>1
<1>6. CASE DestroySandbox
  BY <1>2, <1>6 DEF DestroySandbox, probeVars
<1>7. CASE CollectEvents
  BY <1>7, CollectKeepsCounts
<1>8. CASE SkipTask \/ RecordCreateError \/ RecordExecError \/ RunOracle
  BY <1>8, VerdictsKeepCounts
<1>9. CASE DockerStep \/ DockerUndo \/ ProbeStep \/ Returned \/ UNCHANGED vars
  <2>1. /\ UNCHANGED <<pc, task, result, destroyErr, evidence, heard>>
        /\ \A i \in Tasks : probe'[i] = "running" => probe[i] = "running"
    BY <1>9 DEF DockerStep, DockerUndo, ProbesFollowContainers, ProbeStep, ProbeSends,
                ProbeExits, Returned, vars, runVars, probeVars
  <2> QED
    BY <1>1, <2>1, CountsKept
<1>10. ASSUME NEW q \in Requests, SinkReceives(q) \/ SinkHandles(q) PROVE CountInv'
  <2>1. /\ UNCHANGED <<pc, task, result, destroyErr, evidence, probe>>
        /\ heard' = heard \/ (heard' = heard \cup {q} /\ probe[q[1]] = "running")
    BY <1>10 DEF SinkReceives, SinkHandles, runVars, probeVars
  <2> QED
    BY <1>1, <2>1, CountsKept
<1> QED
  BY <1>4, <1>5, <1>6, <1>7, <1>8, <1>9, <1>10 DEF RunnerNext, RunnerStep, RunTask

LEMMA CountInvHolds == RunnerSpec => []CountInv
BY ResultInvHolds, SandboxInvHolds, SentInvHolds, EvidenceInvInit, CountInvNext, PTL DEF RunnerSpec

(* Run, sink.go: whatever run ids attackers present, the log has events    *)
(* only under those of tasks that the run has reached behind the gate, and *)
(* only from attackers that were started behind it.                        *)
THEOREM EvidenceIsBehindGate == RunnerSpec => []EvidenceBehindGate
<1>1. ResultInv /\ SandboxInv /\ SentInv => EvidenceBehindGate
  <2> SUFFICES ASSUME ResultInv, SandboxInv, SentInv, NEW i \in DOMAIN events
               PROVE  /\ \E k \in Tasks : k <= task /\ MayRun(k) /\ events[i].run = TaskRunID(k)
                      /\ LET sender == events[i].payload[1]
                         IN  sender <= task /\ MayRun(sender) /\ probe[sender] # "absent"
    BY DEF EvidenceBehindGate
  <2>1. events[i].run \in allowedRuns
    BY DEF ResultInv, RunTypeInv, SinkInv, EventsOfRegisteredRuns
  <2>2. \E k \in Tasks : k <= task /\ MayRun(k) /\ events[i].run = TaskRunID(k)
    BY <2>1 DEF SentInv
  <2> QED
    BY <2>2, EventSender
<1> QED
  BY <1>1, ResultInvHolds, SandboxInvHolds, SentInvHolds, PTL

(* Run, runOracle (runner.go): whatever the oracle says, a breach is at the*)
(* level of the task, of a task behind the gate, and the log holds an event*)
(* under its run id, of an attacker that had been started by then.         *)
THEOREM BreachesHaveEvidence == RunnerSpec => []BreachHasEvidence
<1>1. ResultInv /\ CountInv => BreachHasEvidence
  <2> SUFFICES ASSUME ResultInv, CountInv, NEW k \in DOMAIN result.tasks,
                      result.tasks[k].status \in BreachStatuses
               PROVE  /\ result.tasks[k].level = Catalog[k].level /\ MayRun(k)
                      /\ \E i \in DOMAIN events :
                           events[i].run = TaskRunID(k) /\ events[i].payload[1] <= k
    BY DEF BreachHasEvidence
  <2>1. k \in Tasks /\ k < task
    BY Known
  <2>2. result.tasks[k].level = Catalog[k].level /\ MayRun(k)
    BY <2>1, SameProtocol DEF ResultInv, Bench!Admissible, BreachStatuses
  <2> QED
    BY <2>2 DEF CountInv
<1> QED
  BY <1>1, ResultInvHolds, CountInvHolds, PTL

(* Run (runner.go): what an attacker was told is recorded under its task's *)
(* run id is counted in the task's result, as the log is read once the     *)
(* sandbox is gone; unless it could not be removed, which then is on record*)
THEOREM HeardIsCounted == RunnerSpec => []HeardEvidenceCounted
<1>1. CountInv => HeardEvidenceCounted
  BY DEF CountInv, SentOf, HeardEvidenceCounted
<1> QED
  BY <1>1, CountInvHolds, PTL
=============================================================================
