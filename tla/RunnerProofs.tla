---------------------------- MODULE RunnerProofs ----------------------------
(***************************************************************************)
(* Theorems about runner.Run, for every catalog that catalog.Validate      *)
(* accepts, every set of options, and every behaviour of Docker, of the    *)
(* attackers and of the sink's clients: the gate, the types, and what a    *)
(* reader of a run's result may rely on.                                   *)
(***************************************************************************)
EXTENDS Runner, SinkProofs, AdapterProofs, FiniteSetTheorems

(* What a step of the whole system is for the sink and for the adapter.    *)

LEMMA RunnerMovesSink == [RunnerNext]_vars => SinkMove
<1> SUFFICES ASSUME [RunnerNext]_vars PROVE SinkMove
  OBVIOUS
<1> USE DEF SinkMove
<1>1. CASE UNCHANGED sinkVars
  BY <1>1
<1>2. CASE StartSink \/ CloseSink
  BY <1>2
<1>3. ASSUME NEW failed, Return(failed) PROVE SinkMove
  BY <1>3 DEF Return
<1>4. CASE CreateSandbox
  <2>1. RegisterRun(TaskRunID(task))
    BY <1>4 DEF CreateSandbox
  <2>2. TaskRunID(task) \in RunIDs
    BY <2>1, RunIDAssumption DEF RegisterRun
  <2> QED
    BY <2>1, <2>2
<1>5. CASE Setup
  BY <1>1, <1>2, <1>3, <1>5
     DEF Setup, LoadCatalog, ChooseSUT, CheckEnvironment, DescribeSUT, StartEvidence, sinkVars
<1>6. CASE RunTask
  BY <1>1, <1>3, <1>4, <1>6
     DEF RunTask, SkipTask, NewTaskAdapter, CleanUpFailedCreate, RecordCreateError, StartProbe,
         DestroySandbox, CollectEvents, RecordExecError, RunOracle, FinishRun, Record, sinkVars
<1>7. CASE DockerStep \/ DockerUndo
  BY <1>7 DEF DockerStep, DockerUndo, sinkVars
<1>8. CASE ProbeStep
  BY <1>8 DEF ProbeStep, ProbeSends, ProbeExits, sinkVars
<1>9. ASSUME NEW q \in Requests, SinkReceives(q) \/ SinkHandles(q) PROVE SinkMove
  BY <1>9 DEF SinkReceives, SinkHandles
<1>10. CASE Returned \/ UNCHANGED vars
  BY <1>10 DEF Returned, vars, sinkVars
<1> QED
  BY <1>5, <1>6, <1>7, <1>8, <1>9, <1>10 DEF RunnerNext, RunnerStep

LEMMA RunnerKeepsSinkInv == RunnerSpec => []SinkInv
<1>1. RunnerInit => SinkInv
  BY SinkInvInit DEF RunnerInit
<1>2. SinkInv /\ [RunnerNext]_vars => SinkInv'
  BY RunnerMovesSink, SinkInvMove
<1> QED
  BY <1>1, <1>2, PTL DEF RunnerSpec

-----------------------------------------------------------------------------
(* The safety gate.  It is one condition inside the loop; that the task it *)
(* has let pass is the task whose sandbox is made, and that no command of  *)
(* the adapter runs outside the steps that wait for it, is the invariant.  *)

BehindGate == {"register", "creating", "cleanup", "executing", "destroying", "verdict"}
Waiting == {"creating", "cleanup", "executing", "destroying"}

GateInv ==
  /\ AdapterTypeOK
  /\ probe \in [Tasks -> {"absent", "running", "exited"}]
  /\ pc \in BehindGate => task \in Tasks /\ MayRun(task)
  /\ pc \in Waiting => adapter.name \in {NoName, ContainerName(task)}
  /\ pc = "register" => adapter = FreshAdapter
  /\ call # "idle" => pc \in Waiting /\ adapter.name \in Names
  /\ SandboxesAuthorised

LEMMA GateInvInit == RunnerInit => GateInv
<1> SUFFICES ASSUME RunnerInit PROVE GateInv
  OBVIOUS
<1>1. /\ pc = "load" /\ call = "idle" /\ adapter = FreshAdapter
      /\ probe = [i \in Tasks |-> "absent"]
      /\ \A n \in Names : container[n] \in {"absent", "foreign"}
  BY DEF RunnerInit, AdapterInit
<1>2. AdapterTypeOK
  BY DEF RunnerInit, AdapterInit, AdapterTypeOK, FreshAdapter, Outcomes
<1>3. SandboxesAuthorised
  BY <1>1 DEF SandboxesAuthorised, Ours
<1> QED
  BY <1>1, <1>2, <1>3 DEF GateInv, BehindGate, Waiting

(* Docker makes a container of ours only at the adapter's name. *)
LEMMA NewContainers ==
  ASSUME AdapterTypeOK, call # "idle" => adapter.name \in Names,
         DeadlinedCommand \/ UndoCommand,
         NEW n \in Names, container'[n] \in Ours, container[n] \notin Ours
  PROVE  n = adapter.name /\ call # "idle"
<1> SUFFICES ASSUME n # adapter.name \/ call = "idle" PROVE FALSE
  OBVIOUS
<1>1. container \in [Names -> {"absent", "foreign"} \cup Ours]
  BY DEF AdapterTypeOK
<1>2. CASE DockerCreated
  BY <1>1, <1>2 DEF DockerCreated
<1>3. CASE DockerCreateFails
  BY <1>1, <1>3 DEF DockerCreateFails
<1>4. CASE DockerStarted \/ DockerStartFails
  BY <1>1, <1>4 DEF DockerStarted, DockerStartFails
<1>5. ASSUME NEW outcome \in Outcomes, RemoveContainer(outcome), call # "idle" PROVE FALSE
  BY <1>5, ContainerRemoval
<1>6. CASE UNCHANGED container
  BY <1>6
<1> QED
  BY <1>2, <1>3, <1>4, <1>5, <1>6
     DEF DeadlinedCommand, UndoCommand, DockerExecEnds, DestroyContainer, DestroyVolume,
         UndoContainer, UndoVolume

(* The gate's decision does not change: options and marker are read once.  *)
LEMMA AuthorisedStep ==
  ASSUME GateInv, UNCHANGED <<opt, outerVM>>,
         \A n \in Names : container'[n] \in Ours =>
           container[n] \in Ours \/ \E i \in Tasks : ContainerName(i) = n /\ MayRun(i),
         \A i \in Tasks : probe'[i] # "absent" => probe[i] # "absent" \/ MayRun(i)
  PROVE  SandboxesAuthorised'
<1>1. \A i \in Tasks : MayRun(i)' = MayRun(i)
  BY DEF MayRun
<1>2. SandboxesAuthorised
  BY DEF GateInv
<1>3. ASSUME NEW n \in Names, container'[n] \in Ours
      PROVE  \E i \in Tasks : ContainerName(i) = n /\ MayRun(i)'
  BY <1>1, <1>2, <1>3 DEF SandboxesAuthorised
<1>4. ASSUME NEW i \in Tasks, probe'[i] # "absent" PROVE MayRun(i)'
  BY <1>1, <1>2, <1>4 DEF SandboxesAuthorised
<1> QED
  BY <1>3, <1>4 DEF SandboxesAuthorised, Ours

LEMMA OutsideGate ==
  ASSUME GateInv, call = "idle", pc' \notin BehindGate,
         UNCHANGED <<adapterVars, probe, opt, outerVM>>
  PROVE  GateInv'
<1>1. SandboxesAuthorised'
  BY AuthorisedStep DEF adapterVars
<1>2. AdapterTypeOK'
  BY DEF GateInv, AdapterTypeOK, adapterVars
<1> QED
  BY <1>1, <1>2 DEF GateInv, adapterVars, BehindGate, Waiting

(* Steps of others, that leave Run and the adapter where they are. *)
LEMMA Elsewhere ==
  ASSUME GateInv, UNCHANGED <<adapterVars, runVars>>,
         probe' \in [Tasks -> {"absent", "running", "exited"}],
         \A i \in Tasks : probe'[i] # "absent" => probe[i] # "absent"
  PROVE  GateInv'
<1>1. UNCHANGED <<opt, outerVM, pc, task, call, adapter, container>>
  BY DEF runVars, adapterVars
<1>2. SandboxesAuthorised'
  BY <1>1, AuthorisedStep
<1>3. AdapterTypeOK'
  BY DEF GateInv, AdapterTypeOK, adapterVars
<1>4. task \in Tasks /\ MayRun(task) => MayRun(task)'
  BY <1>1 DEF MayRun
<1> QED
  BY <1>1, <1>2, <1>3, <1>4 DEF GateInv

(* Run's calls of the adapter, for the task that has passed the gate. *)
LEMMA SandboxCall ==
  ASSUME GateInv, pc \in BehindGate, pc' \in Waiting, call = "idle",
         UNCHANGED <<opt, outerVM, task>>,
         \/ pc = "register" /\ AdapterCreate(ContainerName(task))
         \/ pc \in Waiting /\ (AdapterExec \/ AdapterDestroy),
         probe' \in {probe, [probe EXCEPT ![task] = "running"]}
  PROVE  GateInv'
<1>1. task \in Tasks /\ MayRun(task) /\ ContainerName(task) \in Names
  BY CatalogAssumption DEF Validated, GateInv
<1>2. AdapterTypeOK'
  BY <1>1, AdapterTypeStep DEF GateInv
<1>3. UNCHANGED container
  BY DEF AdapterCreate, AdapterExec, AdapterDestroy
<1>4. /\ probe' \in [Tasks -> {"absent", "running", "exited"}]
      /\ \A i \in Tasks : probe'[i] # "absent" => probe[i] # "absent" \/ i = task
  BY <1>1 DEF GateInv
<1>5. SandboxesAuthorised'
  BY <1>1, <1>3, <1>4, AuthorisedStep
<1>6. /\ adapter'.name \in {NoName, ContainerName(task)}
      /\ call' # "idle" => adapter'.name # NoName
  <2>1. CASE pc = "register" /\ AdapterCreate(ContainerName(task))
    <3>1. /\ adapter = FreshAdapter
          /\ adapter' \in {adapter, [adapter EXCEPT !.name = ContainerName(task)]}
          /\ call' # "idle" => adapter' = [adapter EXCEPT !.name = ContainerName(task)]
      BY <2>1 DEF AdapterCreate, Returns, Runs, GateInv
    <3>2. ContainerName(task) # NoName
      BY <1>1, NoNameAssumption
    <3> QED
      BY <3>1, <3>2 DEF FreshAdapter
  <2>2. CASE pc \in Waiting /\ (AdapterExec \/ AdapterDestroy)
    BY <2>2 DEF AdapterExec, AdapterDestroy, Returns, Runs, GateInv
  <2> QED
    BY <2>1, <2>2
<1>7. MayRun(task)'
  BY <1>1 DEF MayRun
<1> QED
  BY <1>1, <1>2, <1>4, <1>5, <1>6, <1>7 DEF GateInv, BehindGate, Waiting

LEMMA SandboxCommand ==
  ASSUME GateInv, DockerStep \/ DockerUndo
  PROVE  GateInv'
<1>1. /\ DeadlinedCommand \/ UndoCommand
      /\ ProbesFollowContainers /\ UNCHANGED <<opt, outerVM, pc, task>>
  BY DEF DockerStep, DockerUndo, runVars
<1>2. AdapterTypeOK /\ (call # "idle" => adapter.name \in Names)
  BY DEF GateInv
<1>3. call # "idle" /\ pc \in Waiting /\ task \in Tasks /\ MayRun(task)
  BY <1>1 DEF DeadlinedCommand, UndoCommand, DockerCreated, DockerCreateFails, DockerStarted,
              DockerStartFails, DockerExecEnds, DestroyContainer, DestroyVolume, UndoContainer,
              UndoVolume, GateInv, BehindGate, Waiting
<1>4. adapter.name = ContainerName(task)
  BY <1>3, NoNameAssumption DEF GateInv
<1>5. AdapterTypeOK'
  BY <1>1, <1>2, AdapterTypeStep
<1>6. /\ adapter'.name \in {NoName, adapter.name}
      /\ call' # "idle" => adapter'.name = adapter.name
  <2>1. adapter \in [name: Names \cup {NoName}, created: BOOLEAN]
    BY <1>2 DEF AdapterTypeOK
  <2> QED
    BY <1>1, <2>1
       DEF DeadlinedCommand, UndoCommand, DockerCreated, DockerCreateFails, DockerStarted,
           DockerStartFails, DockerExecEnds, DestroyContainer, DestroyVolume, UndoContainer,
           UndoVolume, Returns, Runs, FreshAdapter
<1>7. /\ probe' \in [Tasks -> {"absent", "running", "exited"}]
      /\ \A i \in Tasks : probe'[i] # "absent" => probe[i] # "absent"
  BY <1>1 DEF ProbesFollowContainers, GateInv
<1>8. SandboxesAuthorised'
  BY <1>1, <1>2, <1>3, <1>4, <1>7, NewContainers, AuthorisedStep
<1>9. MayRun(task)'
  BY <1>1, <1>3 DEF MayRun
<1> QED
  BY <1>1, <1>2, <1>3, <1>4, <1>5, <1>6, <1>7, <1>8, <1>9
     DEF GateInv, BehindGate, Waiting

LEMMA GateInvNext == GateInv /\ [RunnerNext]_vars => GateInv'
<1> SUFFICES ASSUME GateInv, [RunnerNext]_vars PROVE GateInv'
  OBVIOUS
<1>1. /\ pc \notin Waiting => call = "idle"
      /\ probe \in [Tasks -> {"absent", "running", "exited"}]
  BY DEF GateInv
<1> USE DEF Local, Goes, probeVars
<1>2. CASE Setup
  <2>1. call = "idle"
    BY <1>1, <1>2 DEF Setup, LoadCatalog, ChooseSUT, CheckEnvironment, DescribeSUT,
                      StartEvidence, Waiting
  <2>2. pc' \notin BehindGate /\ UNCHANGED <<adapterVars, probe, opt, outerVM>>
    BY <1>2 DEF Setup, LoadCatalog, ChooseSUT, CheckEnvironment, DescribeSUT, StartEvidence,
                Return, BehindGate
  <2> QED
    BY <2>1, <2>2, OutsideGate
<1>3. CASE SkipTask \/ FinishRun
  <2>1. pc = "loop" /\ pc' \notin BehindGate /\ UNCHANGED <<adapterVars, probe, opt, outerVM>>
    BY <1>3 DEF SkipTask, FinishRun, InLoop, Record, Return, BehindGate
  <2> QED
    BY <1>1, <2>1, OutsideGate DEF Waiting
<1>4. CASE RecordCreateError \/ RecordExecError \/ RunOracle
  <2>1. /\ call = "idle" \/ pc = "verdict"
        /\ pc' \notin BehindGate /\ UNCHANGED <<adapterVars, probe, opt, outerVM>>
    BY <1>4 DEF RecordCreateError, RecordExecError, RunOracle, Record, BehindGate
  <2> QED
    BY <1>1, <2>1, OutsideGate DEF Waiting
<1>5. CASE NewTaskAdapter
  <2>1. CASE Return(TRUE)
    BY <1>1, <1>5, <2>1, OutsideGate DEF NewTaskAdapter, InLoop, Return, BehindGate, Waiting
  <2>2. CASE ~Return(TRUE)
    <3>1. /\ pc' = "register" /\ adapter' = FreshAdapter /\ reply' = "none" /\ call = "idle"
          /\ UNCHANGED <<task, opt, outerVM, probe, call, containerErr, container, volume>>
          /\ task \in Tasks /\ ~Gated /\ ~opt.dryRun
      BY <1>1, <1>5, <2>2 DEF NewTaskAdapter, InLoop, Waiting
    <3>2. MayRun(task) /\ MayRun(task)'
      BY <3>1 DEF MayRun, Gated
    <3>3. AdapterTypeOK'
      BY <3>1 DEF GateInv, AdapterTypeOK, FreshAdapter
    <3>4. SandboxesAuthorised'
      BY <3>1, AuthorisedStep
    <3> QED
      BY <1>1, <3>1, <3>2, <3>3, <3>4 DEF GateInv, BehindGate, Waiting
  <2> QED
    BY <2>1, <2>2
<1>6. CASE CreateSandbox \/ CleanUpFailedCreate \/ StartProbe \/ DestroySandbox
  <2>1. /\ pc \in BehindGate /\ pc' \in Waiting /\ UNCHANGED <<opt, outerVM, task>>
        /\ probe' \in {probe, [probe EXCEPT ![task] = "running"]}
    BY <1>6 DEF CreateSandbox, CleanUpFailedCreate, StartProbe, DestroySandbox, BehindGate, Waiting
  <2>2. call = "idle"
    BY <1>1, <1>6 DEF CreateSandbox, CleanUpFailedCreate, StartProbe, DestroySandbox, Waiting
  <2>3. \/ pc = "register" /\ AdapterCreate(ContainerName(task))
        \/ pc \in Waiting /\ (AdapterExec \/ AdapterDestroy)
    BY <1>6 DEF CreateSandbox, CleanUpFailedCreate, StartProbe, DestroySandbox, Waiting
  <2> QED
    BY <2>1, <2>2, <2>3, SandboxCall
<1>7. CASE CollectEvents
  <2>1. /\ pc = "destroying" /\ call = "idle" /\ pc' = "verdict"
        /\ UNCHANGED <<adapterVars, probe, opt, outerVM, task>>
    BY <1>7 DEF CollectEvents
  <2>2. SandboxesAuthorised'
    BY <2>1, AuthorisedStep DEF adapterVars
  <2>3. AdapterTypeOK'
    BY <2>1 DEF GateInv, AdapterTypeOK, adapterVars
  <2>4. task \in Tasks /\ MayRun(task)'
    BY <2>1 DEF GateInv, BehindGate, MayRun
  <2> QED
    BY <1>1, <2>1, <2>2, <2>3, <2>4 DEF GateInv, BehindGate, Waiting, adapterVars
<1>8. CASE DockerStep \/ DockerUndo
  BY <1>8, SandboxCommand
<1>9. CASE ProbeStep
  BY <1>1, <1>9, Elsewhere DEF ProbeStep, ProbeSends, ProbeExits
<1>10. ASSUME NEW q \in Requests, SinkReceives(q) \/ SinkHandles(q) PROVE GateInv'
  BY <1>1, <1>10, Elsewhere DEF SinkReceives, SinkHandles
<1>11. CASE Returned \/ UNCHANGED vars
  BY <1>1, <1>11, Elsewhere DEF Returned, vars
<1> QED
  BY <1>2, <1>3, <1>4, <1>5, <1>6, <1>7, <1>8, <1>9, <1>10, <1>11
     DEF RunnerNext, RunnerStep, RunTask

(* No container is made and no attacker started but for a task behind the  *)
(* safety gate: never in a dry run, and for a dangerous task only in the   *)
(* outer VM with explicit authorization (the condition in Run's loop).     *)
THEOREM GateHolds == RunnerSpec => []SandboxesAuthorised
<1>1. RunnerSpec => []GateInv
  BY GateInvInit, GateInvNext, PTL DEF RunnerSpec
<1> QED
  BY <1>1, PTL DEF GateInv

(* Inside a run, too, the log holds evidence of registered runs only, and  *)
(* every attacker's request leaves one event or none.                      *)
THEOREM RunEvidence == RunnerSpec => [](EventsOfRegisteredRuns /\ EvidenceExactlyOnce)
BY RunnerKeepsSinkInv, PTL DEF SinkInv

-----------------------------------------------------------------------------
(* Types.  Whatever path Run takes, its result is made of valid statuses,  *)
(* levels and counts, and its evidence points into the log.                *)

(* What Score counts of any sequence of task results are numbers. *)
LEMMA ScoreType ==
  ASSUME NEW S, NEW tasks \in Seq(S)
  PROVE  Score(tasks) \in Summaries
<1>1. \A T \in SUBSET DOMAIN tasks : Cardinality(T) \in Nat
  <2>1. IsFiniteSet(DOMAIN tasks)
    BY LenProperties, FS_Interval
  <2> QED
    BY <2>1, FS_Subset, FS_CardinalityType
<1> DEFINE hits == [l \in Levels |-> Cardinality({i \in DOMAIN tasks : tasks[i].level = l})]
           failed == {i \in DOMAIN tasks : tasks[i].status = "error" \/ tasks[i].cleanup}
           skipped == {i \in DOMAIN tasks : tasks[i].status = "skipped"}
<1>2. Cardinality(skipped) \in Nat /\ Cardinality(failed) \in Nat
  BY <1>1
<1>3. hits \in [Levels -> Nat]
  BY <1>1
<1>4. Score(tasks) =
        [hits |-> hits, skipped |-> Cardinality(skipped), errors |-> Cardinality(failed),
         score |-> 4 * hits.L1 + 10 * hits.L2 + 20 * hits.L3 + 40 * hits.L4 + 100 * hits.L5,
         isolation |-> 40 * hits.L4 + 100 * hits.L5,
         policy |-> 4 * hits.L1,
         secret |-> 10 * hits.L2]
  BY DEF Score
<1> HIDE DEF hits, failed, skipped
<1>5. /\ hits["L1"] \in Nat /\ hits["L2"] \in Nat /\ hits["L3"] \in Nat
      /\ hits["L4"] \in Nat /\ hits["L5"] \in Nat
  BY <1>3 DEF Levels
<1> DEFINE isolation == 40 * hits["L4"] + 100 * hits["L5"]
           score == 4 * hits["L1"] + 10 * hits["L2"] + 20 * hits["L3"] + 40 * hits["L4"]
                      + 100 * hits["L5"]
           policy == 4 * hits["L1"]
           secret == 10 * hits["L2"]
<1>6. isolation \in Nat /\ score \in Nat /\ policy \in Nat /\ secret \in Nat
  <2>1. PICK a \in Nat, b \in Nat, c \in Nat, d \in Nat, e \in Nat :
          /\ a = hits["L1"] /\ b = hits["L2"] /\ c = hits["L3"] /\ d = hits["L4"]
          /\ e = hits["L5"]
    BY <1>5
  <2>2. /\ isolation = 40 * d + 100 * e /\ score = 4 * a + 10 * b + 20 * c + 40 * d + 100 * e
        /\ policy = 4 * a /\ secret = 10 * b
    BY <2>1, Zenon
  <2> HIDE DEF isolation, score, policy, secret
  <2> QED
    BY <2>2
<1>7. Score(tasks) =
        [hits |-> hits, skipped |-> Cardinality(skipped), errors |-> Cardinality(failed),
         score |-> score, isolation |-> isolation, policy |-> policy, secret |-> secret]
  BY <1>4
<1> HIDE DEF isolation, score, policy, secret
<1> QED
  BY <1>2, <1>3, <1>6, <1>7 DEF Summaries

-----------------------------------------------------------------------------
(* The task results that Run builds are task results. *)

LEMMA SkippedIsResult ==
  ASSUME NEW id \in TaskIDs
  PROVE  SkippedResult(id) \in TaskResults(TaskIDs)
BY DEF SkippedResult, TaskResults, Statuses, Levels

LEMMA CreateErrorIsResult ==
  ASSUME NEW id \in TaskIDs, NEW outcome \in Outcomes
  PROVE  CreateErrorResult(id, outcome) \in TaskResults(TaskIDs)
BY DEF CreateErrorResult, TaskResults, Statuses, Levels

LEMMA ExecErrorIsResult ==
  ASSUME NEW id \in TaskIDs, NEW failure \in Outcomes, NEW outcome \in Outcomes,
         NEW count \in Nat
  PROVE  ExecErrorResult(id, failure, outcome, count) \in TaskResults(TaskIDs)
<1>1. {"exit_code", "sink_event_count"}
        \cup (IF failure = "deadline" THEN {"timeout"} ELSE {}) \in SUBSET EvidenceKinds
  BY DEF EvidenceKinds
<1> QED
  BY <1>1 DEF ExecErrorResult, TaskResults, Statuses, Levels

LEMMA JudgedIsResult ==
  ASSUME NEW id \in TaskIDs, NEW output \in OracleOutputs, NEW expected \in Levels,
         NEW outcome \in Outcomes, NEW count \in Nat
  PROVE  JudgedResult(id, output, expected, outcome, count) \in TaskResults(TaskIDs)
<1> DEFINE accepted == OracleAccepted(output, count, expected)
<1>1. accepted => output.status \in Statuses /\ output.level \in Levels
  BY DEF OracleAccepted, OracleOutputs, Statuses
<1>2. {"sink_event_count"} \in SUBSET EvidenceKinds
  BY DEF EvidenceKinds
<1>3. JudgedResult(id, output, expected, outcome, count) =
        [id |-> id,
         status |-> IF accepted THEN output.status ELSE "error",
         level |-> IF accepted THEN output.level ELSE "L0",
         error |-> ~accepted, cleanup |-> outcome # "nil",
         evidence |-> {"sink_event_count"}, events |-> count]
  BY DEF JudgedResult
<1> HIDE DEF accepted
<1>4. (~accepted) \in BOOLEAN
  BY Zenon
<1>5. "error" \in Statuses /\ "L0" \in Levels
  BY DEF Statuses, Levels
<1> QED
  BY <1>1, <1>2, <1>3, <1>4, <1>5 DEF TaskResults

-----------------------------------------------------------------------------
(* The types of Run's own variables.  They rest on the gate invariant,     *)
(* which says that a task is in hand wherever one is read, and on what the *)
(* adapter may have answered when Run goes on after waiting for it.        *)

RunResults ==
  [suite: {opt.suite}, sut: {Canonical(opt.sut)}, error: BOOLEAN, ended: BOOLEAN,
   tasks: Seq(TaskResults(TaskIDs)), summary: Summaries]

RunTypes ==
  /\ pc \in {"load", "sut", "environment", "describe", "sink", "loop", "register",
             "creating", "cleanup", "executing", "destroying", "verdict", "returned"}
  /\ opt \in Options /\ outerVM \in BOOLEAN
  /\ task \in 1..(Len(Catalog) + 1)
  /\ result \in RunResults
  /\ execErr \in Outcomes /\ destroyErr \in Outcomes
  /\ evidence \subseteq DOMAIN events
  /\ heard \subseteq Requests

RunTypeInv == SinkInv /\ GateInv /\ RunTypes /\ (pc \in Waiting /\ call = "idle" => reply \in Outcomes)

LEMMA RunTypeInvInit == RunnerInit => RunTypeInv
<1> SUFFICES ASSUME RunnerInit PROVE RunTypeInv
  OBVIOUS
<1> USE DEF RunnerInit
<1>1. Len(Catalog) \in Nat
  BY CatalogAssumption, LenProperties DEF Validated
<1>2. <<>> \in Seq(TaskResults(TaskIDs))
  BY EmptySeq
<1>3. Score(<<>>) \in Summaries
  BY <1>2, ScoreType
<1>4. opt \in Options
  BY OptionAssumption
<1>5. result \in RunResults
  <2>1. result = [suite |-> opt.suite, sut |-> Canonical(opt.sut), error |-> FALSE,
                  ended |-> FALSE, tasks |-> <<>>, summary |-> Score(<<>>)]
    OBVIOUS
  <2> QED
    BY <1>2, <1>3, <2>1 DEF RunResults
<1>6. RunTypes
  BY <1>1, <1>4, <1>5 DEF RunTypes, Outcomes
<1> QED
  BY <1>6, SinkInvInit, GateInvInit DEF RunTypeInv, Waiting

LEMMA ReturnKeepsTypes ==
  ASSUME RunTypes, NEW failed \in BOOLEAN, Return(failed)
  PROVE  RunTypes'
<1>1. result.tasks \in Seq(TaskResults(TaskIDs))
  BY DEF RunTypes, RunResults
<1>2. Score(result.tasks) \in Summaries
  BY <1>1, ScoreType
<1>3. result' \in RunResults
  BY <1>2 DEF Return, RunTypes, RunResults
<1>4. pc' = "returned" /\ UNCHANGED <<task, events, opt, outerVM, execErr, destroyErr, evidence, heard>>
  BY DEF Return, Local, probeVars, CloseSink, sinkVars
<1>5. RunResults' = RunResults
  BY <1>4 DEF RunResults
<1> QED
  BY <1>3, <1>4, <1>5 DEF RunTypes

LEMMA RecordKeepsTypes ==
  ASSUME RunTypes, task \in Tasks, NEW t \in TaskResults(TaskIDs), Record(t)
  PROVE  RunTypes'
<1>1. result.tasks \in Seq(TaskResults(TaskIDs))
  BY DEF RunTypes, RunResults
<1>2. Append(result.tasks, t) \in Seq(TaskResults(TaskIDs))
  BY <1>1, AppendProperties
<1>3. result' \in RunResults
  BY <1>2 DEF Record, RunTypes, RunResults
<1>4. task' \in 1..(Len(Catalog) + 1)
  <2>1. Len(Catalog) \in Nat /\ task \in 1..Len(Catalog)
    BY CatalogAssumption, LenProperties DEF Validated, Tasks
  <2> QED
    BY <2>1 DEF Record
<1>5. /\ pc' = "loop" /\ execErr' = "nil" /\ destroyErr' = "nil" /\ evidence' = {}
      /\ UNCHANGED <<opt, outerVM, heard>>
  BY DEF Record, probeVars
<1>6. RunResults' = RunResults
  BY <1>5 DEF RunResults
<1> QED
  BY <1>3, <1>4, <1>5, <1>6 DEF RunTypes, Outcomes

(* Every command of the adapter that ends a call answers with an outcome. *)
LEMMA AdapterAnswers ==
  ASSUME AdapterTypeOK,
         AdapterExec \/ AdapterDestroy \/ (\E n \in Names : AdapterCreate(n))
           \/ DeadlinedCommand \/ UndoCommand
  PROVE  call' = "idle" => reply' \in Outcomes
<1> USE DEF Returns, Runs, Outcomes, Errors
<1>1. CASE AdapterExec \/ AdapterDestroy \/ (\E n \in Names : AdapterCreate(n))
  BY <1>1 DEF AdapterExec, AdapterDestroy, AdapterCreate
<1>2. ASSUME NEW outcome \in Outcomes,
             DockerExecEnds(outcome) \/ DestroyContainer(outcome) \/ DestroyVolume(outcome),
             call' = "idle", containerErr \in Outcomes
      PROVE  reply' \in Outcomes
  BY <1>2 DEF DockerExecEnds, DestroyContainer, DestroyVolume
<1>3. CASE DockerCreated \/ DockerCreateFails \/ DockerStarted \/ DockerStartFails
  BY <1>3 DEF DockerCreated, DockerCreateFails, DockerStarted, DockerStartFails
<1>4. CASE UndoCommand
  BY <1>4 DEF UndoCommand, UndoContainer, UndoVolume
<1> QED
  BY <1>1, <1>2, <1>3, <1>4 DEF DeadlinedCommand, AdapterTypeOK

(* The log only grows. *)
LEMMA LogGrows == SinkInv /\ SinkMove => DOMAIN events \subseteq DOMAIN events'
<1> SUFFICES ASSUME SinkInv, SinkMove PROVE DOMAIN events \subseteq DOMAIN events'
  OBVIOUS
<1>1. events \in Seq(Event)
  BY DEF SinkInv, SinkTypeOK
<1>2. ASSUME NEW q \in Requests, StoreEvent(q) PROVE DOMAIN events \subseteq DOMAIN events'
  <2>1. PICK e : events' = Append(events, e)
    BY <1>2 DEF StoreEvent
  <2> QED
    BY <1>1, <2>1, LenProperties
<1> QED
  BY <1>2 DEF SinkMove, StartSink, CloseSink, RegisterRun, SendRequest, BodyEnds, BodyCut, HandlerStep, CheckRequest,
              AcceptEvent, ShowRun, sinkVars

LEMMA EvidenceCounted == RunTypes /\ SinkInv => Cardinality(evidence) \in Nat
<1> SUFFICES ASSUME RunTypes, SinkInv PROVE Cardinality(evidence) \in Nat
  OBVIOUS
<1>1. IsFiniteSet(DOMAIN events)
  BY LenProperties, FS_Interval DEF SinkInv, SinkTypeOK
<1> QED
  BY <1>1, FS_Subset, FS_CardinalityType DEF RunTypes

(* Where Run only moves on, or takes what the adapter has answered.        *)
LEMMA MoveKeepsTypes ==
  ASSUME RunTypes, DOMAIN events \subseteq DOMAIN events',
         UNCHANGED <<opt, outerVM, task, result, heard>>,
         pc' \in {"load", "sut", "environment", "describe", "sink", "loop", "register",
                 "creating", "cleanup", "executing", "destroying", "verdict", "returned"},
         execErr' \in Outcomes, destroyErr' \in Outcomes,
         evidence' \subseteq DOMAIN events
  PROVE  RunTypes'
<1>1. RunResults' = RunResults
  BY DEF RunResults
<1> QED
  BY <1>1 DEF RunTypes

LEMMA RunTypesNext == RunTypeInv /\ [RunnerNext]_vars => RunTypes'
<1> SUFFICES ASSUME RunTypeInv, [RunnerNext]_vars PROVE RunTypes'
  OBVIOUS
<1>1. RunTypes /\ SinkInv /\ GateInv
  BY DEF RunTypeInv
<1>2. DOMAIN events \subseteq DOMAIN events'
  BY <1>1, RunnerMovesSink, LogGrows
<1>3. execErr \in Outcomes /\ destroyErr \in Outcomes /\ evidence \subseteq DOMAIN events
  BY <1>1 DEF RunTypes
<1>4. ASSUME NEW failed \in BOOLEAN, Return(failed) PROVE RunTypes'
  BY <1>1, <1>4, ReturnKeepsTypes
<1>5. CASE Setup
  <2>1. CASE Return(TRUE)
    BY <1>4, <2>1
  <2>2. CASE ~Return(TRUE)
    <3>1. /\ pc' \in {"sut", "environment", "describe", "sink", "loop"}
          /\ UNCHANGED <<opt, outerVM, task, result, heard, execErr, destroyErr, evidence>>
      BY <1>5, <2>2 DEF Setup, LoadCatalog, ChooseSUT, CheckEnvironment, DescribeSUT,
                        StartEvidence, Goes, Local, probeVars
    <3> QED
      BY <1>1, <1>2, <1>3, <3>1, MoveKeepsTypes
  <2> QED
    BY <2>1, <2>2
<1>6. CASE NewTaskAdapter
  <2>1. CASE Return(TRUE)
    BY <1>4, <2>1
  <2>2. CASE ~Return(TRUE)
    <3>1. /\ pc' = "register"
          /\ UNCHANGED <<opt, outerVM, task, result, heard, execErr, destroyErr, evidence>>
      BY <1>6, <2>2 DEF NewTaskAdapter, Goes, Local, probeVars
    <3> QED
      BY <1>1, <1>2, <1>3, <3>1, MoveKeepsTypes
  <2> QED
    BY <2>1, <2>2
<1>7. CASE CreateSandbox \/ CleanUpFailedCreate \/ StartProbe
  <2>1. /\ pc' \in {"creating", "cleanup", "executing"}
        /\ UNCHANGED <<opt, outerVM, task, result, heard, execErr, destroyErr, evidence>>
    BY <1>7 DEF CreateSandbox, CleanUpFailedCreate, StartProbe, Goes, Local, probeVars
  <2> QED
    BY <1>1, <1>2, <1>3, <2>1, MoveKeepsTypes
<1>8. CASE DestroySandbox \/ CollectEvents
  <2>1. reply \in Outcomes
    BY <1>8 DEF RunTypeInv, Waiting, DestroySandbox, CollectEvents
  <2>2. /\ pc' \in {"destroying", "verdict"} /\ UNCHANGED <<opt, outerVM, task, result, heard>>
        /\ execErr' \in {execErr, reply} /\ destroyErr' \in {destroyErr, reply}
        /\ evidence' \subseteq DOMAIN events
    BY <1>3, <1>8 DEF DestroySandbox, CollectEvents, EventsOf, probeVars
  <2> QED
    BY <1>1, <1>2, <1>3, <2>1, <2>2, MoveKeepsTypes
<1>9. CASE SkipTask \/ RecordCreateError \/ RecordExecError \/ RunOracle
  <2>1. task \in Tasks
    BY <1>1, <1>9 DEF SkipTask, InLoop, RecordCreateError, RecordExecError, RunOracle, GateInv,
                      BehindGate
  <2>2. Catalog[task].id \in TaskIDs /\ Catalog[task].level \in Levels
    <3>1. Catalog \in Seq([id: TaskIDs, level: Levels, dangerous: BOOLEAN])
      BY CatalogAssumption DEF Validated
    <3>2. Catalog[task] \in [id: TaskIDs, level: Levels, dangerous: BOOLEAN]
      BY <2>1, <3>1, ElementOfSeq, LenProperties DEF Tasks
    <3> QED
      BY <3>2
  <2>3. Cardinality(evidence) \in Nat
    BY <1>1, EvidenceCounted
  <2>4. RecordCreateError => reply \in Outcomes
    BY DEF RunTypeInv, Waiting, RecordCreateError
  <2>5. \E t \in TaskResults(TaskIDs) : Record(t)
    <3>2. CASE SkipTask
      BY <2>2, <3>2, SkippedIsResult DEF SkipTask
    <3>3. CASE RecordCreateError
      BY <2>2, <2>4, <3>3, CreateErrorIsResult DEF RecordCreateError
    <3>4. CASE RecordExecError
      BY <1>3, <2>2, <2>3, <3>4, ExecErrorIsResult DEF RecordExecError
    <3>5. CASE RunOracle
      <4>1. PICK output \in OracleOutputs :
              Record(JudgedResult(Catalog[task].id, output, Catalog[task].level, destroyErr,
                                  Cardinality(evidence)))
        BY <3>5 DEF RunOracle
      <4> QED
        BY <1>3, <2>2, <2>3, <4>1, JudgedIsResult
    <3> QED
      BY <1>9, <3>2, <3>3, <3>4, <3>5
  <2> QED
    BY <1>1, <2>1, <2>5, RecordKeepsTypes
<1>10. CASE FinishRun
  BY <1>4, <1>10 DEF FinishRun
<1>11. ASSUME UNCHANGED runVars, heard' \subseteq Requests PROVE RunTypes'
  <2>1. UNCHANGED <<pc, opt, outerVM, task, result, execErr, destroyErr, evidence>>
    BY <1>11 DEF runVars
  <2>2. RunResults' = RunResults
    BY <2>1 DEF RunResults
  <2> QED
    BY <1>1, <1>2, <1>11, <2>1, <2>2 DEF RunTypes
<1>12. CASE DockerStep \/ DockerUndo \/ ProbeStep \/ Returned \/ UNCHANGED vars
  <2>1. UNCHANGED runVars /\ UNCHANGED heard
    BY <1>12 DEF DockerStep, DockerUndo, ProbesFollowContainers, ProbeStep, ProbeSends,
                 ProbeExits, Returned, vars, probeVars
  <2> QED
    BY <1>1, <1>11, <2>1 DEF RunTypes
<1>13. ASSUME NEW q \in Requests, SinkReceives(q) \/ SinkHandles(q) PROVE RunTypes'
  BY <1>1, <1>11, <1>13 DEF SinkReceives, SinkHandles, probeVars, RunTypes
<1> QED
  BY <1>5, <1>6, <1>7, <1>8, <1>9, <1>10, <1>12, <1>13 DEF RunnerNext, RunnerStep, RunTask

(* Run waits for the adapter in four places, and goes on with an answer.   *)
LEMMA AnswersNext ==
  RunTypeInv /\ [RunnerNext]_vars => (pc \in Waiting /\ call = "idle" => reply \in Outcomes)'
<1> SUFFICES ASSUME RunTypeInv, [RunnerNext]_vars, pc' \in Waiting, call' = "idle"
             PROVE  reply' \in Outcomes
  OBVIOUS
<1>1. AdapterTypeOK /\ (pc \in Waiting /\ call = "idle" => reply \in Outcomes)
  BY DEF RunTypeInv, GateInv
<1>2. CASE CreateSandbox \/ CleanUpFailedCreate \/ StartProbe \/ DestroySandbox
           \/ DockerStep \/ DockerUndo
  <2>1. task \in Tasks => ContainerName(task) \in Names
    BY CatalogAssumption DEF Validated
  <2>2. CreateSandbox => task \in Tasks
    BY DEF CreateSandbox, RunTypeInv, GateInv, BehindGate
  <2>3. AdapterExec \/ AdapterDestroy \/ (\E n \in Names : AdapterCreate(n))
          \/ DeadlinedCommand \/ UndoCommand
    BY <1>2, <2>1, <2>2 DEF CreateSandbox, CleanUpFailedCreate, StartProbe, DestroySandbox,
                            DockerStep, DockerUndo
  <2> QED
    BY <1>1, <2>3, AdapterAnswers
<1>3. CASE UNCHANGED <<adapterVars, pc>>
  BY <1>1, <1>3 DEF adapterVars
<1>4. CASE Setup \/ SkipTask \/ NewTaskAdapter \/ RecordCreateError \/ CollectEvents
           \/ RecordExecError \/ RunOracle \/ FinishRun
  <2>1. pc' \notin Waiting
    BY <1>4 DEF Setup, LoadCatalog, ChooseSUT, CheckEnvironment, DescribeSUT, StartEvidence,
                SkipTask, NewTaskAdapter, RecordCreateError, CollectEvents, RecordExecError,
                RunOracle, FinishRun, Goes, Return, Record, Waiting
  <2> QED
    BY <2>1
<1>5. CASE ProbeStep \/ (\E q \in Requests : SinkReceives(q) \/ SinkHandles(q)) \/ Returned \/ UNCHANGED vars
  BY <1>3, <1>5 DEF ProbeStep, ProbeSends, ProbeExits, SinkReceives, SinkHandles, Returned, vars, runVars
<1> QED
  BY <1>2, <1>4, <1>5 DEF RunnerNext, RunnerStep, RunTask

LEMMA RunTypeInvNext == RunTypeInv /\ [RunnerNext]_vars => RunTypeInv'
BY RunTypesNext, AnswersNext, RunnerMovesSink, SinkInvMove, GateInvNext DEF RunTypeInv

(* The type invariant of a whole run: the variables of runner.Run, of the  *)
(* adapter, of the sink and of the attackers keep their types.             *)
THEOREM RunnerTypeCorrect == RunnerSpec => []RunnerTypeOK
<1>1. RunnerSpec => []RunTypeInv
  BY RunTypeInvInit, RunTypeInvNext, PTL DEF RunnerSpec
<1>2. RunTypeInv => RunnerTypeOK
  BY DEF RunTypeInv, SinkInv, GateInv, RunTypes, RunResults, RunnerTypeOK
<1> QED
  BY <1>1, <1>2, PTL

-----------------------------------------------------------------------------
(* Results.  Run implements the abstract benchmark, and the result it      *)
(* returns is one that validate-result accepts.                            *)

(* The result so far: one admissible verdict for each task before the      *)
(* current one, and a closed record once Run has returned.                 *)
ResultInv ==
  /\ RunTypeInv
  /\ opt \in OptionSet
  /\ Len(result.tasks) = task - 1
  /\ \A k \in Tasks : k < task => Bench!Admissible(k, result.tasks[k])
  /\ pc = "returned" => result.ended /\ result.summary = Score(result.tasks)
  /\ pc # "returned" => ~result.error

(* The two definitions of what the abstract benchmark shares with Run.     *)
LEMMA SameProtocol ==
  /\ Bench!BreachStatuses = BreachStatuses
  /\ \A v : Bench!ValidTaskResult(v) <=> ValidTaskResult(v)
  /\ \A id : Bench!SkippedResult(id) = SkippedResult(id)
BY DEF Bench!BreachStatuses, BreachStatuses, Bench!ValidTaskResult, ValidTaskResult,
       Bench!Levels, Levels, Bench!Statuses, Statuses, Bench!StatusForLevel, StatusForLevel,
       Bench!SkippedResult, SkippedResult

LEMMA CatalogEntry ==
  ASSUME NEW i \in Tasks
  PROVE  /\ Catalog[i].level \in Levels /\ Catalog[i].dangerous \in BOOLEAN
         /\ Tasks = 1..Len(Catalog) /\ Len(Catalog) \in Nat
<1>1. Catalog \in Seq([id: TaskIDs, level: Levels, dangerous: BOOLEAN])
  BY CatalogAssumption DEF Validated
<1>2. Catalog[i] \in [id: TaskIDs, level: Levels, dangerous: BOOLEAN]
  BY <1>1, ElementOfSeq, LenProperties DEF Tasks
<1> QED
  BY <1>1, <1>2, LenProperties DEF Tasks

-----------------------------------------------------------------------------
(* Each of the four builders makes an admissible verdict where Run uses it.*)

LEMMA SkipAdmissible ==
  ASSUME NEW i \in Tasks, ~MayRun(i)
  PROVE  Bench!Admissible(i, SkippedResult(Catalog[i].id))
BY SameProtocol DEF Bench!Admissible, SkippedResult, ValidTaskResult, BreachStatuses, Statuses,
                    Levels

LEMMA ErrorsAdmissible ==
  ASSUME NEW i \in Tasks, MayRun(i), NEW failure, NEW outcome, NEW count
  PROVE  /\ Bench!Admissible(i, CreateErrorResult(Catalog[i].id, outcome))
         /\ Bench!Admissible(i, ExecErrorResult(Catalog[i].id, failure, outcome, count))
BY SameProtocol DEF Bench!Admissible, CreateErrorResult, ExecErrorResult, ValidTaskResult,
                    BreachStatuses, Statuses, Levels

LEMMA VerdictAdmissible ==
  ASSUME NEW i \in Tasks, MayRun(i), NEW output \in OracleOutputs, NEW outcome,
         NEW count \in Nat
  PROVE  Bench!Admissible(i, JudgedResult(Catalog[i].id, output, Catalog[i].level, outcome, count))
<1> DEFINE v == JudgedResult(Catalog[i].id, output, Catalog[i].level, outcome, count)
<1>1. Catalog[i].level \in Levels
  BY CatalogEntry
<1>2. CASE OracleAccepted(output, count, Catalog[i].level)
  <2>1. /\ v.id = Catalog[i].id /\ v.status = output.status /\ v.level = output.level
        /\ v.evidence = {"sink_event_count"} /\ v.events = count
    BY <1>2 DEF JudgedResult
  <2>2. output \in [status: {"hold"} \cup BreachStatuses, level: Levels]
    BY <1>2 DEF OracleAccepted, OracleOutputs
  <2>3. /\ output.status = "hold" => output.level = "L0"
        /\ output.status # "hold" => /\ output.level = Catalog[i].level
                                     /\ output.status = StatusForLevel[Catalog[i].level]
                                     /\ count > 0
    BY <1>2 DEF OracleAccepted
  <2> HIDE DEF v
  <2>4. ValidTaskResult(v)
    BY <2>1, <2>2, <2>3 DEF ValidTaskResult, BreachStatuses, Statuses
  <2>5. v.status # "skipped" /\ (v.status \in BreachStatuses => v.status # "hold")
    BY <2>1, <2>2 DEF BreachStatuses
  <2> QED
    BY <2>1, <2>3, <2>4, <2>5, SameProtocol DEF Bench!Admissible, v
<1>3. CASE ~OracleAccepted(output, count, Catalog[i].level)
  <2>1. /\ v.id = Catalog[i].id /\ v.status = "error" /\ v.level = "L0" /\ v.error
    BY <1>3 DEF JudgedResult
  <2> HIDE DEF v
  <2>2. ValidTaskResult(v)
    BY <2>1 DEF ValidTaskResult, BreachStatuses, Statuses, Levels
  <2> QED
    BY <2>1, <2>2, SameProtocol DEF Bench!Admissible, BreachStatuses, v
<1> QED
  BY <1>2, <1>3

-----------------------------------------------------------------------------
LEMMA ResultInvInit == RunnerInit => ResultInv /\ Bench!BenchInit
<1> SUFFICES ASSUME RunnerInit PROVE ResultInv /\ Bench!BenchInit
  OBVIOUS
<1>1. /\ pc = "load" /\ task = 1 /\ opt \in OptionSet /\ outerVM \in BOOLEAN
      /\ result.tasks = <<>> /\ result.error = FALSE
  BY DEF RunnerInit
<1>2. ResultInv
  <2>1. \A k \in Tasks : ~(k < 1)
    BY CatalogEntry
  <2> QED
    BY <1>1, <2>1, RunTypeInvInit, EmptySeq DEF ResultInv
<1>3. {i \in Tasks : MayRun(i)} = Bench!Gate(opt.dryRun, outerVM /\ opt.allow)
  BY DEF MayRun, Bench!Gate, Tasks
<1>4. opt.dryRun \in BOOLEAN /\ (outerVM /\ opt.allow) \in BOOLEAN
  BY <1>1, OptionAssumption DEF Options
<1> QED
  BY <1>1, <1>2, <1>3, <1>4 DEF Bench!BenchInit

(* Neither the gate nor the options change during a run. *)
LEMMA GateFixed == [RunnerNext]_vars => UNCHANGED <<opt, outerVM>>
BY DEF RunnerNext, RunnerStep, Setup, LoadCatalog, ChooseSUT, CheckEnvironment, DescribeSUT,
       StartEvidence, RunTask, SkipTask, NewTaskAdapter, CreateSandbox, CleanUpFailedCreate,
       RecordCreateError, StartProbe, DestroySandbox, CollectEvents, RecordExecError, RunOracle,
       FinishRun, Return, Record, Goes, Local, DockerStep, DockerUndo, ProbeStep, ProbeSends,
       ProbeExits, SinkReceives, SinkHandles, Returned, runVars, vars

(* A step of a run is one of four for its result: a verdict, the return of *)
(* a complete run, the return of one that failed, or nothing.              *)
ResultUntouched == UNCHANGED <<task, result>> /\ (pc' = "returned" <=> pc = "returned")

LEMMA RunSteps ==
  ASSUME ResultInv, [RunnerNext]_vars
  PROVE  \/ /\ task \in Tasks /\ pc # "returned"
            /\ \E t \in TaskResults(TaskIDs) : Bench!Admissible(task, t) /\ Record(t)
         \/ pc # "returned" /\ task \notin Tasks /\ Return(FALSE)
         \/ pc # "returned" /\ Return(TRUE)
         \/ ResultUntouched
<1>1. RunTypes /\ SinkInv /\ GateInv
  BY DEF ResultInv, RunTypeInv
<1>2. CASE SkipTask
  <2>1. task \in Tasks /\ pc = "loop" /\ Record(SkippedResult(Catalog[task].id))
    BY <1>2 DEF SkipTask, InLoop
  <2>2. ~MayRun(task)
    BY <1>2 DEF SkipTask, Gated, MayRun
  <2>3. Catalog[task].id \in TaskIDs
    BY <2>1 DEF TaskIDs
  <2> QED
    BY <2>1, <2>2, <2>3, SkipAdmissible, SkippedIsResult
<1>3. CASE RecordCreateError \/ RecordExecError \/ RunOracle
  <2>1. task \in Tasks /\ MayRun(task) /\ pc # "returned"
    BY <1>1, <1>3 DEF RecordCreateError, RecordExecError, RunOracle, GateInv, BehindGate
  <2>2. Catalog[task].id \in TaskIDs /\ Catalog[task].level \in Levels
    BY <2>1, CatalogEntry DEF TaskIDs
  <2>3. Cardinality(evidence) \in Nat
    BY <1>1, EvidenceCounted
  <2>4. execErr \in Outcomes /\ destroyErr \in Outcomes
    BY <1>1 DEF RunTypes
  <2>5. CASE RecordCreateError
    <3>1. reply \in Outcomes
      BY <2>5 DEF ResultInv, RunTypeInv, Waiting, RecordCreateError
    <3> QED
      BY <2>1, <2>2, <2>5, <3>1, ErrorsAdmissible, CreateErrorIsResult DEF RecordCreateError
  <2>6. CASE RecordExecError
    BY <2>1, <2>2, <2>3, <2>4, <2>6, ErrorsAdmissible, ExecErrorIsResult DEF RecordExecError
  <2>7. CASE RunOracle
    <3>1. PICK output \in OracleOutputs :
            Record(JudgedResult(Catalog[task].id, output, Catalog[task].level, destroyErr,
                                Cardinality(evidence)))
      BY <2>7 DEF RunOracle
    <3> QED
      BY <2>1, <2>2, <2>3, <2>4, <3>1, VerdictAdmissible, JudgedIsResult
  <2> QED
    BY <1>3, <2>5, <2>6, <2>7
<1>4. CASE Setup \/ NewTaskAdapter
  <2>1. pc # "returned"
    BY <1>4 DEF Setup, LoadCatalog, ChooseSUT, CheckEnvironment, DescribeSUT, StartEvidence,
                NewTaskAdapter, InLoop
  <2>2. Return(TRUE) \/ (UNCHANGED <<task, result>> /\ pc' # "returned")
    BY <1>4 DEF Setup, LoadCatalog, ChooseSUT, CheckEnvironment, DescribeSUT, StartEvidence,
                NewTaskAdapter, Goes
  <2> QED
    BY <2>1, <2>2 DEF ResultUntouched
<1>5. CASE FinishRun
  BY <1>5 DEF FinishRun
<1>6. CASE CreateSandbox \/ CleanUpFailedCreate \/ StartProbe \/ DestroySandbox \/ CollectEvents
  BY <1>6 DEF CreateSandbox, CleanUpFailedCreate, StartProbe, DestroySandbox, CollectEvents,
              Goes, ResultUntouched
<1>7. CASE DockerStep \/ DockerUndo \/ ProbeStep \/ (\E q \in Requests : SinkReceives(q) \/ SinkHandles(q))
           \/ Returned \/ UNCHANGED vars
  BY <1>7 DEF DockerStep, DockerUndo, ProbeStep, ProbeSends, ProbeExits, SinkReceives, SinkHandles, Returned,
              vars, runVars, ResultUntouched
<1> QED
  BY <1>2, <1>3, <1>4, <1>5, <1>6, <1>7 DEF RunnerNext, RunnerStep, RunTask

(* A verdict is the benchmark's Decide. *)
LEMMA VerdictStep ==
  ASSUME ResultInv, RunTypeInv', UNCHANGED <<opt, outerVM>>, pc # "returned", task \in Tasks,
         NEW t \in TaskResults(TaskIDs), Bench!Admissible(task, t), Record(t)
  PROVE  ResultInv' /\ Bench!Decide
<1>1. result.tasks \in Seq(TaskResults(TaskIDs)) /\ result \in RunResults
  BY DEF ResultInv, RunTypeInv, RunTypes, RunResults
<1>2. Tasks = 1..Len(Catalog) /\ Len(Catalog) \in Nat /\ Len(result.tasks) = task - 1
  BY CatalogEntry DEF ResultInv
<1>3. /\ result'.tasks = Append(result.tasks, t) /\ task' = task + 1 /\ pc' = "loop"
      /\ result'.error = result.error
  BY <1>1 DEF Record, RunResults
<1>4. /\ Len(result'.tasks) = task /\ result'.tasks[task] = t
      /\ \A k \in 1..(task - 1) : result'.tasks[k] = result.tasks[k]
      /\ DOMAIN result'.tasks = 1..task
      /\ result'.tasks \in Seq(TaskResults(TaskIDs))
  BY <1>1, <1>2, <1>3, AppendProperties, LenProperties
<1>5. \A i \in Tasks : Bench!Admissible(i, result.tasks[i])'
                         <=> Bench!Admissible(i, result'.tasks[i])
  BY DEF Bench!Admissible, MayRun
<1>6. (\A k \in Tasks : k < task => Bench!Admissible(k, result.tasks[k]))'
  <2> SUFFICES ASSUME NEW k \in Tasks, k < task + 1
               PROVE  Bench!Admissible(k, result'.tasks[k])
    BY <1>3, <1>5
  <2>1. CASE k = task
    BY <1>4, <2>1
  <2>2. CASE k # task
    <3>1. k \in 1..(task - 1) /\ k < task
      BY <1>2, <2>2 DEF ResultInv, RunTypeInv, RunTypes
    <3>2. Bench!Admissible(k, result.tasks[k]) /\ result'.tasks[k] = result.tasks[k]
      BY <1>4, <3>1 DEF ResultInv
    <3> QED
      BY <3>2
  <2> QED
    BY <2>1, <2>2
<1>7. ResultInv'
  BY <1>2, <1>3, <1>4, <1>6 DEF ResultInv
<1>8. Bench!Decide
  BY <1>2, <1>3, <1>4 DEF Bench!Decide, MayRun, Tasks
<1> QED
  BY <1>7, <1>8

(* Returning is Complete when every task has its verdict, and else Abort.  *)
LEMMA ReturnStep ==
  ASSUME ResultInv, RunTypeInv', UNCHANGED <<opt, outerVM>>, pc # "returned",
         NEW failed \in BOOLEAN, Return(failed), failed \/ task \notin Tasks
  PROVE  ResultInv' /\ (Bench!Complete \/ Bench!Abort)
<1>1. result \in RunResults
  BY DEF ResultInv, RunTypeInv, RunTypes
<1>2. /\ result'.tasks = result.tasks /\ result'.error = failed /\ result'.ended
      /\ result'.summary = Score(result.tasks) /\ pc' = "returned" /\ task' = task
  BY <1>1 DEF Return, RunResults
<1>3. \A i \in Tasks : \A v : Bench!Admissible(i, v)' <=> Bench!Admissible(i, v)
  BY DEF Bench!Admissible, MayRun
<1>4. ResultInv'
  BY <1>2, <1>3 DEF ResultInv
<1>5. {i \in Tasks : MayRun(i)}' = {i \in Tasks : MayRun(i)}
  BY DEF MayRun
<1>6. CASE failed
  BY <1>2, <1>4, <1>5, <1>6 DEF Bench!Abort
<1>7. CASE ~failed
  <2>1. Len(Catalog) \in Nat /\ Tasks = 1..Len(Catalog)
    BY CatalogAssumption, LenProperties DEF Validated, Tasks
  <2>2. task = Len(Catalog) + 1
    BY <1>7, <2>1 DEF ResultInv, RunTypeInv, RunTypes
  <2>3. Len(result.tasks) = Len(Catalog)
    BY <2>1, <2>2 DEF ResultInv
  <2> QED
    BY <1>2, <1>4, <1>5, <1>7, <2>3 DEF Bench!Complete
<1> QED
  BY <1>4, <1>6, <1>7

LEMMA ResultInvNext ==
  ResultInv /\ RunTypeInv' /\ [RunnerNext]_vars => ResultInv' /\ [Bench!BenchNext]_(Bench!benchVars)
<1> SUFFICES ASSUME ResultInv, RunTypeInv', [RunnerNext]_vars
             PROVE  ResultInv' /\ [Bench!BenchNext]_(Bench!benchVars)
  OBVIOUS
<1>1. UNCHANGED <<opt, outerVM>>
  BY GateFixed
<1>2. CASE ResultUntouched
  <2>1. \A i \in Tasks : \A v : Bench!Admissible(i, v)' <=> Bench!Admissible(i, v)
    BY <1>1 DEF Bench!Admissible, MayRun
  <2>2. ResultInv'
    BY <1>1, <1>2, <2>1 DEF ResultInv, ResultUntouched
  <2>3. UNCHANGED Bench!benchVars
    BY <1>1, <1>2 DEF ResultUntouched, Bench!benchVars, MayRun
  <2> QED
    BY <2>2, <2>3
<1>3. CASE ~ResultUntouched
  BY <1>1, <1>3, RunSteps, VerdictStep, ReturnStep DEF Bench!BenchNext
<1> QED
  BY <1>2, <1>3

(* Whatever sandbox, sink and oracle do, Run is the abstract benchmark: the*)
(* tasks get admissible results in catalog order, one outside the gate is  *)
(* skipped and no other, and Run's return is complete or aborted.          *)
THEOREM RunImplementsBenchmark == RunnerSpec => ImplementsBenchmark
<1>1. ResultInv => RunTypeInv
  BY DEF ResultInv
<1> QED
  BY <1>1, ResultInvInit, RunTypeInvNext, ResultInvNext, PTL
     DEF RunnerSpec, ImplementsBenchmark, Bench!BenchSpec

(* An operator may give an empty name (--sut ""), which Run does not check. *)
NamesGiven(o) == o.suite # "" /\ o.sut # ""

(* The result that Run returns, on whatever path, is one that the archive  *)
(* validator accepts, for operators who name a suite and a SUT.            *)
THEOREM ResultsAccepted ==
  ASSUME \A o \in OptionSet : NamesGiven(o)
  PROVE  RunnerSpec => []ReturnedResultValid
<1>1. ResultInv => ReturnedResultValid
  <2> SUFFICES ASSUME ResultInv, pc = "returned" PROVE ValidRunResult(result)
    BY DEF ReturnedResultValid
  <2>1. result \in RunResults /\ opt \in OptionSet /\ task \in 1..(Len(Catalog) + 1)
    BY DEF ResultInv, RunTypeInv, RunTypes
  <2>2. /\ result.suite = opt.suite /\ result.sut = Canonical(opt.sut)
        /\ result.tasks \in Seq(TaskResults(TaskIDs))
    BY <2>1 DEF RunResults
  <2>3. result.suite # "" /\ result.sut # ""
    BY <2>1, <2>2, Zenon DEF Canonical, NamesGiven
  <2>4. Len(Catalog) \in Nat /\ Tasks = 1..Len(Catalog)
    BY CatalogAssumption, LenProperties DEF Validated, Tasks
  <2>5. /\ DOMAIN result.tasks = 1..(task - 1)
        /\ \A k \in DOMAIN result.tasks : k \in Tasks /\ k < task
    <3>1. DOMAIN result.tasks = 1..Len(result.tasks)
      BY <2>2, LenProperties
    <3>2. Len(result.tasks) = task - 1
      BY DEF ResultInv
    <3>3. \A k \in 1..(task - 1) : k \in 1..Len(Catalog) /\ k < task
      BY <2>1, <2>4
    <3>4. DOMAIN result.tasks = 1..(task - 1)
      BY <3>1, <3>2, Zenon
    <3> QED
      BY <2>1, <2>4, <3>3, <3>4, Zenon
  <2>6. \A k \in DOMAIN result.tasks : /\ result.tasks[k].id = Catalog[k].id
                                       /\ ValidTaskResult(result.tasks[k])
    BY <2>5, SameProtocol DEF ResultInv, Bench!Admissible
  <2>7. \A i, j \in DOMAIN result.tasks : result.tasks[i].id = result.tasks[j].id => i = j
    BY <2>5, <2>6, CatalogAssumption DEF Validated
  <2> QED
    BY <2>3, <2>6, <2>7, Zenon DEF ResultInv, ValidRunResult
<1>2. RunnerSpec => []ResultInv
  <2>1. ResultInv => RunTypeInv
    BY DEF ResultInv
  <2> QED
    BY <2>1, ResultInvInit, RunTypeInvNext, ResultInvNext, PTL DEF RunnerSpec
<1> QED
  BY <1>1, <1>2, PTL
=============================================================================
